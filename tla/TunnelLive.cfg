SPECIFICATION FairSpec
CONSTANTS
    None = None
    Conns = {c1, c2}
    Ports = {1, 2}
    ThreadNum = 2
    MaxBatch = 2
    MaxData = 0
    MayExit = {"U", "D"}
    MayRefuse = TRUE
    EarlyReuse = TRUE
PROPERTY Opens
PROPERTY TearsDown
PROPERTY SessionEnds
CHECK_DEADLOCK FALSE
