SPECIFICATION FairSpec
CONSTANTS
    None = None
    Conns = {c1, c2}
    Ports = {1, 2}
    ClientThreads = 1
    ServerThreads = 1
    MaxBatch = 2
    MaxData = 0
    MayEnd = TRUE
    EarlyReuse = TRUE
PROPERTY Answered
PROPERTY Closes
CHECK_DEADLOCK FALSE
