SPECIFICATION Spec
CONSTANTS
    None = None
    Conns = {c1, c2}
    Ports = {1, 3}
    ThreadNum = 2
    MaxBatch = 2
    MaxData = 1
    MayExit = {"U", "D"}
    MayRefuse = TRUE
    EarlyReuse = TRUE
SYMMETRY Symmetry
INVARIANT TypeOK
INVARIANT UniquePorts
INVARIANT LegsMatch
INVARIANT UserLegFirst
INVARIANT ActiveIsJoined
INVARIANT NoAbort
PROPERTY ImplementsRelay
CHECK_DEADLOCK FALSE
