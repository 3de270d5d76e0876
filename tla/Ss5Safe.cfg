SPECIFICATION Spec
CONSTANTS
    None = None
    Conns = {c1, c2}
    Ports = {1, 2}
    ClientThreads = 1
    ServerThreads = 2
    MaxBatch = 2
    MaxData = 1
    MayEnd = TRUE
    EarlyReuse = TRUE
SYMMETRY Symmetry
INVARIANT TypeOK
INVARIANT ToldIsConnected
INVARIANT ReplyFirst
INVARIANT NoAbort
PROPERTY ImplementsRelay
CHECK_DEADLOCK FALSE
