SPECIFICATION PoolFairSpec
CONSTANTS
    Items = {i1, i2, i3, i4}
    Kinds = {"Q"}
    Null = Null
    Locked = TRUE
    Threads = {t1, t2, t3}
    Mine = t1
INVARIANT NotifiedFinds
INVARIANT NoDangling
INVARIANT ReadyFirst
PROPERTY ImplementsFifo
PROPERTY StartsUp
CHECK_DEADLOCK FALSE
