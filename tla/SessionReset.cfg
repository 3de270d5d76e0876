SPECIFICATION FairSpec
CONSTANTS
    d1 = d1
    d2 = d2
    d3 = d3
    u1 = u1
    u2 = u2
    ann = ann
    bob = bob
    m1 = m1
    m2 = m2
    None = None
    Daemons = {d1}
    Usrs = {u1}
    UuidOf <- PairUuid
    UserOf <- PairUser
    Bevs = {b1, b2, b3}
    BadKey = {}
    MayDie = {d1, u1}
    MayReset = TRUE
    FastRestart = FALSE
PROPERTY LossEndsSession
CHECK_DEADLOCK FALSE
