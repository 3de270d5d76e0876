SPECIFICATION FairSpec
CONSTANTS
    d1 = d1
    d2 = d2
    d3 = d3
    u1 = u1
    u2 = u2
    ann = ann
    bob = bob
    m1 = m1
    m2 = m2
    None = None
    Daemons = {d1}
    Usrs = {u1}
    UuidOf <- PairUuid
    UserOf <- PairUser
    Bevs = {b1, b2, b3, b4}
    BadKey = {}
    MayDie = {u1, d1}
    MayReset = FALSE
    FastRestart = FALSE
INVARIANT InSession
INVARIANT DaemonWelcome
PROPERTY LossEndsSession
PROPERTY LostIsNoticed
CHECK_DEADLOCK FALSE
