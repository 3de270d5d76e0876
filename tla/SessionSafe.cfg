SPECIFICATION Spec
CONSTANTS
    d1 = d1
    d2 = d2
    d3 = d3
    u1 = u1
    u2 = u2
    ann = ann
    bob = bob
    m1 = m1
    m2 = m2
    None = None
    Daemons = {d1, d2, d3}
    Usrs = {u1, u2}
    UuidOf <- PairUuid
    UserOf <- PairUser
    Bevs = {b1, b2, b3, b4}
    BadKey = {u2}
    MayDie = {d1, d3, u1, u2}
    MayReset = TRUE
    FastRestart = TRUE
SYMMETRY Symmetry
INVARIANT OneSession
INVARIANT LiveBevs
INVARIANT AccountsInUse
INVARIANT NoAbort
CHECK_DEADLOCK FALSE
