SPECIFICATION FairSpec
CONSTANTS
    q1 = q1
    q2 = q2
    a1 = a1
    a2 = a2
    Unset = Unset
    Queries <- Two
    Ids <- ThreeIds
    App <- TwoApps
    MaxBatch = 2
    MaxOther = 1
    MaxLogins = 2
    MayExit = TRUE
    MayEnd = TRUE
    MayBreak = TRUE
    MayRefuse = TRUE
INVARIANT TypeOK
INVARIANT RightApplication
INVARIANT NoAbort
PROPERTY Starts
PROPERTY Answered
CHECK_DEADLOCK FALSE
