SPECIFICATION Spec
CONSTANTS
    t1 = t1
    t2 = t2
    Trans = {t1, t2}
    Threads = {t1, t2}
    ThreadOf <- OwnThreads
    Flows <- AskAndAnswer
    MaxText = 2
    MaxFrame = 2
INVARIANT Deciphers
CHECK_DEADLOCK FALSE
