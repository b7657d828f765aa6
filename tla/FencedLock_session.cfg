CONSTANTS
    Threads = {t1, t2}
    NoThread = NoThread
    MaxSession = 2
    MaxCalls = 3
    LockLimit = 2
SPECIFICATION Spec
CHECK_DEADLOCK FALSE
INVARIANT
    HoldKeepsSession
