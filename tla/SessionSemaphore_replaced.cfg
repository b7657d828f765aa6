CONSTANTS
    Threads = {t1, t2}
    NoThread = NoThread
    MaxSession = 2
    MaxCalls = 2
    Permits = 2
    DRAIN_SESSION_ACQ_COUNT = 1024
SPECIFICATION Spec
CHECK_DEADLOCK FALSE
INVARIANT
    InUseInAnySession
