CONSTANTS
    Callers = {c1, c2, c3}
    BatchSize = 1
    MaxBatch = 2
    Base <- MCBase
    increment = 2
    PoolSize = 1
    MaxCalls = 1
    NoId = NoId
    Error = Error
SPECIFICATION FairSpec
CHECK_DEADLOCK FALSE
PROPERTY
    EveryCallAnswered
