CONSTANTS
    Callers = {c1, c2, c3}
    Max = 2
    MaxCallId = 5
    BatchSize = 2
    MaxBatch = 2
    Base <- MCBase
    increment = 2
    NoId = NoId
    Error = Error
SPECIFICATION PartsSpec
CHECK_DEADLOCK FALSE
INVARIANTS
    TypesOK
    SlotAccounting
    OvershootBounded
    InPushOrder
    AsSent
    ListenersInPlace
    GoneMeansGone
    SingleFlight
    RowsInOrder
    InOrder
PROPERTIES
    WaitsEnd
    NothingLeftBehind
    AllHandled
    EveryCallReturns
    ImplementsIdSource
    EveryCallAnswered
    LoopEnds
    KeepsUp
