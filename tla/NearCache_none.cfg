CONSTANTS
    Threads = {u1, u2}
    Keys = {k1, k2}
    get_slot <- OneSlot
    MaxSize = 1
    EvictionEnabled = FALSE
    MaxVersion = 2
    MaxEvents = 1
    MaxLosses = 0
    MaxCalls = 3
SPECIFICATION Spec
CHECK_DEADLOCK FALSE
INVARIANT
    NoneOnlyIfAbsent
