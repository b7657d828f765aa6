CONSTANTS
    Threads = {u1}
    Keys = {k1}
    get_slot <- OneSlot
    MaxSize = 1
    EvictionEnabled = FALSE
    MaxVersion = 2
    MaxEvents = 1
    MaxLosses = 0
    MaxCalls = 3
SPECIFICATION FairSpec
CHECK_DEADLOCK FALSE
PROPERTY
    ExpiredLeave
