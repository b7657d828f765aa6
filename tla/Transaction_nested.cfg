CONSTANTS
    MaxTxns = 2
    MaxCalls = 3
    MaxFaults = 0
SPECIFICATION Spec
CHECK_DEADLOCK FALSE
INVARIANT
    NotNested
