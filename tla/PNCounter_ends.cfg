CONSTANTS
    Callers = {i1}
    Replicas = {a, b, d}
    MaxAdds = 1
    MaxFaults = 1
    MaxCalls = 2
SPECIFICATION FairSpec
CHECK_DEADLOCK FALSE
PROPERTY
    CallEnds
