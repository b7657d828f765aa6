CONSTANTS
    Callers = {i1, i2}
    Replicas = {a, b}
    MaxAdds = 1
    MaxFaults = 1
    MaxCalls = 2
SPECIFICATION Spec
CHECK_DEADLOCK FALSE
INVARIANT
    SessionGuarantee
