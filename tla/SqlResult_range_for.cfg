CONSTANTS
    Results <- Pages
    Timeout = TRUE
    MaxTimeouts = 1
    MaxFaults = 1
SPECIFICATION Spec
INVARIANT
    RangeForEnds
