CONSTANTS
    i1 = i1
    c1 = c1
    r1 = r1
    r2 = r2
    Cleaner = Cleaner
SPECIFICATION LiveSpec
CHECK_DEADLOCK FALSE
PROPERTIES
    PendingSettlesEver
    BreakNoticedEver
