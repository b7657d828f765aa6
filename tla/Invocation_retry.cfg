CONSTANTS
    i1 = i1
    c1 = c1
    c2 = c2
    r1 = r1
    r2 = r2
    Cleaner = Cleaner
    Invs <- OneInv
    Conns <- TwoConns
    Readers <- TwoReaders
    FailOnIndeterminate = FALSE
    Closable <- TwoConns
    CanShutdown = TRUE
    MaxBackups = 1
    MaxId = 2
SPECIFICATION Spec
CHECK_DEADLOCK FALSE
SYMMETRY Symmetry
INVARIANTS
    TypeOK
    OneNotifier
    AtMostOnce
    NoStaleAnswer
    LastAckCompletes
    NoLeak
