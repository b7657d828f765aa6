CONSTANTS
    i1 = i1
    c1 = c1
    c2 = c2
    r1 = r1
    r2 = r2
    Cleaner = Cleaner
    Invs <- OneInv
    Conns <- OneConn
    Readers <- TwoReaders
    FailOnIndeterminate = FALSE
    Closable <- OneConn
    CanShutdown = FALSE
    MaxBackups = 1
    MaxId = 1
SPECIFICATION FairSpec
CHECK_DEADLOCK FALSE
PROPERTIES
    PendingSettles
