CONSTANTS
    a = a
    b = b
    Members = {a, b}
    Workers = {w1}
    ClusterOf <- MCClusterOf
    ViewOf <- MCViewOf
    MaxVersion = 2
    MaxConn = 3
    Refusals = 0
SPECIFICATION FairSpec
CHECK_DEADLOCK FALSE
PROPERTY
    EventsFired
