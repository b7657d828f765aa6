CONSTANTS
    a = a
    b = b
    Members = {a}
    Workers = {w1}
    ClusterOf <- MCClusterOf
    ViewOf <- MCViewOf
    MaxVersion = 2
    MaxConn = 2
    Refusals = 1
SPECIFICATION FairSpec
CHECK_DEADLOCK FALSE
PROPERTY
    ListenerReregistered
