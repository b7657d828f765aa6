CONSTANTS
    a1 = a1
    a2 = a2
    b1 = b1
    Members <- OneMember
    Cluster <- MCCluster
    Address <- MCAddress
    PartitionCount <- AllSame
    ReconnectMode = "OFF"
    AsyncStart = FALSE
    Smart = TRUE
    HasSchemas = TRUE
    CanShutdown = FALSE
    MaxConn = 3
SPECIFICATION Spec
CHECK_DEADLOCK FALSE
INVARIANTS
    NoOrphan
