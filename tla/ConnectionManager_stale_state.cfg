CONSTANTS
    a1 = a1
    a2 = a2
    b1 = b1
    Members <- OneCluster
    Cluster <- MCCluster
    Address <- MCAddress
    PartitionCount <- AllSame
    ReconnectMode = "ON"
    AsyncStart = TRUE
    Smart = FALSE
    HasSchemas = TRUE
    CanShutdown = FALSE
    MaxConn = 3
SPECIFICATION Spec
CHECK_DEADLOCK FALSE
INVARIANTS
    SchemasBeforeData
