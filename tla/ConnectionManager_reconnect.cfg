CONSTANTS
    a1 = a1
    a2 = a2
    b1 = b1
    Members <- TwoClusters
    Cluster <- MCCluster
    Address <- MCAddress
    PartitionCount <- OneDiffers
    ReconnectMode = "ON"
    AsyncStart = TRUE
    Smart = FALSE
    HasSchemas = TRUE
    CanShutdown = TRUE
    MaxConn = 3
SPECIFICATION Spec
CHECK_DEADLOCK FALSE
INVARIANTS
    NoLostReconnect
    DeadConnectionsLeave
    ClosedAfterShutdown
    InitPending
