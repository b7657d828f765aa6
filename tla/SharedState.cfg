CONSTANTS
    Workers = {"w"}
    Members = {"a", "b", "n"}
    ClusterOf <- MCClusterOf
    ViewOf <- MCViewOf
    MaxVersion = 2
    MaxConn = 2
    Refusals = 1
    t1 = t1
    t2 = t2
SPECIFICATION PartsSpec
SYMMETRY Symmetry
CHECK_DEADLOCK FALSE
INVARIANTS
    TypesOK
    OneViewSource
    NewestMembers
    InUseWhileHeld
    StaleIsDoomed
    SessionKept
    StateIsTrue
PROPERTIES
    VersionsNeverFall
    SameFence
