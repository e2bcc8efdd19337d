CONSTANTS
    Zones = {"master", "satellite", "agent"}
    Global = "global"
    NoZone = "-"
    NoNode = 0
    Parent <- MCParent
    Endpoints <- MCEndpoints
    Agent = 5
    Requests <- MCRequests
    Servers = {n1, n2}
    MaxTime = 3
    MaxRequests = 2
    MaxBreaks = 1
    LogDuration = 1
    Members = {1, 2}
    HostHash = 0
    NameHash = 1
    MaxChanges = 2
    Groups = {"g"}
    MaxObjects = 2
    MaxDependencies = 2
    MaxDisconnects = 1
    MaxUpdates = 4
    Depth = 3
    NumFiles = 2
    Deployments <- MCDeployments
    Loadable <- MCLoadable
    MaxEvents = 2
SPECIFICATION Spec
SYMMETRY ServerSymmetry
INVARIANTS
    ReachesItsAudience
    Converges
    DeletedStaysDeleted
    OneRuns
    RedisInSync
    FilesInSync
CHECK_DEADLOCK FALSE
