CONSTANTS
    Checkables = {c1}
    LocalZone = {c1}
    PassiveEnabled = {c1}
    PeerChecked = {}
    PluginChecks = {c1}
    EndpointChecks = {}
    Helpers = {h1}
    MaxConcurrentChecks = 1
    CheckInterval = 1
    CheckTimeout = 1
    MaxOverdue = 0
    MaxRemoteProcs = 0
    MaxLeaks = 0
    MayStop = TRUE
SPECIFICATION FairSpec
INVARIANTS
    QuietAfterStop
PROPERTIES
    StopReturns
    ForcedCheckRuns
CHECK_DEADLOCK FALSE
