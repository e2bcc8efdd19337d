CONSTANTS
    Checkables = {c1}
    LocalZone = {c1}
    PassiveEnabled = {}
    PeerChecked = {c1}
    PluginChecks = {c1}
    EndpointChecks = {c1}
    Helpers = {h1, h2}
    MaxConcurrentChecks = 2
    CheckInterval = 1
    CheckTimeout = 1
    MaxOverdue = 0
    MaxRemoteProcs = 3
    MaxLeaks = 1
    MayStop = FALSE
SPECIFICATION Spec
SYMMETRY HelperSymmetry
CONSTRAINT HelpersOrRemoteChecks EndpointChecksStay NoneForced
INVARIANTS
    NoOverlap
    
    
