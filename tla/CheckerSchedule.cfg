CONSTANTS
    Checkables = {c1, c2}
    LocalZone = {c1, c2}
    PassiveEnabled = {}
    PeerChecked = {}
    PluginChecks = {}
    EndpointChecks = {c2}
    Helpers = {h1}
    MaxConcurrentChecks = 1
    CheckInterval = 1
    CheckTimeout = 1
    MaxOverdue = 0
    MaxRemoteProcs = 0
    MaxLeaks = 0
    MayStop = FALSE
SPECIFICATION Spec
CONSTRAINT EndpointChecksStay ActivationFirst
INVARIANTS
    Responsibility
    IndexFresh
    NoMissedWakeup
