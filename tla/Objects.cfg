CONSTANTS
    Names = {d1, d2}
    NoName = NoName
    Checkables = {"parent", "child"}
    Children <- MCChildren
    Windows <- MCWindows
    Options = {"DowntimeTriggeredChildren"}
    MaxScheduled = 1
    MaxThreads = 1
    MaxNow = 4
    IsHost = FALSE
    States = {"OK", "WARNING", "CRITICAL"}
    Volatile = FALSE
    EnableFlapping = TRUE
    Peers = TRUE
    MaxCheckAttempts = 3
SPECIFICATION ObjectsSpec
SYMMETRY NameSymmetry
INVARIANTS
    NothingLost
    HardAfterRechecks
    EndFollowsStart
    CleanupComes
    ChildrenFollow
PROPERTIES
    OnlyNews
CHECK_DEADLOCK FALSE
