CONSTANTS
    IsHost = FALSE
    States = {"OK", "CRITICAL"}
    Volatile = FALSE
    EnableFlapping = FALSE
    Peers = FALSE
    MaxCheckAttempts = 1
SPECIFICATION Spec
INVARIANTS NothingLostInRace
