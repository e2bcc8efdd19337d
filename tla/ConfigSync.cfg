CONSTANTS
    Servers = {n1, n2}
    MaxTime = 2
    MaxRequests = 1
    MaxBreaks = 1
    LogDuration = 1
SPECIFICATION ConfigSpec
INVARIANTS SameVersionSameAttributes
CHECK_DEADLOCK FALSE
