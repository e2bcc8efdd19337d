CONSTANTS
    Nodes = {"a", "b"}
    Senders = {"a"}
    Others = TRUE
    MaxLogMessages = 1
    ReplayBatch = 1
    PositionSlack = 1
    MaxTime = 3
    MaxConnections = 2
SPECIFICATION LiveSpec
INVARIANTS Accounted
PROPERTIES EventuallyInSync
