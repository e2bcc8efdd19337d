CONSTANTS
    Nodes = {"a", "b"}
    Senders = {"a", "b"}
    Others = FALSE
    MaxLogMessages = 1
    ReplayBatch = 1
    PositionSlack = 1
    MaxTime = 2
    MaxConnections = 1
SPECIFICATION Spec
INVARIANTS SameHistory
