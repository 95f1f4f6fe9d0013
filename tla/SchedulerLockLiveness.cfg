SPECIFICATION FairSpec
CONSTANTS
    w1 = w1
    w2 = w2
    app = app
    Owners <- MCPair
    Standalone <- MCOne
    NoOwner = NoOwner
    NoHeartbeat = NoHeartbeat
    Stale = 2
    MaxDelay = 3
    GateEnabled = TRUE
    MaxOutages = 1
PROPERTIES
    DoubleScanEnds
    OrphanTakenOver
