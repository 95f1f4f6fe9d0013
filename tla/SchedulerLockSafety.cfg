SPECIFICATION Spec
CONSTANTS
    w1 = w1
    w2 = w2
    app = app
    Owners <- MCOwners
    Standalone <- MCStandalone
    NoOwner = NoOwner
    NoHeartbeat = NoHeartbeat
    Stale = 2
    MaxDelay = 3
    GateEnabled = TRUE
    MaxOutages = 1
INVARIANTS
    ExclusiveScanning
PROPERTIES
    LeaseSpec
    ClaimKept
