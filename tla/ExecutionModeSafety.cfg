SPECIFICATION Spec
CONSTANTS
    app = app
    worker = worker
    b1 = b1
    b2 = b2
    l1 = l1
    Processes <- MCBoth
    Backtests <- MCBacktests
    Loops <- MCOneLoop
    Home <- MCHomeSplit
    NoTime = NoTime
    NoRow = NoRow
    Stale = 1
    Ttl = 3
    Poll = 4
    MaxDelay = 1
    PageReads = TRUE
    MaxMaintenance = 1
    MaxCrashes = 1
    MaxOutages = 0
    MaxRetries = 1
SYMMETRY MCSymmetry
INVARIANTS
    ModeMatchesCount
    CountCovered
PROPERTIES
    PauseReachesLoops
