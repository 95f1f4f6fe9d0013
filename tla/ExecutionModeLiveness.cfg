SPECIFICATION FairSpec
CONSTANTS
    app = app
    worker = worker
    b1 = b1
    b2 = b2
    l1 = l1
    Processes <- MCApp
    Backtests <- MCBacktests
    Loops <- MCOneLoop
    Home <- MCHomeApp
    NoTime = NoTime
    NoRow = NoRow
    Stale = 1
    Ttl = 3
    Poll = 4
    MaxDelay = 1
    PageReads = FALSE
    MaxMaintenance = 1
    MaxCrashes = 1
    MaxOutages = 1
    MaxRetries = 0

    
PROPERTIES
    ScansResume
