SPECIFICATION MCSpec
CONSTANTS
    app = app
    worker = worker
    loopA = loopA
    loopW = loopW
    acc = acc
    tcs = tcs
    sbi = sbi
    infy = infy
    hdfc = hdfc
    wip = wip
    itc = itc
    one = one
    two = two
    nifty = nifty
    bank = bank
    none = none
    LastBar = 4
    HoldDays = 2
    AllowOverlap = FALSE
    Shapes <- MCShapes
    Plans <- MCPlans
    NoExit = none
    Symbols = {acc, tcs, sbi}
    Every = 2
    LastRun = 2
    MaxFaults = 2
    Procs = {app, worker}
    App = app
    Threads = {loopA, loopW}
    Home <- MCHome
    StateTtl = 1
    GateTtl = 2
    MaxToggles = 1
    MaxFailures = 1
    Tickers = {acc, tcs}
    Feeds = {"upstox"}
    LastDay = 3
    FullRefreshDays = 2
    Capacity = 1
    MaxMishaps = 1
    NoHistory = none
    Callers = {one, two}
    Contracts = {nifty, bank}
    Share = 2
    Rate = 1
    BucketSize = 1
    ChainTtl = 2
    CacheSize = 1
    Retries = 2
    Patience = 1
    LastTick = 3
    NoChain = none
    Scans = {one, two}
    Intervals = {1, 2}
    LastMinute = 3
    MaxMints = 2
    MaxErrors = 2
    NoRow = none
    Sessions = {one, two}
    Holdings = {infy, hdfc}
    Offers = {sbi, wip, itc}
    Views <- MCViews
    MinSwap = 3
    MaxChecks = 2
    LastHalf = 2
    MaxLost = 1
    NoSwap = none
    Pillars <- MCPillars
    Rewards = {12, 18, 25}
    Lags = {5, 20}
    Takes = {2, 10}
    Reclaim = 10
    FirstBar = 210
    WatchedBars = 4
    Configs <- MCConfigs
    Never = none
SYMMETRY Alike
INVARIANTS TradesDisjoint ClosedAtFirstReason SavedOnce GateSettles InnerBarsFinal
    RateBudget ChainAgeBound CheckpointsComplete SinceWitnessed SwapsStable
     
CHECK_DEADLOCK FALSE
