SPECIFICATION MCSpec
CONSTANTS
    a1 = a1
    a2 = a2
    b1 = b1
    Contracts <- MCPairOnly
    Pair <- MCPair
    Expiry <- MCExpiry
    Confidences <- MCConfidences
    Floor = 2
    Margin = 1
    MaxActive = 1
    MaxAge = 1
    Zone <- MCZone
    LastDay = 1
    MaxMisreads = 1
    FaultySaves = TRUE
    NoPlan = NoPlan
    acc = acc
    tcs = tcs
    nifty = nifty
    Stocks = {acc, tcs}
    Indices = {nifty}
    Eligible = {acc}
    LastCycle = 3
    MaxFaults = 1
    NoRow = NoRow
    Spot = 20300
    Interval = 1000
    Moves = {700, 1500, 2600}
    Captures = {20, 45, 80}
    Boards <- MCBoards
    Blocks <- MCBlocks
    Targets <- MCTargets
    Quotes = {100, 900}
    Scores = {45, 60, 85}
    NoPrice = NoPrice
    NoBlock = NoBlock
    Watched = {acc, tcs}
    Vols = {20, 40}
    MinHistory = 2
    Lookback = 2
    KeepDays = 2
    LastDate = 4
    LastRound = 1
    MaxOops = 1
    NoIv = NoIv
INVARIANTS
    CapHeld
    OneOpenPerContract
    
    RecommendedWithinReach
    ExitsOrdered
    StaleRowsTagged
PROPERTIES
    LedgerSpec
    OpenRowsKept
CHECK_DEADLOCK FALSE
