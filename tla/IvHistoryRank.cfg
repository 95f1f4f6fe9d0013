SPECIFICATION IvSpec
CONSTANTS
    Watched = {acc, tcs}
    Vols = {20, 40}
    MinHistory = 2
    Lookback = 2
    KeepDays = 2
    LastDate = 4
    LastRound = 2
    MaxOops = 0
    NoIv = NoIv
INVARIANTS
    RankFromObservations
CHECK_DEADLOCK FALSE
