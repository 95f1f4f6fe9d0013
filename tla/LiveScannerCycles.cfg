SPECIFICATION FairSpec
CONSTANTS
    N = 3
    BatchSize = 2
    Outside <- MCNoOutside
    FoCounts <- MCFoCounts
    ManualLists <- MCManualLists
    SameProcess = FALSE
    MaxRestarts = 1
PROPERTIES
    CycleRowsKept
    OnlyFreshOverManual
    StageOneReady
    SymbolsReturn
    StageOneRecurs
