SPECIFICATION Spec
CONSTANTS
    worker = worker
    page = page
    Producers <- MCWorker
    Stages <- MCStages
    Sources <- MCSources
    Minting <- MCMinting
    MaxAge <- MCMaxAge
    Levels <- MCLevels
    LastDay = 1
    MaxFaults = 0
    NoPlan = NoPlan
INVARIANTS
    OutcomeMeansEnded
