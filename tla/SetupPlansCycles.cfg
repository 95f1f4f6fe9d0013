SPECIFICATION Spec
CONSTANTS
    worker = worker
    page = page
    Producers <- MCProducers
    Stages <- MCStages
    Sources <- MCSources
    Minting <- MCMinting
    MaxAge <- MCMaxAge
    Levels <- MCLevels
    LastDay = 1
    MaxFaults = 1
    NoPlan = NoPlan
INVARIANTS
    
    BarTakenWhole
PROPERTIES
    LevelsFrozen
