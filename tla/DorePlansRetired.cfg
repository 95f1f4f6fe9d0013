SPECIFICATION Spec
CONSTANTS
    a1 = a1
    a2 = a2
    b1 = b1
    Contracts <- MCTwo
    Pair <- MCPair
    Expiry <- MCExpiry
    Confidences <- MCConfidences
    Floor = 2
    Margin = 1
    MaxActive = 1
    MaxAge = 1
    Zone <- MCZone
    LastDay = 1
    MaxMisreads = 0
    FaultySaves = FALSE
    NoPlan = NoPlan
PROPERTIES
    CycleIsSaved
