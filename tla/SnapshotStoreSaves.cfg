SPECIFICATION Spec
CONSTANTS
    loop = loop
    manual = manual
    r1 = r1
    r2 = r2
    Writers <- MCWriters
    Readers <- MCReaders
    Nothing = Nothing
    NoMeta = NoMeta
    MaxSaves = 2
    MaxFaults = 1
    Failures = TRUE
SYMMETRY MCSymmetry
INVARIANTS
    RegularRead
    QuietCoherence
