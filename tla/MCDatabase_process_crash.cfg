CONSTANTS
    k1 = k1
    k2 = k2
    v1 = v1
    v2 = v2
    Keys <- TwoKeys
    Vals <- OneVal
    Absent = Absent
    Down = Down
    MaxDatabaseBytes = 10
    Failures = {"io", "kill"}
    OverlayMemoryLimit = 1
    MaxGeneration = 3
    MaxSnapshots = 0
SPECIFICATION Spec
SYMMETRY Symmetry
INVARIANTS TypeOK RecoversCommitted HandleMappingIntact
PROPERTIES ImplementsAtomicStore
