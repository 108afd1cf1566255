CONSTANTS
    k1 = k1
    k2 = k2
    v1 = v1
    t1 = t1
    t2 = t2
    s1 = s1
    Keys = {k1, k2}
    Vals = {v1}
    Absent = Absent
    ValLen <- Lengths
    MaxDatabaseBytes = 8
    OverlayMemoryLimit = 3
    MaxGeneration = 2
    Snapshots = {s1}
    Threads = {t1, t2}
    Writes <- Written
    ReadKeys = {k1}
    BatchWrites <- Batched
    Capacities = {1, 2}
    Faults = {"panic", "alloc"}
    NoOne = NoOne
    Down = Down
SYMMETRY Symmetry
SPECIFICATION CSpec
INVARIANTS MemoryExact ReadsCommitted CopyWhole VisitConsistent BorrowsValid NoCallStuck
PROPERTIES BatchKept ImplementsStore
