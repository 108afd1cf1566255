CONSTANTS
    k1 = k1
    k2 = k2
    k3 = k3
    short = short
    long = long
    huge = huge
    s1 = s1
    Keys <- ThreeKeys
    Vals <- ThreeVals
    Absent = Absent
    ValLen <- Lengths
    MAPPED_VALUE_THRESHOLD = 5
    OVERLAY_MAPPING_THRESHOLD = 5
    OverlayMemoryLimit = 3
    MaxBatch = 2
    MaxLog = 12
    Snapshots <- OneSnapshot
    MAX_BATCH_OPERATIONS = 2
    MAX_LOG_PAYLOAD_SIZE = 11
    Reserved <- ReservedCalls
SPECIFICATION TSpec
SYMMETRY Symmetry
INVARIANTS IndexMatchesLog MemoryExact OffsetsResolve SnapshotIsolated RecordsReadable
PROPERTIES PublishesOwnReads
