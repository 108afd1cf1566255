CONSTANTS
    k1 = k1
    k2 = k2
    v1 = v1
    v2 = v2
    Keys <- OneKey
    Vals <- OneVal
    Absent = Absent
    Down = Down
    MaxDatabaseBytes = 10
    Failures = {"io", "kill"}
    OverlayMemoryLimit = 1
    MaxGeneration = 5
    MaxSnapshots = 0
SPECIFICATION FairSpec
INVARIANTS HealthyHandleAgrees
PROPERTIES CompactedImage RootPageKept ReopenConverges
