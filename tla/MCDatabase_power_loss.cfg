CONSTANTS
    k1 = k1
    k2 = k2
    v1 = v1
    v2 = v2
    Keys <- OneKey
    Vals <- OneVal
    Absent = Absent
    Down = Down
    MaxDatabaseBytes = 7
    Failures = {"io", "kill", "power"}
    OverlayMemoryLimit = 1
    MaxGeneration = 3
    MaxSnapshots = 2
SPECIFICATION SyncedSpec
INVARIANTS SurvivesPowerLoss SnapshotStable OnePageInFlight
