CONSTANTS
    p1 = p1
    p2 = p2
    Procs <- TwoProcs
    None = None
    Path = Path
    Failures = {"io","kill","power"}
    MAX_ATTEMPTS = 2
    MaxNames = 3
    MaxFiles = 2
    BareName = FALSE
SPECIFICATION Spec
SYMMETRY Symmetry
INVARIANTS TypeOK PublishedReady CreatedStays OneOwner
