CONSTANTS
    p1 = p1
    p2 = p2
    Procs <- OneProc
    None = None
    Path = Path
    Failures = {}
    MAX_ATTEMPTS = 2
    MaxNames = 3
    MaxFiles = 3
    BareName = TRUE
SPECIFICATION Spec
INVARIANTS CreateOpens
