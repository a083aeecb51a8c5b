SPECIFICATION Spec
CONSTANTS
    Threads = {t1, t2}
    Ids = {1, 2, 3}
    Urls = {"u1", "u2", "u3"}
    NewUrls = {"u1", "u3"}
    MaxJobs = 3
    MaxFaults = 2
    MaxEvents = 4
    InitSites <- MCInitSites
    HandEdits <- MCHandEdits
SYMMETRY Symmetry
CHECK_DEADLOCK FALSE
INVARIANTS
    TypeOK
    DriftHasCause
    QuietReadsWhole
    ToolHitsNamed
PROPERTIES
    ReloadKeepsSites
