SPECIFICATION Spec
CONSTANTS
    Threads = {"t1", "t2"}
    Ids = {1, 2, 3}
    Urls = {"u1", "u2", "u3"}
    NewUrls = {"u1", "u3"}
    MaxJobs = 2
    MaxFaults = 0
    MaxEvents = 2
    InitSites <- MCInitSites
    HandEdits <- MCHandEdits
CHECK_DEADLOCK FALSE
INVARIANTS
    ReadsWhole
