SPECIFICATION PanelFairSpec
CONSTANTS
    Ids = {"s1", "s2"}
    maxTries = 1
    MaxAsks = 2
    MaxChanges = 1
    MaxFlips = 1
INVARIANTS
    PanelTypeOK
    AskIsKept
PROPERTIES
    RowGoesForCause
    RemovedRowGoes
