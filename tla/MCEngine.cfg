SPECIFICATION FairSpec
CONSTANTS
    Ids = {1, 2}
    MaxPasses = 4
    MaxRequests = 2
    MaxFaults = 2
    Sites <- MCSites
    Stamp <- MCStamp
    Watches <- MCWatches
    InitWatches <- MCInitWatches
    Worlds <- MCWorlds
CHECK_DEADLOCK FALSE
INVARIANTS
    TypeOK
    AtRestPersisted
    AlarmsTried
    AnswersStick
PROPERTIES
    BaselineFirst
    OneShotOver
    PassEnds
