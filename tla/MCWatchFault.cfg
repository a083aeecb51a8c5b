SPECIFICATION Spec
CONSTANTS
    Horizon = 8
    Sites <- MCSites
    Stamp <- MCStamp
    Watches <- OutageWatches
    Worlds <- MCWorlds
CHECK_DEADLOCK FALSE
PROPERTIES
    FaultRingsNothing
