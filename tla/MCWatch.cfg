SPECIFICATION Spec
CONSTANTS
    Horizon = 8
    Sites <- MCSites
    Stamp <- MCStamp
    Watches <- MCWatches
    Worlds <- MCWorlds
CHECK_DEADLOCK FALSE
INVARIANTS
    TypeOK
PROPERTIES
    CrossingsRing
    ReturnsRing
    ArrivalsRing
    DeliveredIsOver
