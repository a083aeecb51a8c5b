SPECIFICATION FairSpec
CONSTANTS
    maxRestarts = 2
    MaxBuilds = 2
    MaxEnds = 4
CHECK_DEADLOCK FALSE
INVARIANTS
    TypeOK
    GaveUpSaysWhy
PROPERTIES
    CleanStaysDown
    EndsUp
