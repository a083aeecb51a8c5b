SPECIFICATION Spec
CONSTANTS
    Daemons = {"d1", "d2"}
    Writers = {"w1", "w2"}
    Readers = {"r1"}
    Data = {"a", "b"}
    MaxWrites = 2
    MaxFaults = 2
    Owner <- MCOwner
CHECK_DEADLOCK FALSE
INVARIANTS
    TypeOK
    LitterSwept
PROPERTIES
    Implements
