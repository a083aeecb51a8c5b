SPECIFICATION Spec
CONSTANTS
    BlockedRetry = 12
    RetryEvery = 1
    HerdrTimeout = 3
    NotifyTimeout = 2
INVARIANTS
    TypeOK
    FallsBackForCause
PROPERTIES
    Implements
