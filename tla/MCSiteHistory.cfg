SPECIFICATION Spec
CONSTANTS
    Day = 2
    CertWarn = 2
    CertUrgent = 1
    DomainWarn = 2
    FailCap = 2
    Horizon = 6
    Expect = TRUE
    Addrs <- MCAddrs
    Servers <- MCServers
    Dates <- MCDates
CHECK_DEADLOCK FALSE
INVARIANTS
    DownIsTwoInARow
    SinceIsOnset
    ReadingsAgree
PROPERTIES
    WarningNeedsRenewal
