SPECIFICATION FairSpec
CONSTANTS
    Day = 1
    CertWarn = 2
    CertUrgent = 1
    DomainWarn = 2
    FailCap = 2
    Sites = {"s1", "s2"}
    Workers = {"w1"}
    Tiers = {"tls", "domain"}
    MaxRequests = 2
    MaxFaults = 1
    Configs <- MCConfigs
    InitStore <- MCInitStore
    ReachAnswers <- ReachAnswers1
    DnsAnswers <- DnsAnswers1
    CertAnswers <- CertAnswers1
    DomainAnswers <- DomainAnswers1
PROPERTIES
    RemovalSticks
    EditReachesRow
    WorkEnds
