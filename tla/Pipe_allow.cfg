SPECIFICATION Spec
CONSTANTS
    Letters = {"a", "b"}
    Digits = {"1"}
    Capital <- MCCapital
    MaxLine = 16
    MaxTokens = 2
    MaxLabel = 3
    MaxName = 7
    IgnoredHosts <- Ignored
    NameSize = 8
    Sources <- MCSources
    SourceCount = 2
    ChunkSize = 4
    AllowList <- SubAllowed
    AllowMax = 1
    Canaries <- OneCanary
    MinDomains = 2
    FirstCapacity = 2
    DomainHash <- MCDomainHash
    Questions <- MCQuestions
    Faults = {}
INVARIANT
    AllowlistNeverBlocked
