SPECIFICATION BothSpec
CONSTANTS
    Wdt = 500
    RetryDelay = 50
    RecvTimeout = 50
    LockTimeout = 1
    UpstreamTimeout = 75
    MaxTries = 4
    NameSize = 254
    RefreshWdt = 45
    FirstDelay = 10
    Interval = 21600
    HttpTimeout = 30
    SourceCount = 3
    GenerateTime = 14
    FlashTime = 40
    VerifyTime = 40
INVARIANTS
    HostNamesNeverStall
    WorkIsFed
