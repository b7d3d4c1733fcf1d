SPECIFICATION RefreshSpec
CONSTANTS
    RefreshWdt = 45
    FirstDelay = 10
    Interval = 21600
    HttpTimeout = 30
    SourceCount = 3
    GenerateTime = 14
    FlashTime = 40
    VerifyTime = 40
INVARIANT
    WaitsOutInterval
