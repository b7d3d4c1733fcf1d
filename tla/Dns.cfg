SPECIFICATION FairSpec
CONSTANTS
    Queries <- ThreeKeys
    CacheSize = 2
    TTL = 1
    MaxWait = 1
    MaxTries = 2
    ClockMod = 16
    MaxClock = 4
    InboxSize = 2
INVARIANTS
    TypeOK
    OneEntryPerKey
    CachedAnswersFresh
    AnswerMatchesQuestion
PROPERTIES
    EvictsLeastRecentlyUsed
    ForwardEnds
