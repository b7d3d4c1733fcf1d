SPECIFICATION USpec
CONSTANTS
    MinDomains = 2
    SlotWords = 4
    SizeMod = 6
    SectorWords = 2
    ChunkWords = 2
    Format = 2
    Erased = 9
    Releases <- TwoGood
    Images <- MCImages
    Requests <- MCRequests
    Sha256 <- MCSha256
    NoVersion = NoVersion
    Absent = Absent
    Faults = {"load"}
INVARIANT
    SkipsOnlyWhatIsServed
