SPECIFICATION FairSpec
CONSTANTS
    MinDomains = 2
    SlotWords = 4
    SizeMod = 6
    SectorWords = 2
    ChunkWords = 2
    Format = 2
    Erased = 9
    Releases <- MCReleases
    Images <- MCImages
    Requests <- MCRequests
    Sha256 <- MCSha256
    NoVersion = NoVersion
    Absent = Absent
    Faults = {"net", "reorder"}
INVARIANTS
    UTypeOK
    ProgramsErasedOnly
    ServedIsARelease
PROPERTIES
    UsesStoreProperly
    ImplementsDurableList
    Convergence
