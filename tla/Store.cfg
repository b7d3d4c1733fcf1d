SPECIFICATION Spec
CONSTANTS
    MinDomains = 2
    SlotWords = 3
    SizeMod = 6
    Images <- MCImages
    Requests <- MCRequests
    Sha256 <- MCSha256
    NoVersion = Absent
    Absent = Absent
    Faults = {"nvs", "load", "corrupt", "nvserase", "reorder"}
INVARIANTS
    TypeOK
    ServedSound
    PowerCutSafe
PROPERTIES
    RecordNamesLoadable
