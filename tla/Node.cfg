SPECIFICATION FairSpec
CONSTANTS
    Artifacts = {"x", "y"}
    Objects = {"o1", "o2", "o3"}
    Absent = Absent
    Faults = {"heap", "flash", "net"}
INVARIANTS
    TypeOK
    RestoreSafe
    PublishedLabelTruthful
    SendsLiveArtifact
PROPERTIES
    ImplementsDurableArtifact
    RefreshFollowed
