SPECIFICATION FairSpec
CONSTANTS
    Buffers = {b1, b2, b3}
    Lists <- MCLists
    Names <- MCNames
    DomainHash <- MCDomainHash
INVARIANTS
    TypeOK
    ReadsLiveMemory
    BuffersBounded
    VerdictJustified
PROPERTIES
    LookupEnds
