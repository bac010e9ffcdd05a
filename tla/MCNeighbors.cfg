\* Identifiers that are never a split midpoint; the server is in the middle of the space.
SPECIFICATION FairSpec
CONSTANTS
    Ids <- MidIds
    Self = 21
    IdBits = 6
    KSize = 2
    ReplacementFactor = 1
    DepthStep = 2
    NoNode = NoNode
    Keys <- SomeKeys
INVARIANTS
    TypeOK
    BucketsWF
    RangesPartition
    ListedWhereLookedUp
    OwnBucketTakesAll
    NearestAnsweredFirst
PROPERTIES
    ContactsKept
    AddReturns
