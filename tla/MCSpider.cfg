\* Every spider over three peers that come and go; two values may be stored.
SPECIFICATION FairSpec
CONSTANTS
    v = v
    w = w
    Nothing = Nothing
    Peers = {1, 2, 3}
    Self = 2
    KSize = 2
    Alpha = 2
    Methods <- AllMethods
    Values <- TwoValues
INVARIANTS
    TypeOK
    NearestReturned
    MissedOnlyIfNotHeld
    TrueMeansDone
PROPERTY CrawlEnds
