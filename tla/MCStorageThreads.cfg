\* Two threads, every operation.
SPECIFICATION FairSpec
CONSTANTS
    t1 = t1
    t2 = t2
    v = v
    w = w
    Nothing = Nothing
    Torn = Torn
    Threads <- TwoThreads
    Values <- OneValue
    Ops <- AllOps
    IsMetadata = TRUE
    MaxCrashes = 0
INVARIANTS
    TypeOK
    WholeAtRest
PROPERTY OperationsEnd
