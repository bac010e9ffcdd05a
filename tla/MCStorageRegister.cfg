\* One thread, killed twice at any point: the files are a register.
SPECIFICATION Spec
CONSTANTS
    t1 = t1
    t2 = t2
    v = v
    w = w
    Nothing = Nothing
    Torn = Torn
    Threads <- OneThread
    Values <- TwoValues
    Ops <- AllOps
    IsMetadata = TRUE
    MaxCrashes = 2
PROPERTIES
    ImplementsKeyStore
    StoredWhenReported
