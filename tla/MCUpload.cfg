\* One file, of two chunks or empty, on two servers that know each other: one upload, one fault.
SPECIFICATION FairSpec
CONSTANTS
    f = f
    g = g
    x = x
    y = y
    Nothing = Nothing
    Nobody = Nobody
    Servers <- TwoServers
    Ids <- ThreeServers
    Files <- OneFile
    Chunks <- TwoChunks
    Contents <- AloneOrEmpty
    Distance <- Distances
    PushDistance <- Distances
    Met <- TwoServers
    KSize = 2
    Slow = FALSE
    MaxClock = 1
    MaxUploads = 1
    MaxFaults = 1
    MaxGives = 1
INVARIANTS
    TypeOK
    TrueMeansWhole
    ReadableMeansCommitted
PROPERTY Settles
