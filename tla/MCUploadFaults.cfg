\* One file, of two chunks or empty, on three servers that know each other: one upload, two
\* faults, within a second; nothing is pushed or republished.
SPECIFICATION Spec
CONSTANTS
    f = f
    g = g
    x = x
    y = y
    Nothing = Nothing
    Nobody = Nobody
    Servers <- ThreeServers
    Ids <- ThreeServers
    Files <- OneFile
    Chunks <- TwoChunks
    Contents <- AloneOrEmpty
    Distance <- Distances
    PushDistance <- Distances
    Met <- ThreeServers
    KSize = 2
    Slow = FALSE
    MaxClock = 0
    MaxUploads = 1
    MaxFaults = 2
    MaxGives = 0
INVARIANTS
    TrueMeansWhole
    
CHECK_DEADLOCK FALSE
