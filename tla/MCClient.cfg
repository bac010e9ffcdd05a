\* Two servers, two chunks, two faults.
SPECIFICATION FairSpec
CONSTANTS
    a = a
    b = b
    Servers <- TwoServers
    Nobody = Nobody
    Chunks = 2
    Attempts = 2
    Bootstrap <- Known
    MaxFaults = 2
INVARIANTS
    TypeOK
    TrueWhenReachedOrEmpty
    OnlyMissingLeftOut
PROPERTIES
    GivenUpAfterAttempts
    CallsEnd
