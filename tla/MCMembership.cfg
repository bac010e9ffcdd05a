\* Two servers that know each other, one of which keeps records, and a third; one stops or the
\* network is cut once.
SPECIFICATION FairSpec
CONSTANTS
    a = a
    b = b
    c = c
    d = d
    Nobody = Nobody
    Servers <- ThreeServers
    Met <- TwoServers
    Keepers <- OneKeeper
    KSize = 3
    MaxFaults = 1
INVARIANT TypeOK
PROPERTIES
    AloneEnds
    Forgotten
    Linked
CHECK_DEADLOCK FALSE
