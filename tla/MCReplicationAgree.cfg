\* Two versions of a file on two servers, one fault.
SPECIFICATION FairSpec
CONSTANTS
    v1 = v1
    v2 = v2
    Nothing = Nothing
    Nodes <- TwoNodes
    Places <- TwoNodes
    KSize = 2
    Values <- TwoValues
    Left <- NearestAlone
    Ops <- Republishing
    MaxClock = 1
    MaxUploads = 2
    MaxMeetings = 1
    MaxFaults = 1
    MaxJobs = 2
PROPERTY Recovers
CHECK_DEADLOCK FALSE
