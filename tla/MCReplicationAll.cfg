\* One file, uploaded twice, on two servers of three places, every job, one fault.
SPECIFICATION Spec
CONSTANTS
    v1 = v1
    v2 = v2
    Nothing = Nothing
    Nodes <- TwoNodes
    Places <- ThreeNodes
    KSize = 1
    Values <- OneValue
    Left <- NearestAlone
    Ops <- AllOps
    MaxClock = 1
    MaxUploads = 2
    MaxMeetings = 2
    MaxFaults = 1
    MaxJobs = 2
INVARIANT TypeOK
 
CHECK_DEADLOCK FALSE
