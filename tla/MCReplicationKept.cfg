\* One file on three servers that join and never fail, trimmed.
SPECIFICATION Spec
CONSTANTS
    v1 = v1
    v2 = v2
    Nothing = Nothing
    Nodes <- ThreeNodes
    Places <- ThreeNodes
    KSize = 2
    Values <- OneValue
    Left <- NearestAlone
    Ops <- Maintain
    MaxClock = 0
    MaxUploads = 1
    MaxMeetings = 1
    MaxFaults = 0
    MaxJobs = 2
PROPERTY StaysKept
CHECK_DEADLOCK FALSE
