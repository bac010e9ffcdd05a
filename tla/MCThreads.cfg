\* Two threads that add and remove.
SPECIFICATION Spec
CONSTANTS
    t1 = t1
    t2 = t2
    NoNode = NoNode
    Ids = {9, 11, 15, 21}
    Self = 15
    IdBits = 5
    KSize = 1
    ReplacementFactor = 1
    DepthStep = 5
    Threads <- TwoThreads
    MaxObjects = 3
VIEW LiveView
SYMMETRY ThreadSymmetry
INVARIANTS
    TypeOK
    FoundUnlessOverwritten
    OverfilledByThreads
