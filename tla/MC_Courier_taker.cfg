SPECIFICATION CTFairSpec
CONSTANTS
    IdentityChecked = TRUE
    StickyClose = TRUE
    MaxFrames = 3
    MaxRecvs = 4
INVARIANTS
    TimeoutIsOwn
    FramesInOrder
PROPERTIES
    RecvEnds
CHECK_DEADLOCK FALSE
