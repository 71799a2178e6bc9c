SPECIFICATION FairSpec
CONSTANTS
    TBtc = 9
    TSeq = 3
    ClaimMargin = 4
    FrontRunway = 4
    LateClaim = 1
    MinSeqRunway = 1
    Outage = 1
    LapseDelay = 1
    MaxFaults = 3
    SlowFront = FALSE
    UnmarkedStop = FALSE
    ReadsFail = FALSE
INVARIANTS
    BothArePaid
PROPERTIES
    FrontEnds
    ImplementsFrontedLeg
CHECK_DEADLOCK FALSE
