SPECIFICATION FairSpec
CONSTANTS
    HoldExpiry = 12
    TBtcs = {1, 3, 6}
    TSeq = 2
    HoldBuffer = 9
    Finality = 2
    BumpWithin = 9
    MakerRunway = 1
    ConfirmBudget = 1
    Outage = 1
    MaxFaults = 2
    FrontWallet = TRUE
    DiskFaults = FALSE
    LongInterruption = FALSE
    SlowMaker = FALSE
    EvictedReturns = FALSE
INVARIANTS
    FundIsRecouped
    JobIsSound
PROPERTIES
    HtlcEnds
    ImplementsFrontedLeg
CHECK_DEADLOCK FALSE
