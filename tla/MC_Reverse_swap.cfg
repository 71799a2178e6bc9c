SPECIFICATION RefundingSpec
CONSTANTS
    TBtc = 3
    TSeq = 4
    ClaimMargin = 1
    ClaimWindow = 2
    BtcClaimWindow = 1
    BtcClaimDelta = 2
    MaxSeqLockDelta = 4
    SeqSpacing = 1
    BtcSpacing = 2
    BtcClaimMargin = 1
    Inclusion = 1
    MaxTakerFaults = 2
    MaxMakerFaults = 1
    SeqFirst = TRUE
    LossyClaim = FALSE
    LossyReads = FALSE
    LossyTips = FALSE
    StaleBeat = FALSE
    FundingFault = FALSE
    EarlierCancel = FALSE
INVARIANTS
    LegsAreKept
PROPERTIES
    StepsAreSafe
    ImplementsAtomicSwap
    SwapEnds
CHECK_DEADLOCK FALSE
