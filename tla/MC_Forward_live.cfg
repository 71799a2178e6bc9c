SPECIFICATION RefundingSpec
CONSTANTS
    TBtc = 3
    TSeq = 4
    SeqRefundMargin = 1
    BtcMargin = 1
    ClaimWindow = 1
    BtcClaimWindow = 1
    Inclusion = 1
    MaxTakerFaults = 1
    MaxMakerFaults = 1
    SeqFirst = TRUE
    LossyClaim = FALSE
    LossyReads = FALSE
    LossyTips = FALSE
    StubInterference = FALSE
    FundingFault = FALSE
INVARIANTS
    LegsAreOnRecord
PROPERTIES
    RevealedMakerIsPaid
    LegsResolve
CHECK_DEADLOCK FALSE
