SPECIFICATION Spec
CONSTANTS
    TBtc = 4
    TSeq = 6
    SeqRefundMargin = 2
    BtcMargin = 1
    ClaimWindow = 2
    BtcClaimWindow = 1
    Inclusion = 2
    MaxTakerFaults = 2
    MaxMakerFaults = 1
    SeqFirst = TRUE
    LossyClaim = FALSE
    LossyReads = TRUE
    LossyTips = FALSE
    StubInterference = TRUE
    FundingFault = TRUE
INVARIANTS
    TakerNeverPaysForNothing
    MakerNeverDeliversForNothing
PROPERTIES
    RecordsAreKept
    ImplementsAtomicSwap
    AssetLockedAgainstLiveBtc
CHECK_DEADLOCK FALSE
