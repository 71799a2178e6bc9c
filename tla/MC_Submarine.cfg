SPECIFICATION FairSpec
CONSTANTS
    TSeq = 8
    Margin = 2
    Cltv = 3
    SettleBy = 1
    Drift = 1
    Absence = 1
    MaxFaults = 3
    RepayGoesOut = FALSE
    TickMidFunding = FALSE
    StatusFails = FALSE
    LateMaker = FALSE
    LateReorg = FALSE
INVARIANTS
    TradeIsSafe
PROPERTIES
    ImplementsAtomicSwap
    TradeResolves
CHECK_DEADLOCK FALSE
