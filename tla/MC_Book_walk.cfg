SPECIFICATION WalkFairSpec
CONSTANTS
    BTC_DUST_LIMIT = 2
    LEG_SPEND_FEE_FLOOR = 3
    EXCHANGE_RATE_SCALE = 4
    FeeShare = 4
    FeeBase = 1
    BtcSpendFee = 2
    SeqSpendFee = 2
    Books <- MCBooks
    Wants <- MCWants
    MaxOrders = 2
    MaxReloads = 1
    TwoWalks = FALSE
INVARIANTS
    WalkIsHonest
PROPERTIES
    WalkEndsCleanly
CHECK_DEADLOCK FALSE
