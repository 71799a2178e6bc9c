SPECIFICATION PriceSpec
CONSTANTS
    BTC_DUST_LIMIT = 2
    LEG_SPEND_FEE_FLOOR = 3
    EXCHANGE_RATE_SCALE = 4
    FeeShare = 4
    FeeBase = 1
    BtcSpendFee = 2
    SeqSpendFee = 2
    BpsUnit = 4
    LeastNum = 8
    JUMP_READS = 3
    FarFactor = 2
    MergePerPass = 3
    MaxAmount = 10
    Offers = {4, 9}
    Prices = {6, 9, 25}
    FeeRates = {0, 2, 4, 16}
    Readings = {0, 1, 2, 3, 7}
    Coins = 5
INVARIANTS
    TakesAreSound
    QuotesAreSound
CHECK_DEADLOCK FALSE
