SPECIFICATION FairSpec
CONSTANTS
    Swaps = {s1, s2, s3}
    Sweeps = {w1}
    None = None
    ConcurrentTakes = FALSE
    LateWrites = FALSE
    SweepRaces = FALSE
    StubInterference = FALSE
INVARIANTS
    NoFundsOffRecord
PROPERTIES
    SlotKeepsLockedBtc
    ParkedUntilRefunded
    ParkedIsRefunded
CHECK_DEADLOCK FALSE
