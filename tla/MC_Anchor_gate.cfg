SPECIFICATION Spec
CONSTANTS
    MaxHeight = 4
    MaxReorgs = 2
    MaxSeqReorgs = 1
    ReverseRemines = 1
INVARIANTS
    FunderIsSafe
    ClaimantIsSafe
    WithheldLegIsSafe
CHECK_DEADLOCK FALSE
