SPECIFICATION FairSpec
CONSTANTS
    Hold = 8
    Lock = 2
    Reaction = 3
    InvoiceEnds = {1, 8}
    Drift = 1
    Absence = 1
    MaxFaults = 2
    RoundVoids = FALSE
    ClaimInterrupted = FALSE
    StatusFails = FALSE
    LockSlow = FALSE
INVARIANTS
    PaymentsAreSafe
PROPERTIES
    BothSidesEnd
    ImplementsFrontedLeg
CHECK_DEADLOCK FALSE
