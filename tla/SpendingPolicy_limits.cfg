CONSTANTS
    Amounts = {1, 2}
    MaxAmount = 4
    InitialPolicy <- TwoInThreeSeconds
    Policies <- OwnersPolicies
    Faults = {"restart", "crash", "send_error", "send_ambiguous", "persist_error"}
    MaxFaults = 2
    MaxTransfers = 3
    MaxReconfigs = 1
    MaxTime = 6
    NoFile = NoFile
    Uncharged = Uncharged
SPECIFICATION Spec
CHECK_DEADLOCK FALSE
INVARIANTS
    TypeOK
    AccumulatorMatchesLedger
    WindowWithinLimit
    TwiceLimitAtMost
PROPERTIES
    HeldOnlyOverLimit
    SpendsWithinAllowance
