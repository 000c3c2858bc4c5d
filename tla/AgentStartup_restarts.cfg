CONSTANTS
    OldFile = TRUE
    Faults = {"wallet_error", "mint_error", "mint_ambiguous", "persist_error", "torn_write", "crash"}
    MaxFaults = 3
    MaxLaunches = 4
    MaxSpends = 2
    MaxRemovals = 1
    NoPin = NoPin
SPECIFICATION Spec
CHECK_DEADLOCK FALSE
INVARIANTS
    TypeOK
    OneIdentity
    HeldIsOwn
    NothingForgotten
