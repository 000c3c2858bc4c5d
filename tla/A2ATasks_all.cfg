CONSTANTS
    Clients = {alice, bob}
    Backends = {"cumulative", "evicting"}
    Faults = {"publish_lost", "publish_ambiguous", "poll_lost", "send_error", "send_ambiguous", "persist_error", "client_crash", "provider_crash"}
    MaxFaults = 1
    MaxTasks = 2
    MaxCancels = 1
    NoTask = NoTask
SPECIFICATION FairSpec
CHECK_DEADLOCK FALSE
INVARIANTS
    TypeOK
    PaidBeforeRequested
    NewTaskIsNew
    ServedOrRefundedOnce
    LedgerTruthful
PROPERTIES
    TrackedStaysTracked
    TaskPromiseKept
    RequestIsSettled
