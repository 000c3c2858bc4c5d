CONSTANTS
    Amounts = {1, 2}
    Limits = {1}
    DeployPolicy <- ClosedPolicy
    NOTIFY_ATTEMPTS = 2
    Backend = "evicting"
    Faults = {"publish_lost", "publish_ambiguous", "poll_lost", "send_ambiguous", "persist_error", "crash"}
    MaxFaults = 1
    MaxProposals = 2
    MaxOwnerMsgs = 3
    NoId = NoId
    DeskFaults = {"decision_lost", "read_lost", "app_closed"}
    MaxDeskFaults = 1
SPECIFICATION DeskSpec
INVARIANTS
    DeskOK
    HeldIsDecidable
    ExecutionsWithinApprovals
PROPERTIES
    OwnerActsByApp
    PromiseKept
