CONSTANTS
    Amounts = {1, 2}
    Limits = {0, 1}
    DeployPolicy <- ClosedPolicy
    NOTIFY_ATTEMPTS = 2
    Backend = "cumulative"
    Faults = {"publish_lost", "poll_lost"}
    MaxFaults = 2
    MaxProposals = 3
    MaxOwnerMsgs = 3
    NoId = NoId
SPECIFICATION Spec
INVARIANTS
    ExecutedAsApproved
    PolicyIsOwnersLatest
    DurableAtRest
