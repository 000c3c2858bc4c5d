CONSTANTS
    Amounts = {1, 2}
    Limits = {1}
    DeployPolicy <- ClosedPolicy
    NOTIFY_ATTEMPTS = 3
    Backend = "cumulative"
    Faults = {"publish_lost", "publish_ambiguous"}
    MaxFaults = 3
    MaxProposals = 2
    MaxOwnerMsgs = 1
    NoId = NoId
SPECIFICATION Spec
INVARIANTS
    ExecutedAsApproved
