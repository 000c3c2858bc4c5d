CONSTANTS
    Amounts = {1, 2}
    Limits = {1}
    DeployPolicy <- ClosedPolicy
    NOTIFY_ATTEMPTS = 3
    Backend = "evicting"
    Faults = {"crash"}
    MaxFaults = 1
    MaxProposals = 1
    MaxOwnerMsgs = 2
    NoId = NoId
SPECIFICATION Spec
INVARIANTS
    AtMostOnce
