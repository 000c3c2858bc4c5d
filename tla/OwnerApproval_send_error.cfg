CONSTANTS
    Amounts = {1, 2}
    Limits = {1}
    DeployPolicy <- ClosedPolicy
    NOTIFY_ATTEMPTS = 2
    Backend = "evicting"
    Faults = {"send_error"}
    MaxFaults = 1
    MaxProposals = 1
    MaxOwnerMsgs = 1
    NoId = NoId
SPECIFICATION FairSpec
PROPERTIES
    ApprovedIsExecuted
