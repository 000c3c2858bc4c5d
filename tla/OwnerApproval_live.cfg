CONSTANTS
    Amounts = {1, 2}
    Limits = {1}
    DeployPolicy <- ClosedPolicy
    NOTIFY_ATTEMPTS = 2
    Backend = "evicting"
    Faults = {"publish_lost", "publish_ambiguous", "poll_lost", "send_ambiguous", "persist_error", "crash", "restart"}
    MaxFaults = 2
    MaxProposals = 2
    MaxOwnerMsgs = 2
    NoId = NoId
SPECIFICATION FairSpec
PROPERTIES
    ApprovalTakesEffect
    LimitTakesEffect
