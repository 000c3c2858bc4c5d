CONSTANTS
    Amounts = {1, 2}
    Limits = {1}
    DeployPolicy <- ClosedPolicy
    NOTIFY_ATTEMPTS = 2
    Backend = "cumulative"
    Faults = {"publish_lost", "publish_ambiguous", "poll_lost", "send_error", "send_ambiguous", "persist_error", "restart"}
    MaxFaults = 2
    MaxProposals = 2
    MaxOwnerMsgs = 3
    NoId = NoId
SPECIFICATION Spec
INVARIANTS
    TypeOK
    HeldWasAnnounced
    ExecutedWasApproved
    AtMostOncePerLife
    FirstDecisionWins
PROPERTIES
    ReleasedOnlyWhenDecided
