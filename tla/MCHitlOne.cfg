\* One proposal, every decision and tab act, one crash: what may never happen.
SPECIFICATION Spec
CONSTANTS
    QueueTypes <- MCQueueTypes
    Targets = {t1}
    Kinds <- MCReply
    Texts = {"a"}
    Snapshots <- MCSnapshots
    NoSnapshot = 0
    MaxId = 1
    Engines = {1}
    Decisions = {"approve", "reject", "reprocess", "delete"}
    Backend = "postgres"
    MaxMessages = 3
    MaxCrashes = 1
    Modes = {TRUE, FALSE}
    TabActs = {"edited", "empty", "closed"}
    RefreshLimit = 1
INVARIANTS
    TypeOK
    ClaimHeld
    AtMostOneEnterPerApproval
    ExecutedMeansDelivered
CHECK_DEADLOCK TRUE
