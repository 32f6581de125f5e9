\* One proposal, every decision and tab act, one crash: what follows a hand-over.
SPECIFICATION FollowUpSpec
CONSTANTS
    QueueTypes <- MCQueueTypes
    Targets = {t1}
    Kinds <- MCReply
    Texts = {"a"}
    Snapshots <- MCSnapshots
    NoSnapshot = 0
    MaxId = 1
    Engines = {1}
    Decisions = {"approve", "reject", "reprocess", "delete"}
    Backend = "sqlite"
    MaxMessages = 2
    MaxCrashes = 1
    Modes = {FALSE}
    TabActs = {"edited", "empty", "closed"}
    RefreshLimit = 1
PROPERTIES
    StaleDraftWithdrawn
    ManualSendConfirmed
    RefetchServed
CHECK_DEADLOCK TRUE
