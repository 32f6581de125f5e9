\* Two proposals, two recipients: whom an approved DM waits for.
SPECIFICATION ClaimSpec
CONSTANTS
    QueueTypes <- MCQueueTypes
    Targets = {t1, t2}
    Kinds <- MCReply
    Texts = {"a"}
    Snapshots <- MCSnapshots
    NoSnapshot = 0
    MaxId = 2
    Engines = {1}
    Decisions = {"approve", "delete"}
    Backend = "sqlite"
    MaxMessages = 1
    MaxCrashes = 0
    Modes = {TRUE, FALSE}
    TabActs = {}
    RefreshLimit = 1
PROPERTIES
    OnlySameRecipientBlocks
CHECK_DEADLOCK TRUE
