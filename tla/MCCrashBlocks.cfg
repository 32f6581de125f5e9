\* Two recipients, one crash: whom an approved DM waits for.
SPECIFICATION ClaimSpec
CONSTANTS
    QueueTypes <- MCQueueTypes
    Targets = {t1, t2}
    Kinds <- MCReply
    Texts = {"a"}
    Snapshots <- MCSnapshots
    NoSnapshot = 0
    MaxId = 2
    Engines = {1}
    Decisions = {"approve"}
    Backend = "sqlite"
    MaxMessages = 1
    MaxCrashes = 1
    Modes = {FALSE}
    TabActs = {}
    RefreshLimit = 1
PROPERTIES
    OnlySameRecipientBlocks
CHECK_DEADLOCK TRUE
