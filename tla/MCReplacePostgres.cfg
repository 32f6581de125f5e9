\* PostgreSQL: a regeneration and a claim overlap.
SPECIFICATION Spec
CONSTANTS
    QueueTypes <- MCQueueTypes
    Targets = {t1}
    Kinds <- MCReply
    Texts = {"a"}
    Snapshots <- MCSnapshots
    NoSnapshot = 0
    MaxId = 2
    Engines = {1}
    Decisions = {"approve"}
    Backend = "postgres"
    MaxMessages = 1
    MaxCrashes = 0
    Modes = {FALSE}
    TabActs = {}
    RefreshLimit = 1
INVARIANTS
    ClaimHeld
CHECK_DEADLOCK TRUE
