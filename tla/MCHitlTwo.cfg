\* Two proposals for one recipient, approved and reopened, both delivery modes.
SPECIFICATION Spec
CONSTANTS
    QueueTypes <- MCQueueTypes
    Targets = {t1}
    Kinds <- MCReply
    Texts = {"a"}
    Snapshots <- MCSnapshots
    NoSnapshot = 0
    MaxId = 2
    Engines = {1}
    Decisions = {"approve", "reprocess"}
    Backend = "sqlite"
    MaxMessages = 2
    MaxCrashes = 0
    Modes = {TRUE, FALSE}
    TabActs = {}
    RefreshLimit = 1
INVARIANTS
    ProvenanceExact
PROPERTIES
    KeepsPromise
CHECK_DEADLOCK TRUE
