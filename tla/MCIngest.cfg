SPECIFICATION IngestSpec
CONSTANTS
    Bodies = {"question"}
    MaxTalk = 3
    MaxRows = 4
    QueueTypes = {"reply_message", "proactive_message"}
    Targets = {"anna"}
    Thread = "anna"
    Kinds <- MCKinds
    Texts = {0, 1, 2, 3}
    Snapshots = {0, 1, 2, 3}
    NoSnapshot = 0
    MaxId = 1
    Engines = {1}
    Decisions = {"approve", "reject"}
    Backend = "postgres"
    NumThreads = 3
    Utterances <- MCUtterances
    MaxEvents = 2
    MaxRuns = 2
    Limits = {3}
    Conversations = {"x", "y"}
    Name <- MCName
    Nobody = "nobody"
    MaxSaid = 2
    MaxMoves = 3
    Ordinals = {1, 2}
    Tabs = {"a", "b"}
    MaxKills = 1
    MaxTries = 2
    Clis = {"c"}
    Jobs = {"s", "h"}
    Fetching = {"s"}
    NoProc = "none"
    MaxCrashes = 1
INVARIANTS
    IngestTypeOK
    StoredOnce
    OrderFollowsTime
    ClaimLeavesNewer
    EarlyExitSound
    StoredWhereWritten
    ResumeFindsAll
    PublishedIsRespected
PROPERTIES
    SkipIsExcused
CHECK_DEADLOCK FALSE
