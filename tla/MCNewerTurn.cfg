\* Three messages, two proposals.
SPECIFICATION MasInboxSpec
CONSTANTS
    Bodies = {"question"}
    MaxTalk = 3
    MaxRows = 4
    QueueTypes = {"reply_message", "proactive_message"}
    Targets = {"anna"}
    Thread = "anna"
    Kinds <- MCKinds
    Texts = {0, 1, 2, 3}
    Snapshots = {0, 1, 2, 3}
    NoSnapshot = 0
    MaxId = 2
    Engines = {1}
    Decisions = {"approve", "reject"}
    Backend = "postgres"
INVARIANTS
    NewerTurnEligible
CHECK_DEADLOCK FALSE
