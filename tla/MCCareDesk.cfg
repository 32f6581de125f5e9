\* One session, one seeker, one update in the chat, one batch cut short or answer
\* of Telegram lost, one restart of the scheduler; three rows.
SPECIFICATION DeskSpec
CONSTANTS
    QueueTypes <- MCQueueTypes
    Kinds <- MCKinds
    Targets = {"session", "anna"}
    Session = "session"
    Texts = {"a"}
    Snapshots = {0}
    NoSnapshot = 0
    MaxId = 3
    Engines = {1}
    Decisions = {"approve", "reject"}
    Backend = "postgres"
    MaxUpdates = 1
    MaxAborts = 1
    MaxRestarts = 1
INVARIANTS
    CareDeskTypeOK
    HitlMatchesQueue
PROPERTIES
    OneOpeningPerApproval
    SessionSettles
    ReactionArrives
CHECK_DEADLOCK FALSE
