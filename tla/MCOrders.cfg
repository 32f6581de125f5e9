\* Two orders, one death of the web server or error of its database, four rows.
SPECIFICATION JobsSpec
CONSTANTS
    QueueTypes = {"reply_message", "proactive_message"}
    Targets = {"anna"}
    Kinds <- MCKinds
    Texts = {"a"}
    Snapshots = {0}
    NoSnapshot = 0
    MaxId = 4
    Engines = {1, 2}
    Decisions = {"approve", "reject"}
    Backend = "postgres"
    Requests <- MCRequests
    MaxJobs = 2
    CommandKey <- MCCommandKey
    Care = "class_reminder"
    MaxFailures = 1
INVARIANTS
    OrdersTypeOK
PROPERTIES
    RegenerateKeepsDraft
    JobSettles
CHECK_DEADLOCK FALSE
