\* The table: two proposals of three kinds to two recipients, any worker, SQLite.
\* Outreach: two seekers, two events, one message and one comment to react to.
\* Profile: one seeker with one turn, two classifiers.  Gate: two runs, samples
\* of up to two cards.  Review: five of the 30 calls of the inbox budget.
SPECIFICATION OfficeSpec
CONSTANTS
    QueueTypes <- MCQueueTypes
    Targets = {"anna", "binh", "message", "comment"}
    Kinds <- MCKinds
    Texts = {"a"}
    Snapshots = {0}
    NoSnapshot = 0
    MaxId = 2
    Engines = {1}
    Decisions = {"approve", "reject", "reprocess", "delete"}
    Backend = "sqlite"
    Seekers = {"anna", "binh"}
    Latest <- MCLatest
    Ranking <- MCRanking
    CityOf <- MCCityOf
    Upcoming <- MCUpcoming
    MaxSeekers = 2
    Unreacted <- MCUnreacted
    CommentIds = {"comment"}
    Plain <- MCPlain
    CareKind <- MCCareKind
    MaxReopens = 1
    Cities = {"hcm"}
    ProgramCity <- MCProgramCity
    Passes = {"cli", "tool"}
    UtcLag = 1
    MaxRetries = 2
    MaxTurns = 1
    MaxClock = 2
    Runs = {"run 1", "run 2"}
    Threads = {1, 2, 3}
    NameOf <- MCNameOf
    Ranked <- MCRanked
    SampleSize = 2
    MaxLoops = 5
    MaxAttempts = 3
INVARIANTS
    OfficeTypeOK
    OneDmPerRecipient
    OneLivePerSlot
    RefusedOnlyByNews
    FreshMeansRead
    VerdictOfOwnRun
    OnlyReviewedLeaves
PROPERTIES
    TerminalOnlyReopened
CHECK_DEADLOCK FALSE
