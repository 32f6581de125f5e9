\* Two threads, one background worker, one resumption, one name excluded meanwhile.
SPECIFICATION FairSpec
CONSTANTS
    NumThreads = 2
    Workers <- MCWorkers
    MaxAttempts = 2
    RetireAt = 2
    Excluded = {2}
    MaxRuns = 2
INVARIANTS
    TypeOK
    MarkerHonest
    NoDoubleFetch
    NothingStranded
PROPERTIES
    RunEnds
CHECK_DEADLOCK FALSE
