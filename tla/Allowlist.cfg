SPECIFICATION FairAllowlistSpec
CONSTANTS
    seed = seed
    other = other
    t1 = t1
    t2 = t2
    Pruner = Pruner
    NoThread = NoThread
    Domains <- TwoDomains
    Seeds <- OneSeed
    Threads <- TwoThreads
    Durations <- ShortDurations
    MayFail = FALSE
    MaxTime = 1
    MaxRestarts = 1
CHECK_DEADLOCK FALSE
INVARIANTS
    AllowlistInvariant
    FileFollowsState
    SquidEnforcesFile
    LastWordHolds
PROPERTY ExpiredDomainsLeave
