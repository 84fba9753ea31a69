SPECIFICATION FairSpec
CONSTANTS
    o1 = o1
    o2 = o2
    None = None
    FullPrefix = FALSE
    Hour = 2
    Lookback = 1
    Lookahead = 2
    Safety = 2
    Cap = 2
    Start = 2
    MaxDelay = 1
    MaxSkew = 1
    FirstTick = 4
    LastTick = 7
    MaxFailures = 1
    Objects <- TwoObjects
INVARIANTS
    TypeOK
    NoObjectMissed
    NothingFetchedTwice
PROPERTIES
    LoopsOnFullWindows
    JobEnds
    ImplementsIncrementalLoad
