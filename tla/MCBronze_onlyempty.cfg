SPECIFICATION FairSpec
CONSTANTS
    l1 = l1
    l2 = l2
    k1 = k1
    k2 = k2
    Nobody = Nobody
    UseBookkeeping = TRUE
    MaxFailures = 0
    MaxDrops = 0
    Loaders <- OneLoader
    Runs <- TwoRuns
    Keys <- TwoKeys
PROPERTY
    EmptyRunsRecorded
