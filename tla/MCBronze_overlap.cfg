SPECIFICATION FairSpec
CONSTANTS
    l1 = l1
    l2 = l2
    k1 = k1
    k2 = k2
    Nobody = Nobody
    UseBookkeeping = TRUE
    MaxFailures = 1
    MaxDrops = 0
    Loaders <- TwoLoaders
    Runs <- TwoRuns
    Keys <- TwoKeys
INVARIANTS
    TypeOK
    NoDuplicates
    SuccessIsComplete
PROPERTY
    ImplementsBronzeTable
    EventuallyMerged
