SPECIFICATION Spec
CONSTANTS
    l1 = l1
    l2 = l2
    k1 = k1
    k2 = k2
    Nobody = Nobody
    UseBookkeeping = TRUE
    MaxFailures = 1
    MaxDrops = 1
    Loaders <- OneLoader
    Runs <- TwoRuns
    Keys <- TwoKeys
INVARIANT
    SuccessIsComplete
