SPECIFICATION Spec
CONSTANTS
    l1 = l1
    l2 = l2
    k1 = k1
    k2 = k2
    Nobody = Nobody
    UseBookkeeping = TRUE
    MaxFailures = 0
    MaxDrops = 2
    Loaders <- OneLoader
    Runs <- ThreeRuns
    Keys <- TwoKeys
INVARIANT
    SuccessIsComplete
