SPECIFICATION Spec
CONSTANTS
    e1 = e1
    e2 = e2
    r1 = r1
    r2 = r2
    None = None
    MaxWm = 3
    MaxVersion = 4
    MaxFailures = 1
    Lookback = 0
    FetchSize = 1
    Orderable = TRUE
    Executions <- TwoExecutions
    Rows <- TwoRows
SYMMETRY Symmetry
INVARIANTS
    TypeOK
    NoGap
    WindowsChain
    CommitsBackedByManifests
    NoDoubleDelivery
PROPERTIES
    CheckpointNeverMovesBack
