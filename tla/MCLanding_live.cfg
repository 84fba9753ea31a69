SPECIFICATION FairSpec
CONSTANTS
    e1 = e1
    e2 = e2
    r1 = r1
    r2 = r2
    None = None
    MaxWm = 2
    MaxVersion = 3
    MaxFailures = 1
    Lookback = 1
    FetchSize = 2
    Orderable = TRUE
    Executions <- OneExecution
    Rows <- TwoRows
PROPERTIES
    ImplementsIncrementalLoad
    EventuallyDelivered
    CheckpointCatchesUp
CHECK_DEADLOCK FALSE
