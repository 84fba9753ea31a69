SPECIFICATION FairSpec
CONSTANTS
    key = key
    a = a
    b = b
    decimal = decimal
    bigint = bigint
    super = super
    Match = key
    Absent = Absent
    CatalogType = super
    MaxFailures = 1
    MaxOperations = 1
    Runs <- TwoRuns
    Columns <- TwoColumns
    Types <- TwoTypes
    Overridden <- OnlyA
INVARIANTS
    TypeOK
    MergesResolve
    PointerNeverRewound
    SuccessLeavesOverrides
PROPERTIES
    EventuallyMerged
