SPECIFICATION FairSpec
CONSTANTS
    NoSchema = NoSchema
    Feeds <- AllFeeds
    LastInstant = 24
    Hour = 2
    Lookahead = 2
    Prefetch = 2
    FetchSize = 2
    BatchBytes = 3
    MaxRowBytes = 4
    MaxOverwrites = 1
    MaxErrors = 1
    NanosMax = 2
    FloatExact = 4
INVARIANTS
    TypeOK
    HoursListedOnce
    BodiesBounded
    WindowLanded
    ListingOrder
    PartsBounded
    ManifestDescribesParts
    ValuesLandExactly
PROPERTY
    RunEnds
