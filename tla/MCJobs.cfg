SPECIFICATION FairSpec
CONSTANTS
    Orders = Orders
    Stores = Stores
    Tables <- TwoTables
    Configs <- Edits
    Launches <- Retry
    Sites <- FirstTableDiffers
    MaxDisturbances = 2
INVARIANTS
    TypeOK
    NothingStranded
PROPERTIES
    GreenLandingIsComplete
    GreenBronzeIsComplete
    HealthyTablesDelivered
