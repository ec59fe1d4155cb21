CONSTANTS
    c1 = c1
    c2 = c2
    Contracts <- TwoContracts
    Wanted <- OneContract
    Decodable <- SomePoison
    MaxLedger = 3
    PerLedger = 2
    PageSize = 2
    CallsFail = TRUE
SPECIFICATION FairSpec
INVARIANTS
    TypeOK
    LiveOrder
    NothingPassedOver
PROPERTIES
    EventuallyYielded
    ImplementsFeed
