CONSTANTS
    c1 = c1
    c2 = c2
    Contracts <- TwoContracts
    Wanted <- OneContract
    Decodable <- AllDecode
    MaxLedger = 3
    PerLedger = 2
    PageSize = 2
    CallsFail = FALSE
SPECIFICATION Spec
INVARIANTS
    OnlyWanted
