CONSTANTS
    c1 = c1
    c2 = c2
    p1 = p1
    p2 = p2
    Contracts <- OneContract
    Pollers <- OnePoller
    Assigned <- OnlyFirst
    Decodable <- SomePoison
    MaxLedger = 4
    PerLedger = 2
    PoolMax = 1
    MaxBatch = 9
    MaxRowBatch = 8
    MaxDeletes = 1
    BatchSize = 2
    Interval = 1
    MaxBackoff = 1
    RpcErrors <- PlainFaults
    MaxFaults = 1
SPECIFICATION Spec
INVARIANTS
    TypeOK
    NoSilentLoss
    KeysetOrder
    GapReportTrue
    
PROPERTIES
    ProgressMonotone
    ImplementsHistory
    TableAppends
