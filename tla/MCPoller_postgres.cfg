CONSTANTS
    c1 = c1
    c2 = c2
    p1 = p1
    p2 = p2
    Contracts <- OneContract
    Pollers <- TwoPollers
    Assigned <- BothSame
    Decodable <- AllDecode
    MaxLedger = 3
    PerLedger = 2
    PoolMax = 2
    MaxBatch = 9
    MaxRowBatch = 6
    MaxDeletes = 1
    BatchSize = 1
    Interval = 1
    MaxBackoff = 1
    RpcErrors <- AnyFault
    MaxFaults = 1
SPECIFICATION Spec
INVARIANTS
    IInv
    NoOrphanEvents
    SomeoneMoves
