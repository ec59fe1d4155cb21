CONSTANTS
    c1 = c1
    c2 = c2
    p1 = p1
    p2 = p2
    Contracts <- OneContract
    Pollers <- TwoPollers
    Assigned <- BothSame
    Decodable <- AllDecode
    MaxLedger = 4
    PerLedger = 1
    PoolMax = 2
    MaxBatch = 9
    MaxRowBatch = 6
    MaxDeletes = 0
    BatchSize = 2
    Interval = 1
    MaxBackoff = 1
    RpcErrors <- NoFault
    MaxFaults = 0
SPECIFICATION Spec
INVARIANTS
    KeysetOrder
