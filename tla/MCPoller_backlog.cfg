CONSTANTS
    c1 = c1
    c2 = c2
    p1 = p1
    p2 = p2
    Contracts <- OneContract
    Pollers <- OnePoller
    Assigned <- OnlyFirst
    Decodable <- AllDecode
    MaxLedger = 3
    PerLedger = 1
    PoolMax = 1
    MaxBatch = 1
    MaxRowBatch = 6
    MaxDeletes = 0
    BatchSize = 1
    Interval = 1
    MaxBackoff = 1
    RpcErrors <- NoFault
    MaxFaults = 0
SPECIFICATION FairSpec
PROPERTIES
    EventuallyStored
