CONSTANTS
    c1 = c1
    c2 = c2
    p1 = p1
    p2 = p2
    Contracts <- OneContract
    Pollers <- TwoPollers
    Assigned <- BothSame
    Decodable <- SomePoison
    MaxLedger = 3
    PerLedger = 1
    PoolMax = 1
    MaxBatch = 9
    MaxRowBatch = 6
    MaxDeletes = 0
    BatchSize = 2
    Interval = 1
    MaxBackoff = 1
    RpcErrors <- PlainFaults
    MaxFaults = 2
SPECIFICATION FairSpec
PROPERTIES
    EventuallyStored
    EventuallyExits
