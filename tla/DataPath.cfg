SPECIFICATION FairSpec
CONSTANTS
    h1 = h1
    h2 = h2
    k1 = k1
    k2 = k2
    t1 = t1
    Handles = {h1, h2}
    Keys = {k1, k2}
    V6 = {k2}
    Startup <- OneTunnel
    Threads = {t1}
    Descriptors = {3, 4}
    Capacity = 2
    ChannelCap = 1
    MaxBatch = 2
    RecvBatch = 2
    QueueCap = 1
    LowWater = 1
    HighWater = 2
    MaxTraffic = 2
    Nobody = Nobody
INVARIANTS
    TypeOK
    PoolConserved
    OwnTap
    OwnFrames
PROPERTIES
    InOrder
    FlushesInTheEnd
    DeletedIsReleased
CHECK_DEADLOCK FALSE
