SPECIFICATION FairSpec
CONSTANTS
    p1 = p1
    p2 = p2
    p3 = p3
    Ids <- SomeIds
    Hosts <- SomeHosts
    Traffics <- SomeTraffics
    Registered <- Keys
    BlockNr = 2
    BlockCap = 1
    Batch = 2
    SockCap = 3
    MaxPackets = 4
INVARIANTS
    TypeOK
    FrameIntact
    AnalyzerAgrees
PROPERTIES
    RingIsFifo
CHECK_DEADLOCK FALSE
