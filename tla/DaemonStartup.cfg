CONSTANTS
    t1 = t1
    t2 = t2
    t3 = t3
    p1 = p1
    p2 = p2
    NoRequest = 0
    Requests = {1, 2, 3}
    Tids = {t1, t2, t3}
    Peers = {p1, p2}
    Hosts <- HostRecords
    Configs <- SomeConfigs
SPECIFICATION FairSpec
INVARIANTS TypeOK TapInStep RightSockets Handover
PROPERTIES StartupEnds GoodHostStarts SignalEndsBoth
CHECK_DEADLOCK FALSE
