CONSTANTS
    Workers = {w1}
    Monitor = Monitor
    Nobody = Nobody
    Tids = {t1, t2}
    NoTid = NoTid
    MaxCalls = 1
SPECIFICATION FairSpec
PROPERTY MonitorRoundEnds
CHECK_DEADLOCK FALSE
