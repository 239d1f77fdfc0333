CONSTANTS
    Workers = {w1, w2}
    Monitor = Monitor
    Nobody = Nobody
    Tids = {t1}
    NoTid = NoTid
    MaxCalls = 4
SPECIFICATION FairSpec
INVARIANTS TypeOK NoOrphan
PROPERTIES  CallsReturn MonitorRestores
CHECK_DEADLOCK FALSE
