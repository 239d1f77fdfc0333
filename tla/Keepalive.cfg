CONSTANTS
    NoTime = NoTime
    Threads = {r1, r2}
    Refresh = 3
    Interval = 1
    Timeout = 2
SPECIFICATION FairSpec
INVARIANTS TypeOK DetectsSilence
PROPERTIES Recovers
CHECK_DEADLOCK FALSE
