CONSTANTS
    NoTime = NoTime
    Threads = {r1, r2}
    Refresh = 6
    Interval = 1
    Timeout = 2
SPECIFICATION Spec
PROPERTY StaleOnlyInSilence
CHECK_DEADLOCK FALSE
