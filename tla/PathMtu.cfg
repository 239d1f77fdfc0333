SPECIFICATION FairSpec
CONSTANTS
    h1 = h1
    h2 = h2
    Handles = {h1, h2}
    Requests <- SomeRequests
    Networks <- SomeNetworks
    MIN_PROBE = 1497
    MAX_PROBE = 1500
    MaxChanges = 1
    None = None
INVARIANTS
    TypeOK
    
    InStep

    
CHECK_DEADLOCK FALSE
