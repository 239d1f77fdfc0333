CONSTANTS
    h1 = h1
    h2 = h2
    h3 = h3
    h4 = h4
    t1 = t1
    t2 = t2
    t3 = t3
    p1 = p1
    p2 = p2
    w1 = w1
    w2 = w2
    w3 = w3
    NoRequest = NoRequest
    NoKey = NoKey
    NoWorker = NoWorker
    Workers = {w1, w2}
    Requests = {h1, h2}
    Tids = {t1, t2}
    Peers = {p1}
    Startups <- NothingOrOne
    Hosts <- OnlySteady
    MaxDestroys = 0
SPECIFICATION FairSpec
PROPERTY CreateReturns
CHECK_DEADLOCK FALSE
