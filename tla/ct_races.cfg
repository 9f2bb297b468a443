CONSTANTS
    m1 = m1
    m2 = m2
    a1 = a1
    a2 = a2
    p1 = p1
    p2 = p2
    x1 = x1
    x2 = x2
    root = root
    apiSeg = apiSeg
    followersSeg = followersSeg
    NoId = NoId
    Masters = {m1}
    Accounts = {a1}
    Handlers = {p1, p2}
    BridgeFaults = {"db", "redis"}
    Deliveries = {x1}
    Segments <- MCSegments
    Mount <- DirectMount
    Faults = {"restart"}
SPECIFICATION CTSpec
SYMMETRY Symmetry
INVARIANTS CTTypeOK NoFollowerMissed StopIsObeyed 
