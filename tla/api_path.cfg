CONSTANTS
    m1 = m1
    a1 = a1
    a2 = a2
    p1 = p1
    p2 = p2
    root = root
    apiSeg = apiSeg
    followersSeg = followersSeg
    NoId = NoId
    Masters = {m1}
    Accounts = {a1, a2}
    Handlers = {p1, p2}
    Segments <- MCSegments
    Mount <- DeployedMount
    Faults = {}
SPECIFICATION Spec
INVARIANTS IdFromPath
