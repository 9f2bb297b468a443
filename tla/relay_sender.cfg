CONSTANTS
    p1 = p1
    p2 = p2
    c1 = c1
    c2 = c2
    c3 = c3
    Clients = {p1, p2}
    Conns = {c1, c2, c3}
    NoConn = NoConn
    MaxLines = 1
    MaxAttempts = 3
    BufferSize = 1
SPECIFICATION Spec
INVARIANTS TypeOK SentAtMostOnce StoredIsNotClosed
 
CHECK_DEADLOCK FALSE
