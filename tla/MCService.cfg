SPECIFICATION ServiceSpec
CONSTANTS
    c1 = c1
    c2 = c2
    c3 = c3
    l1 = l1
    l2 = l2
    w1 = w1
    w2 = w2
    NoConn = NoConn
    NoWorker = NoWorker
    Part = Part
    Body = Body
    Conns = {c1, c2, c3}
    Secure = {c3}
    Listeners = {l1, l2}
    SecureListeners = {l2}
    Workers = {w1, w2}
    Observed = w1
    PoolSize = 2
    MaxOpen = 2
    Slots = 1
    BlockSize = 3
    Requests <- FewRequests
    Streams <- OneRequest
INVARIANTS
    OwnSessions
PROPERTIES
    EndToEnd
CHECK_DEADLOCK FALSE
