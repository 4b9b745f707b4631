SPECIFICATION Spec
CONSTANTS
    c1 = c1
    c2 = c2
    c3 = c3
    NoConn = NoConn
    Part = Part
    Body = Body
    Conns = {c1, c2, c3}
    PoolSize = 2
    Secure = {}
    Slots = 2
    BlockSize = 16
    Requests <- FewRequest
    Streams <- FewClients
SYMMETRY Symmetry
INVARIANTS
    Registry
PROPERTIES
    KeepsTime
CHECK_DEADLOCK FALSE
