SPECIFICATION PoliteSpec
CONSTANTS
    c1 = c1
    NoConn = NoConn
    Part = Part
    Body = Body
    Conns = {c1}
    PoolSize = 2
    Secure = {c1}
    Slots = 2
    BlockSize = 3
    Requests <- AnyRequest
    Streams <- OneClient
PROPERTIES
    PoliteServed
CHECK_DEADLOCK FALSE
