SPECIFICATION FairSpec
CONSTANTS
    c1 = c1
    NoConn = NoConn
    Part = Part
    Body = Body
    Conns = {c1}
    PoolSize = 2
    Secure = {c1}
    Slots = 2
    BlockSize = 3
    Requests <- AnyRequest
    Streams <- OneClient
INVARIANTS
    TypeOK TimerWhileWaiting OneControl NoDangling AnsweredInOrder
    OnlyKnownLeaks NoFault HeaderDetected Framing
PROPERTIES
    CancelIsFinal KeepsPromise TerminationCompletes SessionsEnd
CHECK_DEADLOCK FALSE
