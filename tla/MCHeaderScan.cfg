SPECIFICATION Spec
CONSTANTS
    CR = CR
    LF = LF
    x = x
    Unwritten = Unwritten
    Bytes = {CR, LF, x}
    BlockSize = 3
    MaxBody = 1
    Length = 9
PROPERTIES
    TakesHeaders
CHECK_DEADLOCK FALSE
