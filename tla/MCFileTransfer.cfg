SPECIFICATION Spec
CONSTANTS
    PageBlocks = 2
    MaxBlocks = 3
    MaxWrites = 3
    MaxTime = 1
    MaxRequests = 2
INVARIANTS
    SentAsMapped NeverStale DiesOfOthers
CHECK_DEADLOCK FALSE
