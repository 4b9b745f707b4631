SPECIFICATION FairSpec
CONSTANTS
    k1 = k1
    k2 = k2
    Clients = {k1, k2}
    Configs <- UpToTwo
    Cores = {0, 1, 2}
    MaxEdits = 1
INVARIANTS
    FailsUnserved RunsAsConfigured SameUsers
PROPERTIES
    EarlyServed
CHECK_DEADLOCK FALSE
