SPECIFICATION Spec
CONSTANTS
    l1 = l1
    l2 = l2
    w1 = w1
    w2 = w2
    k1 = k1
    k2 = k2
    k3 = k3
    NoWorker = NoWorker
    Listeners = {l1, l2}
    Secure = {l2}
    Workers = {w1, w2}
    Clients = {k1, k2, k3}
INVARIANTS
    Balanced OneOwner
CHECK_DEADLOCK FALSE
