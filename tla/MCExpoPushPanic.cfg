CONSTANTS
    t1 = t1
    t2 = t2
    t3 = t3
    k1 = k1
    k2 = k2
    b1 = b1
    b2 = b2
    none = none
    Tasks = {t1, t2, t3}
    Tokens = {k1, k2}
    TokenOf <- OneForK2
    Batches = {b1, b2}
    NoBatch = none
    MaxBatch = 2
    Jobs = {}
    Limit = 1
    MaxDepth = 1
    MaxTickets = 2
    MaxFaults = 1

SPECIFICATION Spec
INVARIANT NeverPanics
CHECK_DEADLOCK FALSE
