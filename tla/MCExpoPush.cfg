CONSTANTS
    t1 = t1
    t2 = t2
    t3 = t3
    k1 = k1
    k2 = k2
    b1 = b1
    b2 = b2
    none = none
    Tasks = {t1, t2, t3}
    Tokens = {k1, k2}
    TokenOf <- OneForK2
    Batches = {b1, b2}
    NoBatch = none
    MaxBatch = 2
    Jobs = {1, 2}
    Limit = 1
    MaxDepth = 2
    MaxTickets = 2
    MaxFaults = 1

SPECIFICATION FairSpec
INVARIANT RepliesInv
INVARIANT DeletedForReason
INVARIANT AcceptedOnce
PROPERTY TicketsStayClosed
PROPERTY HandlersAndJobsEnd
CHECK_DEADLOCK FALSE
