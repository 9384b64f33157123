CONSTANTS
    c1 = c1
    c2 = c2
    c3 = c3
    c4 = c4
    p1 = p1
    p2 = p2
    p3 = p3
    None = None
    Calls = {c1, c2, c3}
    Params = {p1, p2}
    Primable = {p1}
    MaxBatchSize = 2
    CacheResults = TRUE
    MayFail = TRUE

SPECIFICATION FairSpec
INVARIANT BatchInv
INVARIANT AnswersAreOwn
PROPERTY CacheIsFinal
PROPERTY EveryCallReturns
CHECK_DEADLOCK FALSE
