CONSTANTS
    r1 = r1
    r2 = r2
    t1 = t1
    t2 = t2
    c1 = c1
    NoJob = NoJob
    Runs = {r1, r2}
    Tokens = {t1, t2}
    Contracts = {c1}
    ContractOf <- OneContract
    MaxRetries <- OneRetry
    FlakingAmount = 1
    Timely = TRUE
    Faults = {"crash", "redis", "db", "queue"}
    MaxFaults = 1
    MaxRequests = 2

SPECIFICATION Spec
INVARIANT TypeOK
INVARIANT MutexUnlessRaced
INVARIANT LockHasHolder
INVARIANT ProcessingHasRunner
INVARIANT PausedOnlyWhenFlaky
INVARIANT RetriesBounded
PROPERTY ActiveMediaStays
SYMMETRY SymmetryBoth
CHECK_DEADLOCK FALSE
