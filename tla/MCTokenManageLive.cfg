CONSTANTS
    r1 = r1
    r2 = r2
    t1 = t1
    t2 = t2
    c1 = c1
    NoJob = NoJob
    Runs = {r1, r2}
    Tokens = {t1}
    Contracts = {c1}
    ContractOf <- OneContract
    MaxRetries <- OneRetry
    FlakingAmount = 1
    Timely = TRUE
    Faults = {"crash", "redis", "queue", "limiter"}
    MaxFaults = 1
    MaxRequests = 1

SPECIFICATION FairSpec
PROPERTY IndicatorClears
PROPERTY QueuedGetsMedia
PROPERTY LockClears
CHECK_DEADLOCK FALSE
