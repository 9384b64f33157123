CONSTANTS
    k1 = k1
    k2 = k2
    NoConsumer = NoConsumer
    Consumers = {k1, k2}
    N = 3
    MaxSize = 2
    Contents = {"usable", "empty", "poison"}
    Faults = {"read", "crash", "rebalance", "expel", "commit"}
    MaxFaults = 2

SPECIFICATION FairSpec
INVARIANT OnlyEmptySkipped
PROPERTY NothingHeldUp
CHECK_DEADLOCK FALSE
