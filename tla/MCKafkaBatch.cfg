CONSTANTS
    k1 = k1
    k2 = k2
    NoConsumer = NoConsumer
    Consumers = {k1, k2}
    N = 4
    MaxSize = 2
    Contents = {"usable", "poison"}
    Faults = {"read", "write", "commit", "crash", "rebalance"}
    MaxFaults = 2

SPECIFICATION Spec
INVARIANT BatchInv
INVARIANT RowIsCurrent
INVARIANT DeliveredIsBatched
PROPERTY Implements
SYMMETRY Symmetry
CHECK_DEADLOCK FALSE
