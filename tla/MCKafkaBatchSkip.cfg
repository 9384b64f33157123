CONSTANTS
    k1 = k1
    k2 = k2
    NoConsumer = NoConsumer
    Consumers = {k1, k2}
    N = 3
    MaxSize = 2
    Contents = {"usable", "empty"}
    Faults = {"write"}
    MaxFaults = 2

SPECIFICATION Spec
INVARIANT OnlyEmptySkipped
CHECK_DEADLOCK FALSE
