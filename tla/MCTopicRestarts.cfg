CONSTANTS
    MaxRetries = 3
    Interval = 3
    MaxTime = 9

SPECIFICATION Spec
INVARIANT RetriesInv
INVARIANT TwiceAtMost
CHECK_DEADLOCK FALSE
