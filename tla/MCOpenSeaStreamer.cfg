CONSTANTS
    c1 = c1
    c2 = c2
    c3 = c3
    Connections = {c1, c2, c3}
    MaxSubscribers = 2
    MaxFailures = 3

SPECIFICATION FairSpec
INVARIANT PoolInv
INVARIANT SubscribersReceive
INVARIANT ExcessIsOvertaken
INVARIANT BacklogIsEarned
PROPERTY Recovers
CHECK_DEADLOCK FALSE
