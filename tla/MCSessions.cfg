CONSTANTS
    s1 = s1
    s2 = s2
    q1 = q1
    q2 = q2
    c1 = c1
    c2 = c2
    l1 = l1
    l2 = l2
    SessionIDs = {s1}
    Requests = {q1, q2}
    Changes = {c1, c2}
    Logins = {l1, l2}
    TTL = 3
    Wiggle = 1
    LoginExpiry = 1
    MaxTime = 5
    MaxFaults = 1

SPECIFICATION Spec
INVARIANT SessionsInv
INVARIANT RolesHold
INVARIANT UsedOnce
SYMMETRY Symmetry
CHECK_DEADLOCK FALSE
