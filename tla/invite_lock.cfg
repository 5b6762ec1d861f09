CONSTANTS
    r1 = r1
    r2 = r2
    u1 = u1
    unknown = unknown
    Requests = {r1}
    Users = {u1}
    Registered = {u1}
    Starts = {1}
    Restrictions = {TRUE, FALSE}
    Window = 1
    LockTTL = 3
    MaxTime = 3
    MaxCrashes = 0
SPECIFICATION Spec
INVARIANTS LockMeansDispatched
CHECK_DEADLOCK FALSE
