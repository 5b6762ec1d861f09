CONSTANTS
    r1 = r1
    r2 = r2
    u1 = u1
    unknown = unknown
    Requests = {r1, r2}
    Users = {u1, unknown}
    Registered = {u1}
    Starts = {1}
    Restrictions = {FALSE}
    Window = 1
    LockTTL = 4
    MaxTime = 3
    MaxCrashes = 1
SPECIFICATION Spec
CONSTRAINT StillClaimed
INVARIANTS TypeOK DraftIsSilent InitialDispatchOnce NobodyForgotten
SYMMETRY Interchangeable
CHECK_DEADLOCK FALSE
