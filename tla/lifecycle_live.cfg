CONSTANTS
    e1 = e1
    e2 = e2
    c1 = c1
    c2 = c2
    Editors = {e1}
    Closers = {c1, c2}
    Retention = 1
    Deadlines = {1, 2}
    MaxTime = 3
    MaxCrashes = 1
SPECIFICATION FairSpec
PROPERTIES TasksCatchUp ImplementsPromise
CHECK_DEADLOCK FALSE
