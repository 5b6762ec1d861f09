CONSTANTS
    e1 = e1
    e2 = e2
    c1 = c1
    c2 = c2
    Editors = {e1, e2}
    Closers = {c1}
    Retention = 1
    Deadlines = {1}
    MaxTime = 2
    MaxCrashes = 0
SPECIFICATION Spec
PROPERTIES ForwardOnly
CHECK_DEADLOCK FALSE
