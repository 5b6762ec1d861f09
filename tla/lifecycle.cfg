CONSTANTS
    e1 = e1
    e2 = e2
    c1 = c1
    c2 = c2
    Editors = {e1, e2}
    Closers = {c1, c2}
    Retention = 1
    Deadlines = {1}
    MaxTime = 2
    MaxCrashes = 1
SPECIFICATION Spec
INVARIANTS TypeOK OneCloserPerClosing ClosedIsAnnounced
PROPERTIES StatusMoves NeverPurgedEarly
SYMMETRY Interchangeable
CHECK_DEADLOCK FALSE
