CONSTANTS
    t1 = t1
    t2 = t2
    monday = monday
    tuesday = tuesday
    Labels = {monday, tuesday}
    Tabs = {t1, t2}
    MaxOptions = 2
    MaxGroups = 2
    MaxIds = 3
    MaxGroupIds = 2
    MaxCap = 1
SPECIFICATION Spec
CONSTRAINT Small
INVARIANTS TypeOK
PROPERTIES SaveIsFaithful ListedIsKept DestructiveIsExact
SYMMETRY Interchangeable
CHECK_DEADLOCK FALSE
