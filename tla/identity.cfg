CONSTANTS
    a = a
    b = b
    r1 = r1
    r2 = r2
    r3 = r3
    Persons = {a, b}
    Requests = {r1, r2, r3}
    Changes <- Patches
SPECIFICATION Spec
INVARIANTS TypeOK FlagFollowsGroup SomeoneLeft
PROPERTIES DeactivationHolds MembersAsAsked
CONSTRAINT Small
SYMMETRY Interchangeable
CHECK_DEADLOCK FALSE
