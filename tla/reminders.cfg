CONSTANTS
    Users = {u1}
    Tiers = {2, 5}
    Window = 2
    Slack = 2
    Day = 3
    Rows <- SomeRows
    Retries = 1
    MaxTime = 13
    MaxWait = 6
    MaxEvents = 2
SPECIFICATION Spec
INVARIANTS TypeOK OncePerDeadline NobodyUnreminded
CONSTRAINT Small
CHECK_DEADLOCK FALSE
