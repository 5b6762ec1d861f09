CONSTANTS
    invitation = invitation
    closing = closing
    t1 = t1
    t2 = t2
    t3 = t3
    Mails = {invitation, closing}
    Locked = {closing}
    Tasks = {t1, t2, t3}
    Retries = 3
    Workers = 2
    MaxCrashes = 1
SPECIFICATION Spec
INVARIANT DuplicateMeansSent
SYMMETRY Interchangeable
CHECK_DEADLOCK FALSE
