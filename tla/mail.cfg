CONSTANTS
    invitation = invitation
    closing = closing
    t1 = t1
    t2 = t2
    t3 = t3
    Mails = {invitation, closing}
    Locked = {closing}
    Tasks = {t1, t2, t3}
    Retries = 1
    Workers = 2
    MaxCrashes = 1
SPECIFICATION FairSpec
INVARIANT TypeOK
PROPERTIES ImplementsMailPromise EveryCallEnds
CHECK_DEADLOCK FALSE
