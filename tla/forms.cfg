CONSTANTS
    o1 = o1
    o2 = o2
    o3 = o3
    none = none
    t1 = t1
    t2 = t2
    ann = ann
    g1 = g1
    g2 = g2
    Options = {o1, o2, o3}
    Groups = {"evening"}
    NoGroup = none
    MaxChoices = 2
    MaxTyped = 2
    GuestLimits = {0, 1}
    Tabs = {t1, t2}
    People = {ann}
    Dates = {"day"}
    ChangeDays = {"day"}
    MaxTouches = 2
    MaxSaves = 3
    GroupIds = {g1, g2}
    Aliases = {"alias", "other"}
    MaxMoves = 2
    MaxPosts = 2
SPECIFICATION FormsSpec
CONSTRAINT Small
INVARIANTS TypesOK GuestsAsShown OpenPollsAreSound GateSuffices
PROPERTIES StaysAcceptable NotOpenedUnseen RoundTrip OnlyTouchedAreSaved
SYMMETRY Interchangeable
CHECK_DEADLOCK FALSE
