CONSTANTS
    v1 = v1
    r1 = r1
    r2 = r2
    Labels = {"monday", "tuesday"}
    Copies = 2
    Groups = {"evening"}
    NoGroup = "no group"
    Voters = {v1}
    Requests = {r1, r2}
    Marks = {"YES", "MAYBE"}
    Form <- Forms
    MaxEdits = 1
SPECIFICATION Spec
CONSTRAINT Small
INVARIANTS TypeOK BallotWithinLimits
PROPERTIES FirstBallotStands SeenVotesAreWarned CustomKept
SYMMETRY Interchangeable
CHECK_DEADLOCK FALSE
