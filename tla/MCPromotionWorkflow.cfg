\* From every belt: two requests, two reviewers, two evaluators, one correction.
SPECIFICATION Spec
CONSTANTS
    Students = {s1}
    Promotions = {p1, p2}
    Reviews = {x1, x2}
    Evaluations = {e1, e2}
    InitialStudents <- AllRows
    RewrittenRanks <- MixedRank
    Dates = {15, 16}
    MaxCorrections = 1
    None = None
SYMMETRY Symmetry
INVARIANTS
    TypeOK
    OnePendingPerStudent
PROPERTIES
    DecidedOnce
    RankFollowsHistory
    ImplementsLadder
CHECK_DEADLOCK FALSE
