\* Expected to fail: TransitionIsOpen.
SPECIFICATION Spec
CONSTANTS
    Students = {s1}
    Promotions = {p1}
    Reviews = {x1}
    Evaluations = {e1}
    InitialStudents <- AllRows
    RewrittenRanks <- MixedRank
    Dates = {15, 16}
    MaxCorrections = 0
    None = None
INVARIANT
    TransitionIsOpen
CHECK_DEADLOCK FALSE
