\* Expected to fail: BranchSessionsApart.
SPECIFICATION Spec
CONSTANTS
    Branches = {b1}
    Instructors = {i1}
    Schedules = {}
    Sessions = {s1, s2}
    Updates = {u1, u2, u3}
    Generations = {}
    Days = {0}
    Instants = {0, 1, 2}
    DayLength = 2
    MaxLength = 1
    Week = 1
    None = None
SYMMETRY Symmetry
INVARIANT
    BranchSessionsApart
CHECK_DEADLOCK FALSE
