\* An update and a generation race over two sessions and one schedule.
SPECIFICATION Spec
CONSTANTS
    Branches = {b1, b2}
    Instructors = {i1, i2}
    Schedules = {1}
    Sessions = {s1, s2}
    Updates = {u1}
    Generations = {g1}
    Days = {0, 1}
    Instants = {0, 1, 2, 3}
    DayLength = 2
    MaxLength = 1
    Week = 1
    None = None
SYMMETRY Symmetry
INVARIANTS
    TypeOK
    LiveSessionsApart
    OneLiveSessionPerDate
    RowsAreCoherent
CHECK_DEADLOCK FALSE
