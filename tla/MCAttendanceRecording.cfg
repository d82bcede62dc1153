\* Two calls record a student while two charges, the policy and the session change.
SPECIFICATION Spec
CONSTANTS
    Students = {s1}
    Charges = {c1, c2}
    Calls = {x1, x2}
    DueDates = {0, 1, 6}
    GraceDays = {0, 1}
    LastDay = 2
    None = None
SYMMETRY Symmetry
INVARIANTS
    TypeOK
    StatusAsDecided
    ListedAsShown
PROPERTY AttendanceIsJustified
CHECK_DEADLOCK FALSE
