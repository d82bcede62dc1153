\* Four calls create and update while plans, policy and calendar move.
SPECIFICATION Spec
CONSTANTS
    Memberships = {1, 2}
    Plans = {p1}
    Calls = {x1, x2, x3, x4}
    NewRows <- SomeRows
    Changes <- SomeChanges
    Limits = {1}
    LastDay = 1
    None = None
SYMMETRY Symmetry
INVARIANTS
    TypeOK
    OneOpenMembership
    RowsAreCoherent
CHECK_DEADLOCK FALSE
