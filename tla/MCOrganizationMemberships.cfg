\* Three calls invite and replace roles and scopes of two members.
SPECIFICATION Spec
CONSTANTS
    Members = {founder, guest}
    Founder = founder
    Branches = {b1, b2}
    Calls = {c1, c2, c3}
    RoleRequests <- SomeRoles
    Founding = Founding
    None = None
SYMMETRY Symmetry
INVARIANTS
    TypeOK
    GrantedAsAsked
CHECK_DEADLOCK FALSE
