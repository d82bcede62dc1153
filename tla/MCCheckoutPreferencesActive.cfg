\* Expected to fail: OneActiveConnection.
SPECIFICATION Spec
CONSTANTS
    Charges = {c1}
    Connections = {k1, k2}
    Requests = {x1}
    Admins = {a1, a2}
    MaxDue = 1
    TypedReference = typed
    None = None
SYMMETRY Symmetry
INVARIANT
    OneActiveConnection
CHECK_DEADLOCK FALSE
