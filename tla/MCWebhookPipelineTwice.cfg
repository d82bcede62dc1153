\* Expected to fail: AcceptedOnce.
SPECIFICATION Spec
CONSTANTS
    Notifications = {n1,n2}
    Retries = {q1}
    Deliveries = {d1}
    Payments = {p1}
    MaxFaults = 0
    None = None
SYMMETRY Symmetry
PROPERTY
    AcceptedOnce
CHECK_DEADLOCK FALSE
