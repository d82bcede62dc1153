\* Two requests race on one charge while its connection is replaced by calls that overlap.
SPECIFICATION Spec
CONSTANTS
    Charges = {c1}
    Connections = {k1, k2}
    Requests = {x1, x2}
    Admins = {a1, a2}
    MaxDue = 2
    TypedReference = typed
    None = None
SYMMETRY Symmetry
INVARIANTS
    TypeOK
    AnswerIsObservable
    ReferenceIsStored
PROPERTIES
    ActivationMissesOnlyLaterOnes
    ImplementsRegister
CHECK_DEADLOCK FALSE
