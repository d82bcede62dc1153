\* Two deliveries and a retry; one fault may strike anywhere.  No symmetry: liveness.
SPECIFICATION FairSpec
CONSTANTS
    Notifications = {n1, n2}
    Retries = {q1}
    Deliveries = {d1}
    Payments = {p1}
    MaxFaults = 1
    None = None
INVARIANTS
    TypeOK
    ProcessedIsRecorded
    DuplicateWasAccepted
    OpenOnlyByFault
PROPERTIES
    UntrustedIsInert
    ImplementsBooking
    ScheduledIsHandled
CHECK_DEADLOCK FALSE
