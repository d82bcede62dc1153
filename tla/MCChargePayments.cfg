\* Two requests race on one charge, every amount; liveness, so no symmetry.
SPECIFICATION FairSpec
CONSTANTS
    Charges = {c1}
    Requests = {r1, r2}
    PaymentRefs = {p1}
    Branches = {b1}
    Currencies = {m1}
    ChargeAmounts = {2}
    GrossAmounts <- UpToTooMuch
    ManualStatuses = {"PENDING", "APPROVED"}
    Reports = {"PENDING", "APPROVED", "ignore"}
    None = None
INVARIANTS
    TypeOK
    LedgerConservation
    StatusTracksBalance
    OneReconciledRecord
    OverpaidOnlyByHand
PROPERTIES
    SettledStaysSettled
    ApprovedIsFinal
    ManualPaymentSettles
    EveryRequestAnswered
    ImplementsLedger
