--------------------------- MODULE ChargePayments ---------------------------
(***************************************************************************)
(* Payments against billing charges, as concurrent requests run them       *)
(* (src/src/billing): manual payments entered by operators and payments    *)
(* observed through Mercado Pago webhooks.                                 *)
(*                                                                         *)
(* A request first reads what it checks outside any transaction, then runs *)
(* one Serializable transaction whose first statement takes an advisory    *)
(* lock on the charge.  PostgreSQL freezes the snapshot of a transaction   *)
(* when its first statement starts, that is BEFORE it waits for the lock:  *)
(* a waiter that is granted the lock still reads the rows as they were     *)
(* when it began to wait, and is aborted when it writes a row that         *)
(* changed, or depends on one, in the meantime.  No request is retried.    *)
(*                                                                         *)
(* A request creates at most one PaymentRecord, so records are named by    *)
(* the request that created them.                                          *)
(***************************************************************************)
EXTENDS Integers, FiniteSetsExt

CONSTANTS
    Charges,            \* billing charges
    Requests,           \* requests and webhook runs, each used once
    PaymentRefs,        \* payment ids of the provider (externalReference)
    Branches,           \* a branch, with the student whose charges are at stake
    Currencies,
    ChargeAmounts,      \* amounts a charge may be created with
    GrossAmounts,       \* gross amounts of a payment
    ManualStatuses,     \* PaymentStatus values an operator may enter
    Reports,            \* classifications of what the provider may report
    None                \* no charge, no reference, no branch, no currency

ASSUME NoneIsNoValue == 
    None \notin Charges \cup PaymentRefs \cup Branches \cup Currencies
ASSUME AmountsAreNatural ==
    ChargeAmounts \subseteq Nat /\ GrossAmounts \subseteq Nat
ASSUME StatusesAreKnown ==
    /\ ManualStatuses \subseteq {"PENDING", "APPROVED", "REJECTED", "CANCELED", "FAILED"}
    /\ Reports \subseteq {"APPROVED", "PENDING", "REJECTED", "CANCELED", "ignore"}

VARIABLES
    charge,         \* charge[c]: the BillingCharge row
    payment,        \* payment[r]: the PaymentRecord created by request r
    partialAllowed, \* partialAllowed[b]: BillingPolicy.allowPartialPayments
    pc,             \* pc[r]: how far request r has got
    input,          \* input[r]: its arguments and the policy it has read
    view            \* view[r]: what its transaction's snapshot shows

vars == <<charge, payment, partialAllowed, pc, input, view>>

(***************************************************************************)
(* Rows.  ABSENT and NONE stand for rows that do not exist.  ver is the    *)
(* version PostgreSQL gives a row at each write.                           *)
(***************************************************************************)
ChargeStatuses ==
    {"ABSENT", "PENDING", "PARTIALLY_PAID", "PAID", "OVERDUE", "CANCELED", "VOID"}

PaymentStatuses == {"PENDING", "APPROVED", "REJECTED", "CANCELED", "FAILED"}

ChargeRow == [status : ChargeStatuses, amount : Nat, paid : Nat,
              branch : Branches \cup {None}, currency : Currencies \cup {None},
              linked : BOOLEAN, ver : Nat]

AbsentCharge == [status |-> "ABSENT", amount |-> 0, paid |-> 0,
                 branch |-> None, currency |-> None, linked |-> FALSE, ver |-> 0]

PaymentRow == [charge : Charges \cup {None}, status : PaymentStatuses \cup {"NONE"},
               gross : Nat, ref : PaymentRefs \cup {None}, byHand : BOOLEAN]

NoPayment == [charge |-> None, status |-> "NONE", gross |-> 0, ref |-> None,
              byHand |-> FALSE]

Input == [charge : Charges \cup {None}, status : PaymentStatuses \cup {"ignore"},
          branch : Branches \cup {None}, currency : Currencies \cup {None},
          gross : Nat, ref : PaymentRefs \cup {None},
          kind : {"none", "manual", "mercado_pago"}, partialOk : BOOLEAN]

NoInput == [charge |-> None, status |-> "ignore", branch |-> None,
            currency |-> None, gross |-> 0, ref |-> None, kind |-> "none",
            partialOk |-> FALSE]

Snapshot == [row : ChargeRow, twins : SUBSET Requests]

NoSnapshot == [row |-> AbsentCharge, twins |-> {}]

-----------------------------------------------------------------------------
(***************************************************************************)
(* What the code computes from the rows.                                   *)
(***************************************************************************)
IsFullyPaid(row) == row.paid >= row.amount

IsDead(row) == row.status \in {"CANCELED", "VOID"}

\* Mutant of PaidStatus: off by one at the boundary.
PaidStatusStrict(row, paid) == IF paid > row.amount THEN "PAID" ELSE "PARTIALLY_PAID"

\* The status both transactions write with an approved amount.
PaidStatus(row, paid) == IF paid >= row.amount THEN "PAID" ELSE "PARTIALLY_PAID"

\* Mutant of Credited: the amount is taken off the balance.
CreditedBackwards(row, delta, status) ==
    [row EXCEPT !.paid = row.paid - delta, !.status = status, !.ver = row.ver + 1]

Credited(row, delta, status) ==
    [row EXCEPT !.paid = row.paid + delta, !.status = status, !.ver = row.ver + 1]

\* The payment records of charge c that carry the provider's payment id p.
Twins(c, p) == {i \in Requests : /\ payment[i].status # "NONE"
                                 /\ payment[i].charge = c
                                 /\ payment[i].ref = p}

\* What a payment record adds to the amountPaid of its charge.
Approved(rec) == IF rec.status = "APPROVED" THEN rec.gross ELSE 0

-----------------------------------------------------------------------------
Init ==
    /\ charge = [c \in Charges |-> AbsentCharge]
    /\ payment = [r \in Requests |-> NoPayment]
    /\ partialAllowed = [b \in Branches |-> TRUE]
    /\ pc = [r \in Requests |-> "idle"]
    /\ input = [r \in Requests |-> NoInput]
    /\ view = [r \in Requests |-> NoSnapshot]

\* Plain writes outside any transaction.
CreateBillingCharge(c, a, b, m, l) ==
    /\ charge[c].status = "ABSENT"
    /\ charge' = [charge EXCEPT ![c] = [status |-> "PENDING", amount |-> a, paid |-> 0,
                                        branch |-> b, currency |-> m, linked |-> l,
                                        ver |-> 1]]
    /\ UNCHANGED <<payment, partialAllowed, pc, input, view>>

\* One attachment per charge bounds the rewrites of externalReference.
AttachPreference(c) ==
    /\ charge[c].status # "ABSENT"
    /\ ~charge[c].linked
    /\ charge' = [charge EXCEPT ![c].linked = TRUE, ![c].ver = charge[c].ver + 1]
    /\ UNCHANGED <<payment, partialAllowed, pc, input, view>>

UpdateBillingPolicy(b, allow) ==
    /\ partialAllowed[b] # allow
    /\ partialAllowed' = [partialAllowed EXCEPT ![b] = allow]
    /\ UNCHANGED <<charge, payment, pc, input, view>>

-----------------------------------------------------------------------------
(***************************************************************************)
(* Before the transaction.                                                 *)
(***************************************************************************)
Arrive(r, in) ==
    /\ pc[r] = "idle"
    /\ pc' = [pc EXCEPT ![r] = "arrived"]
    /\ input' = [input EXCEPT ![r] = in]
    /\ UNCHANGED <<charge, payment, partialAllowed, view>>

\* The use case reads the policy first.  A payment entered as MERCADO_PAGO
\* may carry a provider reference: nothing stops an operator typing one.
ArriveManual(r, c, g, s, p, b, m) ==
    Arrive(r, [charge |-> c, status |-> s, branch |-> b, currency |-> m,
               gross |-> g, ref |-> p, kind |-> "manual",
               partialOk |-> partialAllowed[b]])

\* The payment the webhook run has fetched from the provider, classified.
ArriveMercadoPago(r, c, g, k, p, b, m) ==
    Arrive(r, [charge |-> c, status |-> k, branch |-> b, currency |-> m,
               gross |-> g, ref |-> p, kind |-> "mercado_pago", partialOk |-> FALSE])

\* The request is over, with or without an error, and forgets its variables.
End(r) ==
    /\ pc' = [pc EXCEPT ![r] = "answered"]
    /\ input' = [input EXCEPT ![r] = NoInput]
    /\ view' = [view EXCEPT ![r] = NoSnapshot]

\* Student payments without a charge and general income: one plain record.
RecordUnlinkedPayment(r, g, s) ==
    /\ pc[r] = "idle"
    /\ payment' = [payment EXCEPT ![r] = [NoPayment EXCEPT !.status = s, !.gross = g,
                                                          !.byHand = TRUE]]
    /\ End(r)
    /\ UNCHANGED <<charge, partialAllowed>>

\* Mutant of ManualAllowed: the partial payment policy is not consulted.
ManualAllowedPartially(in, row) ==
    /\ row.status \notin {"ABSENT", "PAID"}
    /\ ~IsDead(row)
    /\ row.branch = in.branch
    /\ row.currency = in.currency

\* The charge as it is now passes the checks of the manual use case.
ManualAllowed(in, row) ==
    /\ row.status \notin {"ABSENT", "PAID"}
    /\ ~IsDead(row)
    /\ row.branch = in.branch
    /\ row.currency = in.currency
    /\ \/ in.status # "APPROVED"
       \/ in.gross >= row.amount - row.paid
       \/ in.partialOk

CheckManual(r) ==
    /\ pc[r] = "arrived"
    /\ input[r].kind = "manual"
    /\ UNCHANGED <<charge, payment, partialAllowed>>
    /\ \/ /\ ManualAllowed(input[r], charge[input[r].charge])
          /\ pc' = [pc EXCEPT ![r] = "checked"]
          /\ UNCHANGED <<input, view>>
       \/ /\ ~ManualAllowed(input[r], charge[input[r].charge])
          /\ End(r)

\* The webhook use case ignores a charge that is missing, of another branch or
\* not linked to Mercado Pago.
CheckMercadoPago(r) ==
    LET row == charge[input[r].charge]
        Observable == row.status # "ABSENT" /\ row.branch = input[r].branch /\ row.linked
    IN  /\ pc[r] = "arrived"
        /\ input[r].kind = "mercado_pago"
        /\ UNCHANGED <<charge, payment, partialAllowed>>
        /\ \/ /\ ~Observable
              /\ End(r)
           \/ /\ Observable
              /\ input[r].status # "ignore" => input[r].gross > 0
              /\ pc' = [pc EXCEPT ![r] = "checked"]
              /\ UNCHANGED <<input, view>>
           \/ /\ Observable
              /\ input[r].status # "ignore"
              /\ input[r].gross = 0
              /\ End(r)

\* A status that is not reconciled only touches the lastExternal* columns.
MarkObserved(r) ==
    LET c == input[r].charge
    IN  /\ pc[r] = "checked"
        /\ input[r].kind = "mercado_pago"
        /\ input[r].status = "ignore"
        /\ charge' = [charge EXCEPT ![c].ver = charge[c].ver + 1]
        /\ End(r)
        /\ UNCHANGED <<payment, partialAllowed>>

-----------------------------------------------------------------------------
(***************************************************************************)
(* The transaction.                                                        *)
(***************************************************************************)
SnapshotOf(in) ==
    [row |-> charge[in.charge],
     twins |-> IF in.kind = "mercado_pago" THEN Twins(in.charge, in.ref) ELSE {}]

\* Mutant of Fresh: no write conflict is detected, as under a weaker isolation.
FreshUnchecked(r) == view[r] \in Snapshot

\* Nothing the transaction has read was written since its snapshot.
Fresh(r) == view[r] = SnapshotOf(input[r])

\* The first statement takes the snapshot and starts to wait for the lock.
BeginTransaction(r) ==
    /\ pc[r] = "checked"
    /\ input[r].status # "ignore"
    /\ pc' = [pc EXCEPT ![r] = "waiting"]
    /\ view' = [view EXCEPT ![r] = SnapshotOf(input[r])]
    /\ UNCHANGED <<charge, payment, partialAllowed, input>>

AcquireChargePaymentLock(r) ==
    /\ pc[r] = "waiting"
    /\ \A q \in Requests : pc[q] = "locked" => input[q].charge # input[r].charge
    /\ pc' = [pc EXCEPT ![r] = "locked"]
    /\ UNCHANGED <<charge, payment, partialAllowed, input, view>>

\* A write of the charge needs a fresh snapshot.  A payment that is not
\* approved only inserts, and may commit on a stale one.
ManualCommits(r) ==
    LET row == view[r].row
    IN  /\ row.status \notin {"ABSENT", "PAID"}
        /\ ~IsFullyPaid(row)
        /\ ~IsDead(row)
        /\ row.branch = input[r].branch
        /\ row.currency = input[r].currency
        /\ input[r].status = "APPROVED" => Fresh(r)

RecordStudentPayment(r) ==
    LET in == input[r]
        row == view[r].row
        paid == row.paid + in.gross
    IN  /\ pc[r] = "locked"
        /\ in.kind = "manual"
        /\ ManualCommits(r)
        /\ payment' = [payment EXCEPT ![r] =
               [charge |-> in.charge, status |-> in.status, gross |-> in.gross,
                ref |-> in.ref, byHand |-> TRUE]]
        /\ charge' = IF in.status = "APPROVED"
                     THEN [charge EXCEPT ![in.charge] =
                              Credited(row, in.gross, PaidStatus(row, paid))]
                     ELSE charge
        /\ End(r)
        /\ UNCHANGED partialAllowed

\* The increase of the approved amount that the observed payment brings.
ApprovedDelta(r) ==
    LET next == IF input[r].status = "APPROVED" THEN input[r].gross ELSE 0
        previous == IF view[r].twins = {} THEN 0
                    ELSE Approved(payment[CHOOSE i \in view[r].twins : TRUE])
    IN  next - previous

\* Mutants of ReconcileCommits: no cap at what is due; state regressions
\* accepted.
ReconcileCommitsUncapped(r) ==
    LET row == view[r].row
        delta == ApprovedDelta(r)
    IN  /\ Fresh(r)
        /\ row.status # "ABSENT"
        /\ row.currency = input[r].currency
        /\ \A i, j \in view[r].twins : i = j
        /\ delta >= 0
        /\ delta > 0 => ~IsDead(row) /\ ~IsFullyPaid(row)

ReconcileCommitsRegressing(r) ==
    LET row == view[r].row
        delta == ApprovedDelta(r)
    IN  /\ Fresh(r)
        /\ row.status # "ABSENT"
        /\ row.currency = input[r].currency
        /\ \A i, j \in view[r].twins : i = j
        /\ delta > 0 => ~IsDead(row) /\ ~IsFullyPaid(row)
        /\ row.paid + delta <= row.amount

ReconcileCommits(r) ==
    LET row == view[r].row
        delta == ApprovedDelta(r)
    IN  /\ Fresh(r)
        /\ row.status # "ABSENT"
        /\ row.currency = input[r].currency
        /\ \A i, j \in view[r].twins : i = j
        /\ delta >= 0
        /\ delta > 0 => ~IsDead(row) /\ ~IsFullyPaid(row)
        /\ row.paid + delta <= row.amount

ReconcileMercadoPagoPayment(r) ==
    LET in == input[r]
        row == view[r].row
        paid == row.paid + ApprovedDelta(r)
        target == IF view[r].twins = {} THEN r ELSE CHOOSE i \in view[r].twins : TRUE
    IN  /\ pc[r] = "locked"
        /\ in.kind = "mercado_pago"
        /\ ReconcileCommits(r)
        /\ payment' = [payment EXCEPT ![target] =
               [charge |-> in.charge, status |-> in.status, gross |-> in.gross,
                ref |-> in.ref, byHand |-> payment[target].byHand]]
        /\ charge' = [charge EXCEPT ![in.charge] =
               Credited(row, ApprovedDelta(r),
                        IF in.status = "APPROVED" THEN PaidStatus(row, paid)
                                                  ELSE row.status)]
        /\ End(r)
        /\ UNCHANGED partialAllowed

\* Mutant of RollBack: the reconciliation does not release what it holds.
RollBackManualOnly(r) ==
    /\ pc[r] = "locked"
    /\ input[r].kind = "manual" /\ ~ManualCommits(r)
    /\ End(r)
    /\ UNCHANGED <<charge, payment, partialAllowed>>

\* A guard raises, or PostgreSQL refuses the write: all is rolled back.
RollBack(r) ==
    /\ pc[r] = "locked"
    /\ \/ input[r].kind = "manual" /\ ~ManualCommits(r)
       \/ input[r].kind = "mercado_pago" /\ ~ReconcileCommits(r)
    /\ End(r)
    /\ UNCHANGED <<charge, payment, partialAllowed>>

\* The process dies, or the transaction times out or is aborted spuriously.
Abandon(r) ==
    /\ pc[r] \in {"arrived", "checked", "waiting", "locked"}
    /\ End(r)
    /\ UNCHANGED <<charge, payment, partialAllowed>>

-----------------------------------------------------------------------------
Arrivals(r) ==
    \/ \E c \in Charges, g \in GrossAmounts, b \in Branches, m \in Currencies :
         \/ \E s \in ManualStatuses, p \in PaymentRefs \cup {None} :
                ArriveManual(r, c, g, s, p, b, m)
         \/ \E k \in Reports, p \in PaymentRefs :
                ArriveMercadoPago(r, c, g, k, p, b, m)
    \/ \E g \in GrossAmounts, s \in ManualStatuses : RecordUnlinkedPayment(r, g, s)

Progress(r) ==
    \/ CheckManual(r)
    \/ CheckMercadoPago(r)
    \/ MarkObserved(r)
    \/ BeginTransaction(r)
    \/ AcquireChargePaymentLock(r)
    \/ RecordStudentPayment(r)
    \/ ReconcileMercadoPagoPayment(r)
    \/ RollBack(r)

Next ==
    \/ \E c \in Charges, a \in ChargeAmounts, b \in Branches, m \in Currencies,
          l \in BOOLEAN : CreateBillingCharge(c, a, b, m, l)
    \/ \E c \in Charges : AttachPreference(c)
    \/ \E b \in Branches, allow \in BOOLEAN : UpdateBillingPolicy(b, allow)
    \/ \E r \in Requests : Arrivals(r) \/ Progress(r) \/ Abandon(r)

Spec == Init /\ [][Next]_vars

\* A request that can take its next step takes it: its promises are run by the
\* event loop and its statements by the database.  Abandon, arrivals and plain
\* writes are under no fairness.
FairSpec == Spec /\ \A r \in Requests : WF_vars(Progress(r))

-----------------------------------------------------------------------------
(***************************************************************************)
(* Properties.                                                             *)
(***************************************************************************)
TypeOK ==
    /\ charge \in [Charges -> ChargeRow]
    /\ payment \in [Requests -> PaymentRow]
    /\ partialAllowed \in [Branches -> BOOLEAN]
    /\ pc \in [Requests -> {"idle", "arrived", "checked", "waiting", "locked",
                            "answered"}]
    /\ input \in [Requests -> Input]
    /\ view \in [Requests -> Snapshot]

\* The payment records of charge c whose amount counts.
ApprovedOn(c) == {i \in Requests : payment[i].charge = c /\ payment[i].status = "APPROVED"}

\* Whatever the interleaving of manual payments, duplicated or reordered
\* notifications, aborted transactions and requests that die after their
\* commit, the amountPaid of a charge is the sum of its approved records
\* (recordStudentPayment, reconcileMercadoPagoPayment): no lost update, no
\* double credit.
LedgerConservation ==
    \A c \in Charges :
        charge[c].paid = MapThenSumSet(LAMBDA i : payment[i].gross, ApprovedOn(c))

\* The status of a charge agrees with its balance, also after a notification
\* that writes back the status its transaction had read.  (A zero manual
\* payment makes a charge PARTIALLY_PAID with nothing paid.)
StatusTracksBalance ==
    \A c \in Charges :
        /\ charge[c].status = "PAID" => charge[c].paid >= charge[c].amount
        /\ charge[c].status = "PARTIALLY_PAID" => charge[c].paid < charge[c].amount
        /\ charge[c].status = "PENDING" => charge[c].paid = 0

\* However often the same provider payment is delivered and reprocessed, also
\* concurrently, reconciliation creates at most one record for it on a charge:
\* it updates the record it or an operator made before.
OneReconciledRecord ==
    \A c \in Charges, p \in PaymentRefs :
        \A i, j \in Twins(c, p) : ~payment[i].byHand /\ ~payment[j].byHand => i = j

\* Only a manual payment can take a charge past its amount: reconciliation
\* respects what is due even when manual payments race it.
OverpaidOnlyByHand ==
    \A c \in Charges :
        charge[c].paid > charge[c].amount => \E i \in ApprovedOn(c) : payment[i].byHand

\* A settled charge is never reopened and no charge loses money, although a
\* late "pending" or "rejected" notification rewrites the whole charge row.
SettledStaysSettled ==
    [][\A c \in Charges :
          /\ charge[c].status = "PAID" => charge'[c].status = "PAID"
          /\ charge'[c].paid >= charge[c].paid]_vars

\* An approved record keeps its money whatever the provider reports later and
\* in whatever order the reports are applied.
ApprovedIsFinal ==
    [][\A i \in Requests :
          /\ payment[i].status = "APPROVED"
          /\ payment[i].gross > 0
          => /\ payment'[i].status = "APPROVED"
             /\ payment'[i].gross >= payment[i].gross
             /\ payment'[i].charge = payment[i].charge]_vars

\* A manual payment that arrived under a policy without partial payments
\* settles its charge, although the outstanding amount it was checked against
\* was read before its transaction and other payments may have come between.
ManualPaymentSettles ==
    [][\A r \in Requests :
          /\ payment'[r] # payment[r]
          /\ input[r].kind = "manual"
          /\ input[r].status = "APPROVED"
          /\ ~input[r].partialOk
          => charge'[input[r].charge].status = "PAID"]_vars

\* Every request that arrives is answered: none waits forever for the lock of
\* a charge, whatever becomes of the requests ahead of it.
EveryRequestAnswered ==
    \A r \in Requests : pc[r] # "idle" ~> pc[r] = "answered"

\* The concurrent requests implement the ledger: each commit is one step of
\* it, everything else changes nothing it can see.
Ledger == INSTANCE ChargeLedger WITH
    Sources <- Requests,
    Dues    <- ChargeAmounts,
    Credits <- GrossAmounts,
    open    <- {c \in Charges : charge[c].status # "ABSENT"},
    due     <- [c \in Charges |-> charge[c].amount],
    paid    <- [c \in Charges |-> charge[c].paid],
    credit  <- [c \in Charges |-> [i \in Requests |->
                   IF payment[i].charge = c THEN Approved(payment[i]) ELSE 0]]

ImplementsLedger == Ledger!LedgerSpec

\* What billing holds of the provider's payment p on charge c.  A record of zero
\* may be approved by hand, and approves nothing.
StageOf(c, p) ==
    IF Twins(c, p) = {} THEN "NONE"
    ELSE IF \E i \in Twins(c, p) : Approved(payment[i]) > 0 THEN "APPROVED"
    ELSE "PENDING"

\* What the webhook pipeline takes for one step is one here too, although a
\* transaction reads, waits and writes, operators type references of the provider
\* and enter several records under one: no payment goes back.
Booking == INSTANCE PaymentBooking WITH
    Payments <- Charges \X PaymentRefs,
    stage    <- [k \in Charges \X PaymentRefs |-> StageOf(k[1], k[2])]

ImplementsBooking == Booking!BookingSpec
=============================================================================
