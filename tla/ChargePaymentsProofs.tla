------------------------ MODULE ChargePaymentsProofs ------------------------
(***************************************************************************)
(* Proofs about ChargePayments for every set of charges, requests, amounts *)
(* and payment references.                                                 *)
(***************************************************************************)
EXTENDS ChargePayments, FiniteSetTheorems, TLAPS

Busy(r) == pc[r] \in {"arrived", "checked", "waiting", "locked"}

\* What a request has in hand at each point, and that the record named after
\* it appears only when it is over: the part of the inductive invariant that
\* makes the types and the "creates at most one record" convention hold.
RequestsWellFormed ==
    \A r \in Requests :
        /\ Busy(r) =>
              /\ input[r].kind \in {"manual", "mercado_pago"}
              /\ input[r].charge \in Charges
              /\ input[r].gross \in GrossAmounts
              /\ input[r].kind = "manual" => input[r].status \in ManualStatuses
              /\ input[r].kind = "mercado_pago" => input[r].ref \in PaymentRefs
        /\ pc[r] \in {"waiting", "locked"} => input[r].status # "ignore"
        /\ ~Busy(r) => input[r].kind = "none"
        /\ pc[r] # "answered" => payment[r] = NoPayment

TypeInv == TypeOK /\ RequestsWellFormed

-----------------------------------------------------------------------------
(***************************************************************************)
(* Type correctness.                                                       *)
(***************************************************************************)
LEMMA NullsTyped ==
    /\ AbsentCharge \in ChargeRow
    /\ NoPayment \in PaymentRow
    /\ NoInput \in Input
    /\ NoSnapshot \in Snapshot
BY DEF AbsentCharge, ChargeRow, ChargeStatuses, NoPayment, PaymentRow, PaymentStatuses,
       NoInput, Input, NoSnapshot, Snapshot

\* The end of a request keeps the types and forgets what it had in hand.
LEMMA EndTyped ==
    ASSUME TypeOK, NEW r \in Requests, End(r)
    PROVE  /\ pc' \in [Requests -> {"idle", "arrived", "checked", "waiting", "locked",
                                    "answered"}]
           /\ input' \in [Requests -> Input]
           /\ view' \in [Requests -> Snapshot]
           /\ pc'[r] = "answered" /\ input'[r].kind = "none"
           /\ \A q \in Requests \ {r} :
                 pc'[q] = pc[q] /\ input'[q] = input[q] /\ view'[q] = view[q]
BY NullsTyped DEF End, TypeOK, NoInput

LEMMA EndWellFormed ==
    ASSUME TypeInv, NEW r \in Requests, End(r),
           \A q \in Requests \ {r} : payment[q] = NoPayment => payment'[q] = NoPayment
    PROVE  RequestsWellFormed'
<1> SUFFICES ASSUME NEW q \in Requests
             PROVE  (/\ Busy(q) =>
                          /\ input[q].kind \in {"manual", "mercado_pago"}
                          /\ input[q].charge \in Charges
                          /\ input[q].gross \in GrossAmounts
                          /\ input[q].kind = "manual" => input[q].status \in ManualStatuses
                          /\ input[q].kind = "mercado_pago" => input[q].ref \in PaymentRefs
                     /\ pc[q] \in {"waiting", "locked"} => input[q].status # "ignore"
                     /\ ~Busy(q) => input[q].kind = "none"
                     /\ pc[q] # "answered" => payment[q] = NoPayment)'
  BY DEF RequestsWellFormed
<1>1. CASE q = r
  BY <1>1, EndTyped DEF TypeInv, Busy
<1>2. CASE q # r
  BY <1>2, EndTyped DEF TypeInv, RequestsWellFormed, Busy
<1>3. QED
  BY <1>1, <1>2

LEMMA TypeInit == Init => TypeInv
BY NullsTyped DEF Init, TypeInv, TypeOK, RequestsWellFormed, Busy, NoPayment, NoInput

LEMMA CreditedRow ==
    ASSUME NEW row \in ChargeRow, NEW delta \in Nat, NEW status \in ChargeStatuses
    PROVE  /\ Credited(row, delta, status) \in ChargeRow
           /\ Credited(row, delta, status).status = status
           /\ Credited(row, delta, status).amount = row.amount
           /\ Credited(row, delta, status).paid = row.paid + delta
<1> DEFINE one == [row EXCEPT !.paid = row.paid + delta]
           two == [one EXCEPT !.status = status]
<1>1. row.paid + delta \in Nat /\ row.ver + 1 \in Nat
  BY DEF ChargeRow
<1>2. /\ one \in ChargeRow
      /\ one.amount = row.amount /\ one.paid = row.paid + delta
  BY <1>1 DEF ChargeRow
<1>3. /\ two \in ChargeRow
      /\ two.status = status /\ two.amount = row.amount /\ two.paid = row.paid + delta
  <2> HIDE DEF one
  <2>1. QED
    BY <1>2 DEF ChargeRow
<1>4. Credited(row, delta, status) = [two EXCEPT !.ver = row.ver + 1]
  BY DEF Credited
<1> HIDE DEF one, two
<1>5. QED
  BY <1>1, <1>3, <1>4 DEF ChargeRow

\* A manual payment and a reconciliation write well-typed rows.
LEMMA RecordTyped ==
    ASSUME TypeInv, NEW r \in Requests, RecordStudentPayment(r)
    PROVE  charge' \in [Charges -> ChargeRow] /\ payment' \in [Requests -> PaymentRow]
<1> DEFINE in == input[r]
           row == view[r].row
           paid == row.paid + in.gross
           rec == [status |-> in.status, charge |-> in.charge, gross |-> in.gross,
                   ref |-> in.ref, byHand |-> TRUE]
<1>1. in \in Input /\ row \in ChargeRow /\ view[r] \in Snapshot
  BY DEF TypeInv, TypeOK, Snapshot
<1>2. in.charge \in Charges /\ in.status \in PaymentStatuses /\ in.gross \in Nat
  BY <1>1 DEF TypeInv, RequestsWellFormed, Busy, RecordStudentPayment, Input
<1>3. rec \in PaymentRow
  BY <1>1, <1>2 DEF PaymentRow, Input
<1>4. Credited(row, in.gross, PaidStatus(row, paid)) \in ChargeRow
  <2>1. PaidStatus(row, paid) \in ChargeStatuses
    BY DEF PaidStatus, ChargeStatuses
  <2>2. QED
    BY <1>1, <1>2, <2>1, CreditedRow
<1>5. payment' = [payment EXCEPT ![r] = rec]
  BY DEF RecordStudentPayment
<1>6. \/ charge' = charge
      \/ charge' = [charge EXCEPT ![in.charge] =
                       Credited(row, in.gross, PaidStatus(row, paid))]
  BY DEF RecordStudentPayment
<1> HIDE DEF rec, in, row, paid
<1>7. QED
  BY <1>2, <1>3, <1>4, <1>5, <1>6 DEF TypeInv, TypeOK

LEMMA ReconcileTyped ==
    ASSUME TypeInv, NEW r \in Requests, ReconcileMercadoPagoPayment(r)
    PROVE  charge' \in [Charges -> ChargeRow] /\ payment' \in [Requests -> PaymentRow]
<1> DEFINE in == input[r]
           row == view[r].row
           delta == ApprovedDelta(r)
           target == IF view[r].twins = {} THEN r ELSE CHOOSE i \in view[r].twins : TRUE
           rec == [status |-> in.status, charge |-> in.charge, gross |-> in.gross,
                   ref |-> in.ref, byHand |-> payment[target].byHand]
           status == IF in.status = "APPROVED" THEN PaidStatus(row, row.paid + delta)
                                               ELSE row.status
<1>1. in \in Input /\ row \in ChargeRow /\ view[r].twins \subseteq Requests
  BY DEF TypeInv, TypeOK, Snapshot
<1>2. in.charge \in Charges /\ in.status \in PaymentStatuses /\ in.gross \in Nat
  BY <1>1 DEF TypeInv, RequestsWellFormed, Busy, ReconcileMercadoPagoPayment, Input
<1>3. target \in Requests
  BY <1>1
<1>4. rec \in PaymentRow
  BY <1>1, <1>2, <1>3 DEF PaymentRow, Input, TypeInv, TypeOK
<1>5. delta \in Nat
  <2>1. delta \in Int
    BY <1>1, <1>2 DEF ApprovedDelta, Approved, TypeInv, TypeOK, PaymentRow
  <2>2. delta >= 0
    BY DEF ReconcileMercadoPagoPayment, ReconcileCommits
  <2>3. QED
    BY <2>1, <2>2
<1>6. Credited(row, delta, status) \in ChargeRow
  <2>1. status \in ChargeStatuses
    BY <1>1 DEF PaidStatus, ChargeRow, ChargeStatuses
  <2>2. QED
    BY <1>1, <1>5, <2>1, CreditedRow
<1>7. payment' = [payment EXCEPT ![target] = rec]
  BY DEF ReconcileMercadoPagoPayment
<1>8. charge' = [charge EXCEPT ![in.charge] = Credited(row, delta, status)]
  BY DEF ReconcileMercadoPagoPayment
<1> HIDE DEF rec, in, row, delta, target, status
<1>9. QED
  BY <1>2, <1>3, <1>4, <1>6, <1>7, <1>8 DEF TypeInv, TypeOK

LEMMA TypeStep == TypeInv /\ [Next]_vars => TypeInv'
<1> SUFFICES ASSUME TypeInv, [Next]_vars PROVE TypeInv'
  OBVIOUS
<1> USE DEF TypeInv
<1>1. ASSUME NEW c \in Charges, NEW a \in ChargeAmounts, NEW b \in Branches,
             NEW m \in Currencies, NEW l \in BOOLEAN, CreateBillingCharge(c, a, b, m, l)
      PROVE  TypeInv'
  BY <1>1, AmountsAreNatural
  DEF CreateBillingCharge, TypeOK, RequestsWellFormed, Busy, ChargeRow, ChargeStatuses
<1>2. ASSUME NEW c \in Charges, AttachPreference(c) PROVE TypeInv'
  BY <1>2 DEF AttachPreference, TypeOK, RequestsWellFormed, Busy, ChargeRow
<1>3. ASSUME NEW b \in Branches, NEW allow \in BOOLEAN, UpdateBillingPolicy(b, allow)
      PROVE  TypeInv'
  BY <1>3 DEF UpdateBillingPolicy, TypeOK, RequestsWellFormed, Busy
<1>4. ASSUME NEW r \in Requests, NEW c \in Charges, NEW g \in GrossAmounts,
             NEW b \in Branches, NEW m \in Currencies, NEW s \in ManualStatuses,
             NEW p \in PaymentRefs \cup {None}, ArriveManual(r, c, g, s, p, b, m)
      PROVE  TypeInv'
  <2> DEFINE in == [kind |-> "manual", charge |-> c, gross |-> g, status |-> s, ref |-> p,
                    branch |-> b, currency |-> m, partialOk |-> partialAllowed[b]]
  <2>1. in \in Input
    BY AmountsAreNatural, StatusesAreKnown DEF Input, PaymentStatuses, TypeOK
  <2>2. QED
    BY <1>4, <2>1 DEF ArriveManual, Arrive, TypeOK, RequestsWellFormed, Busy
<1>5. ASSUME NEW r \in Requests, NEW c \in Charges, NEW g \in GrossAmounts,
             NEW b \in Branches, NEW m \in Currencies, NEW k \in Reports,
             NEW p \in PaymentRefs, ArriveMercadoPago(r, c, g, k, p, b, m)
      PROVE  TypeInv'
  <2> DEFINE in == [kind |-> "mercado_pago", charge |-> c, gross |-> g, status |-> k,
                    ref |-> p, branch |-> b, currency |-> m, partialOk |-> FALSE]
  <2>1. in \in Input
    BY AmountsAreNatural, StatusesAreKnown DEF Input, PaymentStatuses
  <2>2. QED
    BY <1>5, <2>1 DEF ArriveMercadoPago, Arrive, TypeOK, RequestsWellFormed, Busy
<1>6. ASSUME NEW r \in Requests, NEW g \in GrossAmounts, NEW s \in ManualStatuses,
             RecordUnlinkedPayment(r, g, s)
      PROVE  TypeInv'
  <2>1. End(r)
    BY <1>6 DEF RecordUnlinkedPayment
  <2>2. [NoPayment EXCEPT !.status = s, !.gross = g, !.byHand = TRUE] \in PaymentRow
    BY NullsTyped, AmountsAreNatural, StatusesAreKnown DEF PaymentRow, PaymentStatuses
  <2>3. QED
    BY <1>6, <2>1, <2>2, EndTyped
    DEF RecordUnlinkedPayment, TypeOK, RequestsWellFormed, Busy
<1>7. ASSUME NEW r \in Requests, CheckManual(r) PROVE TypeInv'
  <2>1. CASE End(r)
    BY <1>7, <2>1, EndTyped DEF CheckManual, TypeOK, RequestsWellFormed, Busy
  <2>2. CASE pc' = [pc EXCEPT ![r] = "checked"] /\ UNCHANGED <<input, view>>
    BY <1>7, <2>2 DEF CheckManual, TypeOK, RequestsWellFormed, Busy
  <2>3. QED
    BY <1>7, <2>1, <2>2 DEF CheckManual
<1>8. ASSUME NEW r \in Requests, CheckMercadoPago(r) PROVE TypeInv'
  <2>1. CASE End(r)
    BY <1>8, <2>1, EndTyped DEF CheckMercadoPago, TypeOK, RequestsWellFormed, Busy
  <2>2. CASE pc' = [pc EXCEPT ![r] = "checked"] /\ UNCHANGED <<input, view>>
    BY <1>8, <2>2 DEF CheckMercadoPago, TypeOK, RequestsWellFormed, Busy
  <2>3. QED
    BY <1>8, <2>1, <2>2 DEF CheckMercadoPago
<1>9. ASSUME NEW r \in Requests, MarkObserved(r) PROVE TypeInv'
  <2>1. input[r].charge \in Charges
    BY <1>9 DEF MarkObserved, RequestsWellFormed, Busy
  <2>2. charge' \in [Charges -> ChargeRow]
    BY <1>9, <2>1 DEF MarkObserved, TypeOK, ChargeRow
  <2>3. QED
    BY <1>9, <2>2, EndTyped DEF MarkObserved, TypeOK, RequestsWellFormed, Busy
<1>10. ASSUME NEW r \in Requests, BeginTransaction(r) PROVE TypeInv'
  <2>1. SnapshotOf(input[r]) \in Snapshot
    BY <1>10 DEF BeginTransaction, SnapshotOf, Snapshot, Twins, TypeOK, RequestsWellFormed,
                 Busy
  <2>2. QED
    BY <1>10, <2>1 DEF BeginTransaction, TypeOK, RequestsWellFormed, Busy
<1>11. ASSUME NEW r \in Requests, AcquireChargePaymentLock(r) PROVE TypeInv'
  BY <1>11 DEF AcquireChargePaymentLock, TypeOK, RequestsWellFormed, Busy
<1>12. ASSUME NEW r \in Requests, RecordStudentPayment(r) PROVE TypeInv'
  <2>1. \A i \in Requests \ {r} : payment'[i] = payment[i]
    BY <1>12 DEF RecordStudentPayment, TypeOK
  <2>2. End(r) /\ UNCHANGED partialAllowed
    BY <1>12 DEF RecordStudentPayment
  <2>3. QED
    BY <1>12, <2>1, <2>2, RecordTyped, EndTyped, EndWellFormed DEF TypeOK
<1>13. ASSUME NEW r \in Requests, ReconcileMercadoPagoPayment(r) PROVE TypeInv'
  <2> DEFINE target == IF view[r].twins = {} THEN r ELSE CHOOSE i \in view[r].twins : TRUE
  <2>1. view[r].twins = Twins(input[r].charge, input[r].ref)
    BY <1>13 DEF ReconcileMercadoPagoPayment, ReconcileCommits, Fresh, SnapshotOf
  <2>2. target = r \/ (target \in Requests /\ payment[target] # NoPayment)
    BY <2>1 DEF Twins, NoPayment
  <2>3. \A i \in Requests : i # target => payment'[i] = payment[i]
    BY <1>13 DEF ReconcileMercadoPagoPayment, TypeOK
  <2>4. \A i \in Requests : i # r /\ payment[i] = NoPayment => payment'[i] = NoPayment
    BY <2>2, <2>3
  <2>5. QED
    <3>1. End(r) /\ UNCHANGED partialAllowed
      BY <1>13 DEF ReconcileMercadoPagoPayment
    <3>2. QED
      BY <1>13, <2>4, <3>1, ReconcileTyped, EndTyped, EndWellFormed DEF TypeOK
<1>14. ASSUME NEW r \in Requests, RollBack(r) \/ Abandon(r) PROVE TypeInv'
  BY <1>14, EndTyped DEF RollBack, Abandon, TypeOK, RequestsWellFormed, Busy
<1>15. CASE UNCHANGED vars
  BY <1>15 DEF vars, TypeOK, RequestsWellFormed, Busy
<1>16. QED
  BY <1>1, <1>2, <1>3, <1>4, <1>5, <1>6, <1>7, <1>8, <1>9, <1>10, <1>11, <1>12, <1>13,
     <1>14, <1>15
  DEF Next, Arrivals, Progress

\* Every reachable state is well typed, and a request creates at most the one
\* record that is named after it.
THEOREM TypeCorrect == Spec => []TypeOK
<1>1. Spec => []TypeInv
  BY TypeInit, TypeStep, PTL DEF Spec
<1>2. TypeInv => TypeOK
  BY DEF TypeInv
<1>3. QED
  BY <1>1, <1>2, PTL

-----------------------------------------------------------------------------
(***************************************************************************)
(* What a step does to the money, seen from the rows: five cases in place  *)
(* of fifteen actions.                                                     *)
(***************************************************************************)
SameMoney(c) ==
    /\ charge'[c].status = charge[c].status
    /\ charge'[c].amount = charge[c].amount
    /\ charge'[c].paid = charge[c].paid

Quiet == payment' = payment /\ \A c \in Charges : SameMoney(c)

Opening(c, a) ==
    /\ payment' = payment
    /\ charge[c].status = "ABSENT"
    /\ charge'[c].status = "PENDING" /\ charge'[c].amount = a /\ charge'[c].paid = 0
    /\ \A d \in Charges \ {c} : SameMoney(d)

\* Request r commits a record of its own without crediting anything.
BareRecord(r) ==
    /\ payment[r].status = "NONE"
    /\ \A i \in Requests \ {r} : payment'[i] = payment[i]
    /\ payment'[r].byHand
    /\ payment'[r].charge \in Charges => payment'[r].status # "APPROVED"
    /\ \A c \in Charges : SameMoney(c)

\* Request r credits charge c with its own new record.
ManualCredit(r, c) ==
    /\ payment[r].status = "NONE"
    /\ \A i \in Requests \ {r} : payment'[i] = payment[i]
    /\ payment'[r].byHand /\ payment'[r].status = "APPROVED" /\ payment'[r].charge = c
    /\ payment'[r].gross \in GrossAmounts
    /\ charge[c].status \notin {"ABSENT", "PAID"}
    /\ charge[c].paid < charge[c].amount
    /\ charge'[c].amount = charge[c].amount
    /\ charge'[c].paid = charge[c].paid + payment'[r].gross
    /\ charge'[c].status = PaidStatus(charge[c], charge'[c].paid)
    /\ \A d \in Charges \ {c} : SameMoney(d)

\* Charge c is reconciled with record t, new or known under reference p.
Reconciled(t, c, p) ==
    /\ \/ Twins(c, p) = {} /\ payment[t].status = "NONE" /\ ~payment'[t].byHand
       \/ Twins(c, p) = {t} /\ payment'[t].byHand = payment[t].byHand
    /\ \A i \in Requests \ {t} : payment'[i] = payment[i]
    /\ payment'[t].charge = c /\ payment'[t].ref = p /\ payment'[t].gross \in GrossAmounts
    /\ payment'[t].status \in PaymentStatuses
    /\ Approved(payment'[t]) >= Approved(payment[t])
    /\ charge[c].status # "ABSENT"
    /\ charge'[c].amount = charge[c].amount
    /\ charge'[c].paid = charge[c].paid + (Approved(payment'[t]) - Approved(payment[t]))
    /\ charge'[c].paid <= charge[c].amount
    /\ charge'[c].status = IF payment'[t].status = "APPROVED"
                           THEN PaidStatus(charge[c], charge'[c].paid)
                           ELSE charge[c].status
    /\ \A d \in Charges \ {c} : SameMoney(d)

LEMMA ManualEffect ==
    ASSUME TypeInv, NEW r \in Requests, RecordStudentPayment(r)
    PROVE  BareRecord(r) \/ \E c \in Charges : ManualCredit(r, c)
<1> DEFINE in == input[r]
           c == input[r].charge
           row == view[r].row
           rec == [status |-> in.status, charge |-> in.charge, gross |-> in.gross,
                   ref |-> in.ref, byHand |-> TRUE]
<1>1. /\ c \in Charges /\ in.gross \in GrossAmounts /\ in.gross \in Nat
      /\ charge[c] \in ChargeRow /\ row \in ChargeRow
      /\ payment \in [Requests -> PaymentRow] /\ charge \in [Charges -> ChargeRow]
  BY AmountsAreNatural
  DEF TypeInv, TypeOK, RequestsWellFormed, Busy, RecordStudentPayment, Input, Snapshot
<1>2. payment[r].status = "NONE"
  BY <1>1 DEF TypeInv, RequestsWellFormed, RecordStudentPayment, NoPayment
<1>3. payment' = [payment EXCEPT ![r] = rec]
  BY DEF RecordStudentPayment
<1>4. /\ \A i \in Requests \ {r} : payment'[i] = payment[i]
      /\ payment'[r] = rec
  <2> HIDE DEF rec
  <2>1. QED
    BY <1>1, <1>3
<1>5. CASE in.status # "APPROVED"
  <2>1. charge' = charge
    BY <1>5 DEF RecordStudentPayment
  <2>2. QED
    BY <1>2, <1>4, <1>5, <2>1 DEF BareRecord, SameMoney
<1>6. CASE in.status = "APPROVED"
  <2> DEFINE st == PaidStatus(row, row.paid + in.gross)
  <2>1. /\ row = charge[c]
        /\ row.status \notin {"ABSENT", "PAID"} /\ ~IsFullyPaid(row)
    BY <1>6 DEF RecordStudentPayment, ManualCommits, Fresh, SnapshotOf
  <2>2. charge' = [charge EXCEPT ![c] = Credited(charge[c], in.gross, st)]
    BY <1>6, <2>1 DEF RecordStudentPayment
  <2>3. st \in ChargeStatuses
    BY DEF PaidStatus, ChargeStatuses
  <2>4. st = PaidStatus(charge[c], charge[c].paid + in.gross)
    BY <2>1
  <2> HIDE DEF st, rec, row
  <2>5. /\ charge'[c].status = st
        /\ charge'[c].amount = charge[c].amount
        /\ charge'[c].paid = charge[c].paid + in.gross
    BY <1>1, <2>2, <2>3, CreditedRow
  <2>6. \A d \in Charges \ {c} : SameMoney(d)
    BY <1>1, <2>2 DEF SameMoney
  <2>7. charge[c].paid < charge[c].amount
    BY <1>1, <2>1 DEF IsFullyPaid, ChargeRow
  <2>8. ManualCredit(r, c)
    BY <1>1, <1>2, <1>4, <1>6, <2>1, <2>4, <2>5, <2>6, <2>7 DEF ManualCredit, rec
  <2>9. QED
    BY <1>1, <2>8
<1>7. QED
  BY <1>5, <1>6

LEMMA ReconcileEffect ==
    ASSUME TypeInv, NEW r \in Requests, ReconcileMercadoPagoPayment(r)
    PROVE  \E t \in Requests, c \in Charges, p \in PaymentRefs : Reconciled(t, c, p)
<1> DEFINE in == input[r]
           c == input[r].charge
           row == view[r].row
           delta == ApprovedDelta(r)
           t == IF view[r].twins = {} THEN r ELSE CHOOSE i \in view[r].twins : TRUE
           rec == [status |-> in.status, charge |-> in.charge, gross |-> in.gross,
                   ref |-> in.ref, byHand |-> payment[t].byHand]
           st == IF in.status = "APPROVED" THEN PaidStatus(row, row.paid + delta)
                                           ELSE row.status
<1>1. /\ c \in Charges /\ in.gross \in GrossAmounts /\ in.gross \in Nat
      /\ in.ref \in PaymentRefs
      /\ in.status \in PaymentStatuses
      /\ charge[c] \in ChargeRow /\ payment \in [Requests -> PaymentRow]
      /\ charge \in [Charges -> ChargeRow] /\ pc[r] = "locked" /\ in.kind = "mercado_pago"
  BY AmountsAreNatural
  DEF TypeInv, TypeOK, RequestsWellFormed, Busy, ReconcileMercadoPagoPayment, Input
<1>2. row = charge[c] /\ view[r].twins = Twins(c, in.ref)
  BY <1>1 DEF ReconcileMercadoPagoPayment, ReconcileCommits, Fresh, SnapshotOf
<1>3. /\ row.status # "ABSENT" /\ delta >= 0 /\ row.paid + delta <= row.amount
      /\ \A i, j \in view[r].twins : i = j
  BY DEF ReconcileMercadoPagoPayment, ReconcileCommits
<1>4. payment[r].status = "NONE" /\ ~payment[r].byHand
  BY <1>1 DEF TypeInv, RequestsWellFormed, NoPayment
<1>5. t \in Requests
  BY <1>2 DEF Twins
<1>6. \/ Twins(c, in.ref) = {} /\ t = r
      \/ Twins(c, in.ref) = {t}
  BY <1>2, <1>3
<1>7. payment' = [payment EXCEPT ![t] = rec]
  BY DEF ReconcileMercadoPagoPayment
<1>8. /\ \A i \in Requests \ {t} : payment'[i] = payment[i]
      /\ payment'[t] = rec
  <2> HIDE DEF rec, t
  <2>1. QED
    BY <1>1, <1>5, <1>7
<1>9. delta = Approved(rec) - Approved(payment[t])
  BY <1>4 DEF ApprovedDelta, Approved
<1>10. delta \in Nat /\ Approved(rec) \in Nat /\ Approved(payment[t]) \in Nat
  <2>1. payment[t] \in PaymentRow
    BY <1>1, <1>5
  <2>2. Approved(rec) \in Nat /\ Approved(payment[t]) \in Nat
    BY <1>1, <2>1 DEF Approved, PaymentRow
  <2>3. QED
    BY <1>3, <1>9, <2>2
<1>11. charge' = [charge EXCEPT ![c] = Credited(charge[c], delta, st)]
  BY <1>2 DEF ReconcileMercadoPagoPayment
<1>12. st \in ChargeStatuses
  BY <1>1, <1>2 DEF PaidStatus, ChargeStatuses, ChargeRow
<1>13. st = IF rec.status = "APPROVED" THEN PaidStatus(charge[c], charge[c].paid + delta)
                                      ELSE charge[c].status
  BY <1>2
<1> HIDE DEF rec, st, t, delta, row
<1>14. /\ charge'[c].status = st
       /\ charge'[c].amount = charge[c].amount
       /\ charge'[c].paid = charge[c].paid + delta
       /\ \A d \in Charges \ {c} : SameMoney(d)
  BY <1>1, <1>10, <1>11, <1>12, CreditedRow DEF SameMoney
<1>15. Reconciled(t, c, in.ref)
  <2>1. rec.charge = c /\ rec.ref = in.ref /\ rec.gross = in.gross /\ rec.status = in.status
        /\ rec.byHand = payment[t].byHand
    BY DEF rec
  <2>2. \/ Twins(c, in.ref) = {} /\ payment[t].status = "NONE" /\ ~payment'[t].byHand
        \/ Twins(c, in.ref) = {t} /\ payment'[t].byHand = payment[t].byHand
    BY <1>4, <1>6, <1>8, <2>1
  <2>3. Approved(payment'[t]) >= Approved(payment[t])
    BY <1>3, <1>8, <1>9, <1>10
  <2>4. /\ charge'[c].paid = charge[c].paid + (Approved(payment'[t]) - Approved(payment[t]))
        /\ charge'[c].paid <= charge[c].amount
    BY <1>2, <1>3, <1>8, <1>9, <1>14 DEF row
  <2>5. QED
    BY <1>1, <1>2, <1>3, <1>8, <1>13, <1>14, <2>1, <2>2, <2>3, <2>4 DEF Reconciled, row
<1>16. QED
  BY <1>1, <1>5, <1>15

LEMMA StepEffects ==
    ASSUME TypeInv, [Next]_vars
    PROVE  \/ Quiet
           \/ \E c \in Charges, a \in ChargeAmounts : Opening(c, a)
           \/ \E r \in Requests : BareRecord(r)
           \/ \E r \in Requests, c \in Charges : ManualCredit(r, c)
           \/ \E t \in Requests, c \in Charges, p \in PaymentRefs : Reconciled(t, c, p)
<1>1. /\ charge \in [Charges -> ChargeRow] /\ payment \in [Requests -> PaymentRow]
  BY DEF TypeInv, TypeOK
<1>2. ASSUME NEW c \in Charges, NEW a \in ChargeAmounts, NEW b \in Branches,
             NEW m \in Currencies, NEW l \in BOOLEAN, CreateBillingCharge(c, a, b, m, l)
      PROVE  Opening(c, a)
  BY <1>1, <1>2 DEF CreateBillingCharge, Opening, SameMoney
<1>3. ASSUME NEW c \in Charges, AttachPreference(c) PROVE Quiet
  BY <1>1, <1>3 DEF AttachPreference, Quiet, SameMoney, ChargeRow
<1>4. ASSUME NEW r \in Requests, MarkObserved(r) PROVE Quiet
  BY <1>1, <1>4 DEF MarkObserved, Quiet, SameMoney, ChargeRow
<1>5. ASSUME NEW r \in Requests, NEW g \in GrossAmounts, NEW s \in ManualStatuses,
             RecordUnlinkedPayment(r, g, s)
      PROVE  BareRecord(r)
  <2>1. payment[r] = NoPayment
    BY <1>5 DEF RecordUnlinkedPayment, TypeInv, RequestsWellFormed
  <2>2. payment'[r] = [NoPayment EXCEPT !.status = s, !.gross = g, !.byHand = TRUE]
    BY <1>1, <1>5 DEF RecordUnlinkedPayment
  <2>3. payment'[r].charge = None /\ payment'[r].byHand
    BY <2>2 DEF NoPayment
  <2>4. QED
    BY <1>1, <1>5, <2>1, <2>3, NoneIsNoValue
    DEF RecordUnlinkedPayment, BareRecord, SameMoney, NoPayment
<1>6. ASSUME UNCHANGED <<charge, payment>> PROVE Quiet
  BY <1>6 DEF Quiet, SameMoney
<1>7. ASSUME NEW r \in Requests,
             \/ CheckManual(r) \/ CheckMercadoPago(r) \/ BeginTransaction(r)
             \/ AcquireChargePaymentLock(r) \/ RollBack(r) \/ Abandon(r)
      PROVE  Quiet
  BY <1>6, <1>7 DEF CheckManual, CheckMercadoPago, BeginTransaction,
                    AcquireChargePaymentLock, RollBack, Abandon
<1>8. ASSUME NEW r \in Requests, NEW in, Arrive(r, in) PROVE Quiet
  BY <1>6, <1>8 DEF Arrive
<1>9. ASSUME NEW b \in Branches, NEW allow \in BOOLEAN, UpdateBillingPolicy(b, allow)
      PROVE  Quiet
  BY <1>6, <1>9 DEF UpdateBillingPolicy
<1>10. CASE UNCHANGED vars
  BY <1>6, <1>10 DEF vars
<1>11. CASE Next
  <2>1. ASSUME NEW r \in Requests, Arrivals(r)
        PROVE  Quiet \/ BareRecord(r)
    BY <1>5, <1>8, <2>1 DEF Arrivals, ArriveManual, ArriveMercadoPago
  <2>2. ASSUME NEW r \in Requests, Progress(r)
        PROVE  \/ Quiet \/ BareRecord(r)
               \/ \E c \in Charges : ManualCredit(r, c)
               \/ \E t \in Requests, c \in Charges, p \in PaymentRefs : Reconciled(t, c, p)
    BY <1>4, <1>7, <2>2, ManualEffect, ReconcileEffect DEF Progress
  <2>3. QED
    BY <1>2, <1>3, <1>7, <1>9, <1>11, <2>1, <2>2 DEF Next
<1>12. QED
  BY <1>10, <1>11

\* A charge that does not exist yet has collected nothing.
AbsentIsEmpty == \A c \in Charges : charge[c].status = "ABSENT" => charge[c].paid = 0

LEMMA AbsentStep == TypeInv /\ AbsentIsEmpty /\ [Next]_vars => AbsentIsEmpty'
<1> SUFFICES ASSUME TypeInv, AbsentIsEmpty, [Next]_vars, NEW c \in Charges,
                    charge'[c].status = "ABSENT"
             PROVE  charge'[c].paid = 0
  BY DEF AbsentIsEmpty
<1>1. SameMoney(c)
  BY StepEffects
  DEF Quiet, Opening, BareRecord, ManualCredit, Reconciled, PaidStatus
<1>2. QED
  BY <1>1 DEF SameMoney, AbsentIsEmpty

\* Money only grows, and the amount due never changes.
LEMMA MoneyGrows ==
    ASSUME TypeInv, [Next]_vars, NEW c \in Charges, charge[c].status # "ABSENT"
    PROVE  /\ charge'[c].status # "ABSENT"
           /\ charge'[c].amount = charge[c].amount
           /\ charge'[c].paid >= charge[c].paid
<1>1. /\ charge[c] \in ChargeRow /\ payment \in [Requests -> PaymentRow]
  BY DEF TypeInv, TypeOK
<1>2. charge[c].paid \in Nat /\ charge[c].amount \in Nat
  BY <1>1 DEF ChargeRow
<1>3. ASSUME SameMoney(c)
      PROVE  /\ charge'[c].status # "ABSENT"
             /\ charge'[c].amount = charge[c].amount
             /\ charge'[c].paid >= charge[c].paid
  BY <1>2, <1>3 DEF SameMoney
<1>4. ASSUME NEW r \in Requests, ManualCredit(r, c)
      PROVE  /\ charge'[c].status # "ABSENT"
             /\ charge'[c].amount = charge[c].amount
             /\ charge'[c].paid >= charge[c].paid
  <2>1. payment'[r].gross \in Nat
    BY <1>4, AmountsAreNatural DEF ManualCredit
  <2>2. charge'[c].status \in {"PAID", "PARTIALLY_PAID"}
    BY <1>4 DEF ManualCredit, PaidStatus
  <2>3. QED
    BY <1>2, <1>4, <2>1, <2>2 DEF ManualCredit
<1>5. ASSUME NEW t \in Requests, NEW p \in PaymentRefs, Reconciled(t, c, p)
      PROVE  /\ charge'[c].status # "ABSENT"
             /\ charge'[c].amount = charge[c].amount
             /\ charge'[c].paid >= charge[c].paid
  <2>1. Approved(payment[t]) \in Nat /\ Approved(payment'[t]) \in Nat
    BY <1>1, <1>5, AmountsAreNatural DEF Approved, PaymentRow, Reconciled
  <2>2. QED
    BY <1>2, <1>5, <2>1 DEF Reconciled, PaidStatus
<1>6. QED
  BY <1>3, <1>4, <1>5, StepEffects DEF Quiet, Opening, BareRecord, ManualCredit, Reconciled

-----------------------------------------------------------------------------
(***************************************************************************)
(* Safety.  Each invariant is preserved by the five effects; none of them  *)
(* needs more than TypeInv beside itself.                                  *)
(***************************************************************************)
LEMMA StatusStep ==
    TypeInv /\ StatusTracksBalance /\ [Next]_vars => StatusTracksBalance'
<1> SUFFICES ASSUME TypeInv, StatusTracksBalance, [Next]_vars, NEW c \in Charges
             PROVE  /\ charge'[c].status = "PAID" => charge'[c].paid >= charge'[c].amount
                    /\ charge'[c].status = "PARTIALLY_PAID" =>
                          charge'[c].paid < charge'[c].amount
                    /\ charge'[c].status = "PENDING" => charge'[c].paid = 0
  BY DEF StatusTracksBalance
<1> DEFINE Goal == /\ charge'[c].status = "PAID" => charge'[c].paid >= charge'[c].amount
                   /\ charge'[c].status = "PARTIALLY_PAID" =>
                         charge'[c].paid < charge'[c].amount
                   /\ charge'[c].status = "PENDING" => charge'[c].paid = 0
<1>1. /\ charge[c].paid \in Nat /\ charge[c].amount \in Nat
      /\ payment \in [Requests -> PaymentRow]
  BY DEF TypeInv, TypeOK, ChargeRow
<1>2. ASSUME SameMoney(c) PROVE Goal
  BY <1>2 DEF SameMoney, StatusTracksBalance
<1>3. ASSUME NEW a \in ChargeAmounts, Opening(c, a) PROVE Goal
  BY <1>3 DEF Opening
<1>4. ASSUME NEW r \in Requests, ManualCredit(r, c) PROVE Goal
  <2>1. payment'[r].gross \in Nat
    BY <1>4, AmountsAreNatural DEF ManualCredit
  <2>2. QED
    BY <1>1, <1>4, <2>1 DEF ManualCredit, PaidStatus
<1>5. ASSUME NEW t \in Requests, NEW p \in PaymentRefs, Reconciled(t, c, p) PROVE Goal
  <2>1. Approved(payment[t]) \in Nat /\ Approved(payment'[t]) \in Nat
    BY <1>1, <1>5, AmountsAreNatural DEF Approved, PaymentRow, Reconciled
  <2>2. CASE payment'[t].status = "APPROVED"
    BY <1>1, <1>5, <2>1, <2>2 DEF Reconciled, PaidStatus
  <2>3. CASE payment'[t].status # "APPROVED"
    <3>1. Approved(payment'[t]) = 0 /\ Approved(payment[t]) = 0
      BY <1>5, <2>1, <2>3 DEF Reconciled, Approved
    <3>2. SameMoney(c)
      BY <1>1, <1>5, <2>3, <3>1 DEF Reconciled, SameMoney
    <3>3. QED
      BY <1>2, <3>2
  <2>4. QED
    BY <2>2, <2>3
<1>6. QED
  BY <1>2, <1>3, <1>4, <1>5, StepEffects
  DEF Quiet, Opening, BareRecord, ManualCredit, Reconciled

LEMMA OneRecordStep ==
    TypeInv /\ OneReconciledRecord /\ [Next]_vars => OneReconciledRecord'
<1> SUFFICES ASSUME TypeInv, OneReconciledRecord, [Next]_vars
             PROVE  OneReconciledRecord'
  OBVIOUS
<1> DEFINE T(c, p) == {i \in Twins(c, p) : ~payment[i].byHand}
<1>1. payment \in [Requests -> PaymentRow]
  BY DEF TypeInv, TypeOK
<1>2. \A c \in Charges, p \in PaymentRefs : \A i, j \in T(c, p) : i = j
  BY DEF OneReconciledRecord
<1>3. CASE payment' = payment
  BY <1>3 DEF OneReconciledRecord, Twins
<1>4. ASSUME NEW r \in Requests, payment'[r].byHand,
             \A i \in Requests \ {r} : payment'[i] = payment[i]
      PROVE  OneReconciledRecord'
  BY <1>2, <1>4 DEF OneReconciledRecord, Twins
<1>5. ASSUME NEW t \in Requests, NEW c \in Charges, NEW p \in PaymentRefs,
             Reconciled(t, c, p)
      PROVE  OneReconciledRecord'
  <2>1. \A i \in Requests : payment'[i] = payment[i] \/ i = t
    BY <1>5 DEF Reconciled
  <2>2. payment'[t].charge = c /\ payment'[t].ref = p
    BY <1>5 DEF Reconciled
  <2>3. \A i \in Twins(c, p)' : i \in Twins(c, p) \/ i = t
    BY <2>1 DEF Twins
  <2>4. \A i, j \in Twins(c, p)' : i = j
    BY <1>5, <2>3 DEF Reconciled
  <2>5. ASSUME NEW d \in Charges, NEW q \in PaymentRefs, d # c \/ q # p
        PROVE  /\ Twins(d, q)' \subseteq Twins(d, q) /\ t \notin Twins(d, q)'
               /\ \A i \in Twins(d, q)' : payment'[i] = payment[i]
    BY <2>1, <2>2, <2>5 DEF Twins
  <2>6. QED
    BY <1>2, <2>4, <2>5 DEF OneReconciledRecord
<1>6. QED
  BY <1>3, <1>4, <1>5, StepEffects DEF Quiet, Opening, BareRecord, ManualCredit

LEMMA OverpaidStep ==
    TypeInv /\ OverpaidOnlyByHand /\ [Next]_vars => OverpaidOnlyByHand'
<1> SUFFICES ASSUME TypeInv, OverpaidOnlyByHand, [Next]_vars, NEW c \in Charges,
                    charge'[c].paid > charge'[c].amount
             PROVE  \E i \in Requests : /\ payment'[i].charge = c
                                        /\ payment'[i].status = "APPROVED"
                                        /\ payment'[i].byHand
  BY DEF OverpaidOnlyByHand, ApprovedOn
<1> DEFINE Goal == \E i \in Requests : /\ payment'[i].charge = c
                                       /\ payment'[i].status = "APPROVED"
                                       /\ payment'[i].byHand
<1>1. /\ charge[c].paid \in Nat /\ charge[c].amount \in Nat
      /\ payment \in [Requests -> PaymentRow]
  BY DEF TypeInv, TypeOK, ChargeRow
<1>2. ASSUME SameMoney(c)
      PROVE  \E i \in Requests : /\ payment[i].charge = c
                                 /\ payment[i].status = "APPROVED"
                                 /\ payment[i].byHand
  BY <1>2 DEF SameMoney, OverpaidOnlyByHand, ApprovedOn
<1>3. CASE Quiet
  BY <1>2, <1>3 DEF Quiet
<1>4. ASSUME NEW d \in Charges, NEW a \in ChargeAmounts, Opening(d, a) PROVE Goal
  BY <1>2, <1>4, AmountsAreNatural DEF Opening
<1>5. ASSUME NEW r \in Requests, BareRecord(r) PROVE Goal
  BY <1>2, <1>5 DEF BareRecord
<1>6. ASSUME NEW r \in Requests, NEW d \in Charges, ManualCredit(r, d) PROVE Goal
  BY <1>2, <1>6 DEF ManualCredit
<1>7. ASSUME NEW t \in Requests, NEW d \in Charges, NEW p \in PaymentRefs,
             Reconciled(t, d, p)
      PROVE  Goal
  <2>1. c # d
    <3>1. Approved(payment[t]) \in Nat /\ Approved(payment'[t]) \in Nat
      BY <1>1, <1>7, AmountsAreNatural DEF Approved, PaymentRow, Reconciled
    <3>2. c = d => charge'[c].paid <= charge'[c].amount /\ charge'[c].paid \in Int
      BY <1>1, <1>7, <3>1 DEF Reconciled
    <3>3. QED
      BY <1>1, <1>7, <3>2 DEF Reconciled
  <2>2. PICK i \in Requests : /\ payment[i].charge = c /\ payment[i].status = "APPROVED"
                              /\ payment[i].byHand
    BY <1>2, <1>7, <2>1 DEF Reconciled
  <2>3. i # t
    <3>1. t \in Twins(d, p) \/ payment[t].status = "NONE"
      BY <1>7 DEF Reconciled
    <3>2. QED
      BY <2>1, <2>2, <3>1 DEF Twins
  <2>4. QED
    BY <1>7, <2>2, <2>3 DEF Reconciled
<1>8. QED
  BY <1>3, <1>4, <1>5, <1>6, <1>7, StepEffects

\* Every reachable charge has the status its balance calls for.
THEOREM StatusCorrect == Spec => []StatusTracksBalance
<1>1. Init => StatusTracksBalance
  BY DEF Init, StatusTracksBalance, AbsentCharge
<1>2. QED
  BY <1>1, TypeInit, TypeStep, StatusStep, PTL DEF Spec

\* Reconciliation never records the same provider payment twice.
THEOREM ReconciledOnce == Spec => []OneReconciledRecord
<1>1. Init => OneReconciledRecord
  BY DEF Init, OneReconciledRecord, Twins, NoPayment
<1>2. QED
  BY <1>1, TypeInit, TypeStep, OneRecordStep, PTL DEF Spec

\* Reconciliation never takes a charge past its amount.
THEOREM OverpaidByHand == Spec => []OverpaidOnlyByHand
<1>1. Init => OverpaidOnlyByHand
  BY DEF Init, OverpaidOnlyByHand, AbsentCharge
<1>2. QED
  BY <1>1, TypeInit, TypeStep, OverpaidStep, PTL DEF Spec

-----------------------------------------------------------------------------
(***************************************************************************)
(* Action properties.                                                      *)
(***************************************************************************)
LEMMA SettledStep ==
    ASSUME TypeInv, AbsentIsEmpty, StatusTracksBalance, StatusTracksBalance', [Next]_vars,
           NEW c \in Charges
    PROVE  /\ charge[c].status = "PAID" => charge'[c].status = "PAID"
           /\ charge'[c].paid >= charge[c].paid
<1>1. /\ charge[c].paid \in Nat /\ charge[c].amount \in Nat
      /\ payment \in [Requests -> PaymentRow]
  BY DEF TypeInv, TypeOK, ChargeRow
<1>2. ASSUME SameMoney(c) PROVE charge'[c].status = charge[c].status
                               /\ charge'[c].paid >= charge[c].paid
  BY <1>1, <1>2 DEF SameMoney
<1>3. charge'[c].paid >= charge[c].paid
  <2>1. CASE charge[c].status = "ABSENT"
    <3>1. SameMoney(c) \/ charge'[c].paid = 0
      BY <2>1, StepEffects DEF Quiet, Opening, BareRecord, ManualCredit, Reconciled
    <3>2. QED
      BY <1>1, <1>2, <2>1, <3>1 DEF AbsentIsEmpty
  <2>2. QED
    BY <2>1, MoneyGrows
<1>4. ASSUME charge[c].status = "PAID" PROVE charge'[c].status = "PAID"
  <2>1. ASSUME NEW t \in Requests, NEW p \in PaymentRefs, Reconciled(t, c, p)
        PROVE  charge'[c].status = "PAID"
    <3>1. charge[c].paid >= charge[c].amount /\ charge'[c].amount = charge[c].amount
      BY <1>4, <2>1 DEF StatusTracksBalance, Reconciled
    <3>2. charge'[c].paid \in Nat
      <4>1. Approved(payment[t]) \in Nat /\ Approved(payment'[t]) \in Nat
        BY <1>1, <2>1, AmountsAreNatural DEF Approved, PaymentRow, Reconciled
      <4>2. QED
        BY <1>1, <2>1, <4>1 DEF Reconciled
    <3>3. PaidStatus(charge[c], charge'[c].paid) = "PAID"
      BY <1>1, <1>3, <3>1, <3>2 DEF PaidStatus
    <3>4. QED
      BY <1>4, <2>1, <3>3 DEF Reconciled
  <2>2. QED
    BY <1>2, <1>4, <2>1, StepEffects DEF Quiet, Opening, BareRecord, ManualCredit, Reconciled
<1>5. QED
  BY <1>3, <1>4

LEMMA AlwaysAbsentIsEmpty == Spec => []AbsentIsEmpty
<1>1. Init => AbsentIsEmpty
  BY DEF Init, AbsentIsEmpty, AbsentCharge
<1>2. QED
  BY <1>1, TypeInit, TypeStep, AbsentStep, PTL DEF Spec

\* A settled charge stays settled and no charge loses money, on every step.
THEOREM Settled == Spec => SettledStaysSettled
<1>1. /\ TypeInv /\ AbsentIsEmpty /\ StatusTracksBalance /\ StatusTracksBalance'
      /\ [Next]_vars
      => [\A c \in Charges :
             /\ charge[c].status = "PAID" => charge'[c].status = "PAID"
             /\ charge'[c].paid >= charge[c].paid]_vars
  BY SettledStep
<1>2. Spec => []TypeInv
  BY TypeInit, TypeStep, PTL DEF Spec
<1>3. QED
  BY <1>1, <1>2, AlwaysAbsentIsEmpty, StatusCorrect, PTL DEF Spec, SettledStaysSettled

LEMMA ApprovedStep ==
    ASSUME TypeInv, [Next]_vars, NEW i \in Requests,
           payment[i].status = "APPROVED", payment[i].gross > 0
    PROVE  /\ payment'[i].status = "APPROVED"
           /\ payment'[i].gross >= payment[i].gross
           /\ payment'[i].charge = payment[i].charge
<1>1. payment \in [Requests -> PaymentRow] /\ payment[i].gross \in Nat
  BY DEF TypeInv, TypeOK, PaymentRow
<1>2. CASE payment'[i] = payment[i]
  BY <1>1, <1>2
<1>3. ASSUME NEW c \in Charges, NEW p \in PaymentRefs, Reconciled(i, c, p)
      PROVE  /\ payment'[i].status = "APPROVED"
             /\ payment'[i].gross >= payment[i].gross
             /\ payment'[i].charge = payment[i].charge
  <2>1. i \in Twins(c, p)
    BY <1>3 DEF Reconciled
  <2>2. Approved(payment'[i]) >= payment[i].gross
    BY <1>3 DEF Reconciled, Approved
  <2>3. payment'[i].status = "APPROVED" /\ payment'[i].gross >= payment[i].gross
    BY <1>1, <2>2 DEF Approved
  <2>4. QED
    BY <1>3, <2>1, <2>3 DEF Reconciled, Twins
<1>4. QED
  BY <1>2, <1>3, StepEffects DEF Quiet, Opening, BareRecord, ManualCredit, Reconciled

\* Approved money stays approved, whatever the provider reports later.
THEOREM ApprovedFinal == Spec => ApprovedIsFinal
<1>1. TypeInv /\ [Next]_vars
      => [\A i \in Requests :
             /\ payment[i].status = "APPROVED"
             /\ payment[i].gross > 0
             => /\ payment'[i].status = "APPROVED"
                /\ payment'[i].gross >= payment[i].gross
                /\ payment'[i].charge = payment[i].charge]_vars
  BY ApprovedStep
<1>2. QED
  BY <1>1, TypeInit, TypeStep, PTL DEF Spec, ApprovedIsFinal

-----------------------------------------------------------------------------
(***************************************************************************)
(* A manual payment without partial payments settles its charge.  What was *)
(* checked before the transaction still holds when it commits, because the *)
(* money on a charge only grows.                                           *)
(***************************************************************************)
Checked(r) == pc[r] \in {"checked", "waiting", "locked"} /\ input[r].kind = "manual"

FullManual(in) == in.status = "APPROVED" /\ ~in.partialOk

CheckedSettles ==
    \A r \in Requests :
        Checked(r) /\ FullManual(input[r]) =>
            /\ charge[input[r].charge].status # "ABSENT"
            /\ input[r].gross >= charge[input[r].charge].amount - charge[input[r].charge].paid

\* A request is checked because it was, or because the check has just passed.
LEMMA BecomesChecked ==
    ASSUME TypeInv, [Next]_vars, NEW r \in Requests, Checked(r)'
    PROVE  /\ input'[r] = input[r]
           /\ Checked(r) \/ (pc[r] = "arrived" /\ CheckManual(r))
<1> USE DEF Checked
<1>1. /\ pc \in [Requests -> {"idle", "arrived", "checked", "waiting", "locked", "answered"}]
      /\ input \in [Requests -> Input] /\ view \in [Requests -> Snapshot]
  BY DEF TypeInv, TypeOK
<1>2. CASE UNCHANGED <<pc, input>>
  BY <1>2
<1>3. ASSUME NEW q \in Requests, End(q)
      PROVE  q # r /\ pc'[r] = pc[r] /\ input'[r] = input[r]
  BY <1>1, <1>3 DEF End
<1>4. ASSUME NEW q \in Requests, NEW in, Arrive(q, in)
      PROVE  q # r /\ pc'[r] = pc[r] /\ input'[r] = input[r]
  BY <1>1, <1>4 DEF Arrive
<1>5. ASSUME NEW q \in Requests, Arrivals(q)
      PROVE  pc'[r] = pc[r] /\ input'[r] = input[r]
  BY <1>3, <1>4, <1>5 DEF Arrivals, ArriveManual, ArriveMercadoPago, RecordUnlinkedPayment
<1>6. ASSUME NEW q \in Requests, CheckManual(q) \/ CheckMercadoPago(q)
      PROVE  /\ input'[r] = input[r]
             /\ pc'[r] = pc[r] \/ (pc[r] = "arrived" /\ CheckManual(r))
  <2>1. CASE End(q)
    BY <1>3, <2>1
  <2>2. CASE pc' = [pc EXCEPT ![q] = "checked"] /\ UNCHANGED <<input, view>>
    <3>1. CASE q = r
      BY <1>6, <2>2, <3>1 DEF CheckMercadoPago, CheckManual
    <3>2. CASE q # r
      BY <1>1, <2>2, <3>2
    <3>3. QED
      BY <3>1, <3>2
  <2>3. QED
    BY <1>6, <2>1, <2>2 DEF CheckManual, CheckMercadoPago
<1>7. ASSUME NEW q \in Requests, BeginTransaction(q) \/ AcquireChargePaymentLock(q)
      PROVE  input'[r] = input[r] /\ Checked(r)
  BY <1>1, <1>7 DEF BeginTransaction, AcquireChargePaymentLock
<1>8. ASSUME NEW q \in Requests,
             \/ MarkObserved(q) \/ RecordStudentPayment(q)
             \/ ReconcileMercadoPagoPayment(q) \/ RollBack(q) \/ Abandon(q)
      PROVE  pc'[r] = pc[r] /\ input'[r] = input[r]
  BY <1>3, <1>8 DEF MarkObserved, RecordStudentPayment, ReconcileMercadoPagoPayment,
                    RollBack, Abandon
<1>9. CASE UNCHANGED vars
  BY <1>2, <1>9 DEF vars
<1>10. CASE \E q \in Requests : Arrivals(q) \/ Progress(q) \/ Abandon(q)
  BY <1>5, <1>6, <1>7, <1>8, <1>10 DEF Progress
<1>11. CASE \/ \E c \in Charges, a \in ChargeAmounts, b \in Branches, m \in Currencies,
                  l \in BOOLEAN : CreateBillingCharge(c, a, b, m, l)
            \/ \E c \in Charges : AttachPreference(c)
            \/ \E b \in Branches, allow \in BOOLEAN : UpdateBillingPolicy(b, allow)
  BY <1>2, <1>11 DEF CreateBillingCharge, AttachPreference, UpdateBillingPolicy
<1>12. QED
  BY <1>9, <1>10, <1>11 DEF Next

LEMMA CheckedStep == TypeInv /\ CheckedSettles /\ [Next]_vars => CheckedSettles'
<1> SUFFICES ASSUME TypeInv, CheckedSettles, [Next]_vars, NEW r \in Requests,
                    Checked(r)', FullManual(input'[r])
             PROVE  /\ charge'[input'[r].charge].status # "ABSENT"
                    /\ input'[r].gross >= charge'[input'[r].charge].amount
                                          - charge'[input'[r].charge].paid
  BY DEF CheckedSettles
<1> DEFINE c == input[r].charge
<1>1. input'[r] = input[r] /\ (Checked(r) \/ (pc[r] = "arrived" /\ CheckManual(r)))
  BY BecomesChecked
<1>2. /\ c \in Charges /\ input[r].gross \in Nat
      /\ charge[c].paid \in Nat /\ charge[c].amount \in Nat
  BY <1>1, AmountsAreNatural
  DEF TypeInv, TypeOK, RequestsWellFormed, Busy, Checked, ChargeRow
<1>3. charge[c].status # "ABSENT" /\ input[r].gross >= charge[c].amount - charge[c].paid
  <2>1. CASE Checked(r)
    BY <1>1, <2>1 DEF CheckedSettles
  <2>2. CASE pc[r] = "arrived" /\ CheckManual(r)
    <3>1. ManualAllowed(input[r], charge[c])
      BY <2>2 DEF CheckManual, End, Checked, TypeInv, TypeOK
    <3>2. QED
      BY <1>1, <3>1 DEF ManualAllowed, FullManual
  <2>3. QED
    BY <1>1, <2>1, <2>2
<1>4. /\ charge'[c].status # "ABSENT" /\ charge'[c].amount = charge[c].amount
      /\ charge'[c].paid >= charge[c].paid
  BY <1>2, <1>3, MoneyGrows
<1>5. charge'[c].paid \in Nat
  BY <1>2, TypeStep DEF TypeInv, TypeOK, ChargeRow
<1>6. QED
  BY <1>1, <1>2, <1>3, <1>4, <1>5

LEMMA AlwaysCheckedSettles == Spec => []CheckedSettles
<1>1. Init => CheckedSettles
  BY DEF Init, CheckedSettles, Checked
<1>2. QED
  BY <1>1, TypeInit, TypeStep, CheckedStep, PTL DEF Spec

\* Only its own manual transaction touches the record of a manual request.
LEMMA OwnRecord ==
    ASSUME TypeInv, [Next]_vars, NEW r \in Requests, input[r].kind = "manual",
           payment'[r] # payment[r]
    PROVE  RecordStudentPayment(r)
<1>1. Busy(r) /\ payment[r] = NoPayment /\ payment \in [Requests -> PaymentRow]
  BY DEF TypeInv, TypeOK, RequestsWellFormed, Busy
<1>2. ASSUME NEW q \in Requests, ReconcileMercadoPagoPayment(q) PROVE FALSE
  <2> DEFINE t == IF view[q].twins = {} THEN q ELSE CHOOSE i \in view[q].twins : TRUE
  <2>1. view[q].twins = Twins(input[q].charge, input[q].ref) /\ input[q].kind = "mercado_pago"
    BY <1>2 DEF ReconcileMercadoPagoPayment, ReconcileCommits, Fresh, SnapshotOf
  <2>2. t # r
    BY <1>1, <2>1 DEF Twins, NoPayment
  <2>3. QED
    BY <1>1, <1>2, <2>2 DEF ReconcileMercadoPagoPayment
<1>3. ASSUME NEW q \in Requests, RecordStudentPayment(q) PROVE q = r
  BY <1>1, <1>3 DEF RecordStudentPayment
<1>4. ASSUME NEW q \in Requests, Arrivals(q) PROVE FALSE
  <2>1. PICK g \in GrossAmounts, s \in ManualStatuses : RecordUnlinkedPayment(q, g, s)
    BY <1>4 DEF Arrivals, ArriveManual, ArriveMercadoPago, Arrive
  <2>2. QED
    BY <1>1, <2>1 DEF RecordUnlinkedPayment, Busy
<1>5. ASSUME NEW q \in Requests,
             \/ CheckManual(q) \/ CheckMercadoPago(q) \/ MarkObserved(q)
             \/ BeginTransaction(q) \/ AcquireChargePaymentLock(q) \/ RollBack(q)
             \/ Abandon(q)
      PROVE  FALSE
  BY <1>5 DEF CheckManual, CheckMercadoPago, MarkObserved, BeginTransaction,
              AcquireChargePaymentLock, RollBack, Abandon
<1>6. CASE UNCHANGED vars
  BY <1>6 DEF vars
<1>7. CASE \/ \E c \in Charges, a \in ChargeAmounts, b \in Branches, m \in Currencies,
                 l \in BOOLEAN : CreateBillingCharge(c, a, b, m, l)
           \/ \E c \in Charges : AttachPreference(c)
           \/ \E b \in Branches, allow \in BOOLEAN : UpdateBillingPolicy(b, allow)
  BY <1>7 DEF CreateBillingCharge, AttachPreference, UpdateBillingPolicy
<1>8. CASE \E q \in Requests : Arrivals(q) \/ Progress(q) \/ Abandon(q)
  BY <1>2, <1>3, <1>4, <1>5, <1>8 DEF Progress
<1>9. QED
  BY <1>6, <1>7, <1>8 DEF Next

LEMMA SettlesStep ==
    ASSUME TypeInv, CheckedSettles, [Next]_vars, NEW r \in Requests,
           payment'[r] # payment[r], input[r].kind = "manual", FullManual(input[r])
    PROVE  charge'[input[r].charge].status = "PAID"
<1> DEFINE c == input[r].charge
           paid == charge[c].paid + input[r].gross
<1>1. RecordStudentPayment(r)
  BY OwnRecord
<1>2. /\ c \in Charges /\ charge \in [Charges -> ChargeRow] /\ input[r].gross \in Nat
      /\ charge[c].paid \in Nat /\ charge[c].amount \in Nat
      /\ Checked(r)
  BY <1>1, AmountsAreNatural
  DEF RecordStudentPayment, TypeInv, TypeOK, RequestsWellFormed, Busy, Checked, ChargeRow
<1>3. paid >= charge[c].amount
  BY <1>2 DEF CheckedSettles
<1>4. view[r].row = charge[c]
  BY <1>1 DEF RecordStudentPayment, ManualCommits, Fresh, SnapshotOf, FullManual
<1>5. charge' = [charge EXCEPT ![c] =
                    Credited(charge[c], input[r].gross, PaidStatus(charge[c], paid))]
  BY <1>1, <1>4 DEF RecordStudentPayment, FullManual
<1>6. PaidStatus(charge[c], paid) = "PAID"
  BY <1>3 DEF PaidStatus
<1>7. charge'[c] = Credited(charge[c], input[r].gross, "PAID")
  BY <1>2, <1>5, <1>6
<1>8. charge[c] \in ChargeRow /\ "PAID" \in ChargeStatuses
  BY <1>2 DEF TypeInv, TypeOK, ChargeStatuses
<1>9. Credited(charge[c], input[r].gross, "PAID").status = "PAID"
  <2> HIDE DEF c, paid
  <2>1. QED
    BY <1>2, <1>8, CreditedRow
<1>10. QED
  BY <1>7, <1>9

\* A manual payment made under a policy without partial payments settles its
\* charge, whatever was committed between its check and its transaction.
THEOREM ManualSettles == Spec => ManualPaymentSettles
<1>1. TypeInv /\ CheckedSettles /\ [Next]_vars
      => [\A r \in Requests :
             /\ payment'[r] # payment[r]
             /\ input[r].kind = "manual"
             /\ input[r].status = "APPROVED"
             /\ ~input[r].partialOk
             => charge'[input[r].charge].status = "PAID"]_vars
  BY SettlesStep DEF FullManual
<1>2. QED
  BY <1>1, TypeInit, TypeStep, AlwaysCheckedSettles, PTL DEF Spec, ManualPaymentSettles

-----------------------------------------------------------------------------
(***************************************************************************)
(* The concurrent requests implement ChargeLedger.  Every commit is one    *)
(* atomic step of the ledger; the reads, the waits, the aborts and the     *)
(* records that credit nothing are stuttering steps.                       *)
(***************************************************************************)
\* The refinement mapping, named.
Exists == {c \in Charges : charge[c].status # "ABSENT"}
Due == [c \in Charges |-> charge[c].amount]
Paid == [c \in Charges |-> charge[c].paid]
CreditOf(c, i) == IF payment[i].charge = c THEN Approved(payment[i]) ELSE 0
Credit == [c \in Charges |-> [i \in Requests |-> CreditOf(c, i)]]

Mapped == <<Exists, Due, Paid, Credit>>

LEMMA InitMaps == Init => Ledger!LedgerInit
<1> SUFFICES ASSUME Init PROVE Ledger!LedgerInit
  OBVIOUS
<1>1. Exists = {} /\ Due = [c \in Charges |-> 0] /\ Paid = [c \in Charges |-> 0]
  BY DEF Init, AbsentCharge, Exists, Due, Paid
<1>2. Credit = [c \in Charges |-> [s \in Requests |-> 0]]
  <2>1. \A c \in Charges, i \in Requests : CreditOf(c, i) = 0
    BY NoneIsNoValue DEF Init, NoPayment, CreditOf
  <2>2. QED
    BY <2>1 DEF Credit
<1>3. QED
  BY <1>1, <1>2 DEF Ledger!LedgerInit, Exists, Due, Paid, Credit, CreditOf

\* Where no row of the ledger changes, nothing of it does.
LEMMA RowsKept ==
    ASSUME \A c \in Charges : SameMoney(c),
           \A c \in Charges, i \in Requests : CreditOf(c, i)' = CreditOf(c, i)
    PROVE  Mapped' = Mapped
BY DEF Mapped, Exists, Due, Paid, Credit, SameMoney

LEMMA OpeningMaps ==
    ASSUME TypeInv, AbsentIsEmpty, NEW c \in Charges, NEW a \in ChargeAmounts, Opening(c, a)
    PROVE  Ledger!Open(c, a)
<1>1. c \notin Exists /\ Exists' = Exists \cup {c}
  BY DEF Opening, Exists, SameMoney
<1>2. Due' = [Due EXCEPT ![c] = a]
  BY DEF Opening, Due, SameMoney
<1>3. Paid' = Paid
  BY DEF Opening, Paid, SameMoney, AbsentIsEmpty
<1>4. Credit' = Credit
  BY DEF Opening, Credit, CreditOf
<1>5. QED
  BY <1>1, <1>2, <1>3, <1>4 DEF Ledger!Open, Exists, Due, Paid, Credit, CreditOf

\* One source of one charge takes a new credit, and the balance follows.
LEMMA SettleMaps ==
    ASSUME TypeInv, NEW c \in Charges, NEW s \in Requests, NEW g \in Nat,
           charge[c].status # "ABSENT", charge'[c].status # "ABSENT",
           charge'[c].amount = charge[c].amount,
           charge'[c].paid = charge[c].paid + (g - CreditOf(c, s)),
           \A d \in Charges \ {c} : SameMoney(d),
           \A d \in Charges, i \in Requests :
              CreditOf(d, i)' = IF d = c /\ i = s THEN g ELSE CreditOf(d, i)
    PROVE  Ledger!Settle(c, s, g)
<1>1. c \in Exists /\ Exists' = Exists
  BY DEF Exists, SameMoney
<1>2. Due' = Due
  BY DEF Due, SameMoney
<1>3. Credit[c][s] = CreditOf(c, s)
  BY DEF Credit
<1>4. Paid' = [Paid EXCEPT ![c] = Paid[c] + (g - Credit[c][s])]
  BY <1>3 DEF Paid, SameMoney
<1>5. Credit' = [Credit EXCEPT ![c] = [Credit[c] EXCEPT ![s] = g]]
  BY DEF Credit
<1>6. QED
  BY <1>1, <1>2, <1>4, <1>5 DEF Ledger!Settle, Exists, Due, Paid, Credit, CreditOf

LEMMA ManualCreditMaps ==
    ASSUME TypeInv, NEW r \in Requests, NEW c \in Charges, ManualCredit(r, c)
    PROVE  \E g \in GrossAmounts : Ledger!CollectByHand(c, r, g)
<1>1. PICK g \in GrossAmounts : g = payment'[r].gross /\ g \in Nat
  BY AmountsAreNatural DEF ManualCredit
<1>2. \A d \in Charges : CreditOf(d, r) = 0
  BY DEF ManualCredit, CreditOf, Approved
<1>3. \A d \in Charges, i \in Requests :
         CreditOf(d, i)' = IF d = c /\ i = r THEN g ELSE CreditOf(d, i)
  <2>1. \A d \in Charges, i \in Requests \ {r} : CreditOf(d, i)' = CreditOf(d, i)
    BY DEF ManualCredit, CreditOf
  <2>2. \A d \in Charges : CreditOf(d, r)' = IF d = c THEN g ELSE 0
    BY <1>1 DEF ManualCredit, CreditOf, Approved
  <2>3. QED
    BY <1>1, <1>2, <2>1, <2>2
<1>4. charge[c].paid \in Nat /\ charge'[c].paid = charge[c].paid + (g - CreditOf(c, r))
  BY <1>1, <1>2 DEF ManualCredit, TypeInv, TypeOK, ChargeRow
<1>5. charge'[c].status # "ABSENT"
  BY DEF ManualCredit, PaidStatus
<1>6. Ledger!Settle(c, r, g)
  BY <1>1, <1>3, <1>4, <1>5, SettleMaps DEF ManualCredit
<1>7. Paid[c] < Due[c] /\ Credit[c][r] = 0
  BY <1>2 DEF Paid, Due, Credit, ManualCredit
<1>8. QED
  <2>1. Ledger!CollectByHand(c, r, g)
    BY <1>6, <1>7 DEF Ledger!CollectByHand, Paid, Due, Credit, CreditOf
  <2>2. QED
    BY <2>1

LEMMA ReconciledMaps ==
    ASSUME TypeInv, NEW t \in Requests, NEW c \in Charges, NEW p \in PaymentRefs,
           Reconciled(t, c, p)
    PROVE  \/ Mapped' = Mapped
           \/ \E g \in GrossAmounts : Ledger!Reconcile(c, t, g)
<1>1. /\ payment[t] \in PaymentRow /\ charge[c].paid \in Nat /\ charge[c].amount \in Nat
      /\ payment'[t].gross \in GrossAmounts /\ payment'[t].gross \in Nat
  BY AmountsAreNatural DEF TypeInv, TypeOK, ChargeRow, Reconciled
<1>2. Approved(payment[t]) \in Nat /\ Approved(payment'[t]) \in Nat
  BY <1>1 DEF Approved, PaymentRow
\* The record was absent, or already on this charge.
<1>3. \A d \in Charges : CreditOf(d, t) = IF d = c THEN Approved(payment[t]) ELSE 0
  <2>1. payment[t].status = "NONE" \/ t \in Twins(c, p)
    BY DEF Reconciled
  <2>2. payment[t].status = "NONE" \/ payment[t].charge = c
    BY <2>1 DEF Twins
  <2>3. QED
    BY <2>2 DEF CreditOf, Approved
<1>4. \A d \in Charges : CreditOf(d, t)' = IF d = c THEN Approved(payment'[t]) ELSE 0
  BY DEF CreditOf, Reconciled
<1>5. \A d \in Charges, i \in Requests \ {t} : CreditOf(d, i)' = CreditOf(d, i)
  BY DEF CreditOf, Reconciled
<1>6. CASE payment'[t].status = "APPROVED"
  <2>1. PICK g \in GrossAmounts : g = Approved(payment'[t]) /\ g \in Nat
    BY <1>1, <1>6 DEF Approved
  <2>2. \A d \in Charges, i \in Requests :
           CreditOf(d, i)' = IF d = c /\ i = t THEN g ELSE CreditOf(d, i)
    BY <1>3, <1>4, <1>5, <2>1
  <2>3. charge'[c].paid = charge[c].paid + (g - CreditOf(c, t))
    BY <1>3, <2>1 DEF Reconciled
  <2>4. Ledger!Settle(c, t, g)
    <3>1. charge'[c].status # "ABSENT"
      BY <1>6 DEF Reconciled, PaidStatus
    <3>2. QED
      BY <2>1, <2>2, <2>3, <3>1, SettleMaps DEF Reconciled
  <2>5. g >= Credit[c][t] /\ Paid[c] + (g - Credit[c][t]) <= Due[c]
    <3>1. Credit[c][t] = Approved(payment[t]) /\ Paid[c] = charge[c].paid
          /\ Due[c] = charge[c].amount
      BY <1>3 DEF Credit, Paid, Due
    <3>2. QED
      BY <2>1, <3>1 DEF Reconciled
  <2>6. Ledger!Reconcile(c, t, g)
    BY <2>4, <2>5 DEF Ledger!Reconcile, Paid, Due, Credit, CreditOf
  <2>7. QED
    BY <2>6
<1>7. CASE payment'[t].status # "APPROVED"
  <2>1. Approved(payment'[t]) = 0
    BY <1>7 DEF Approved
  <2>2. Approved(payment[t]) = 0
    BY <1>2, <2>1 DEF Reconciled
  <2>3. \A d \in Charges : SameMoney(d)
    BY <1>1, <1>7, <2>1, <2>2 DEF Reconciled, SameMoney
  <2>4. \A d \in Charges, i \in Requests : CreditOf(d, i)' = CreditOf(d, i)
    BY <1>3, <1>4, <1>5, <2>1, <2>2
  <2>5. QED
    BY <2>3, <2>4, RowsKept
<1>8. QED
  BY <1>6, <1>7

LEMMA StepMaps ==
    TypeInv /\ AbsentIsEmpty /\ [Next]_vars => [Ledger!LedgerNext]_(Ledger!ledgerVars)
<1> SUFFICES ASSUME TypeInv, AbsentIsEmpty, [Next]_vars
             PROVE  [Ledger!LedgerNext]_(Ledger!ledgerVars)
  OBVIOUS
<1>1. Mapped = Ledger!ledgerVars
  BY DEF Mapped, Ledger!ledgerVars, Exists, Due, Paid, Credit, CreditOf
<1>2. CASE Quiet
  <2>1. Mapped' = Mapped
    BY <1>2, RowsKept DEF Quiet, CreditOf
  <2>2. QED
    BY <2>1 DEF Mapped, Ledger!ledgerVars, Exists, Due, Paid, Credit, CreditOf
<1>3. ASSUME NEW r \in Requests, BareRecord(r) PROVE Mapped' = Mapped
  <2>1. \A c \in Charges, i \in Requests : CreditOf(c, i)' = CreditOf(c, i)
    <3>1. \A c \in Charges : CreditOf(c, r) = 0 /\ CreditOf(c, r)' = 0
      BY <1>3 DEF BareRecord, CreditOf, Approved
    <3>2. \A c \in Charges, i \in Requests \ {r} : CreditOf(c, i)' = CreditOf(c, i)
      BY <1>3 DEF BareRecord, CreditOf
    <3>3. QED
      BY <3>1, <3>2
  <2>2. QED
    BY <1>3, <2>1, RowsKept DEF BareRecord
<1>4. ASSUME NEW c \in Charges, NEW a \in ChargeAmounts, Opening(c, a)
      PROVE  Ledger!LedgerNext
  BY <1>4, OpeningMaps DEF Ledger!LedgerNext
<1>5. ASSUME NEW r \in Requests, NEW c \in Charges, ManualCredit(r, c)
      PROVE  Ledger!LedgerNext
  BY <1>5, ManualCreditMaps DEF Ledger!LedgerNext
<1>6. ASSUME NEW t \in Requests, NEW c \in Charges, NEW p \in PaymentRefs,
             Reconciled(t, c, p)
      PROVE  Ledger!LedgerNext \/ Mapped' = Mapped
  BY <1>6, ReconciledMaps DEF Ledger!LedgerNext
<1>7. Quiet \/ Ledger!LedgerNext \/ Mapped' = Mapped
  BY <1>3, <1>4, <1>5, <1>6, StepEffects
<1>8. CASE Mapped' = Mapped
  BY <1>8 DEF Mapped, Ledger!ledgerVars, Exists, Due, Paid, Credit, CreditOf
<1>9. QED
  BY <1>2, <1>7, <1>8

\* The concurrent requests implement the atomic ledger.
THEOREM Implements == Spec => ImplementsLedger
<1>1. Spec => []TypeInv
  BY TypeInit, TypeStep, PTL DEF Spec
<1>2. QED
  BY <1>1, InitMaps, StepMaps, AlwaysAbsentIsEmpty, PTL
  DEF Spec, ImplementsLedger, Ledger!LedgerSpec

-----------------------------------------------------------------------------
(***************************************************************************)
(* The balance is the sum of the approved records.  Sums are counted: the  *)
(* records of a set are worth as many units of money as there are pairs of *)
(* a record and a number up to its amount.  Units of a set of pairs obey   *)
(* the laws of finite sets, with no recursion to unfold; that the sum of   *)
(* the library is their number is shown once, by well-founded induction on *)
(* the subsets of the set.                                                 *)
(***************************************************************************)
\* The units of money in the records S of p: as many as S sums up to.
Units(p, S) == UNION {{i} \X (1..p[i].gross) : i \in S}

\* A set without one of its elements has that many units less.
LEMMA UnitsSplit ==
    ASSUME NEW p, NEW S, IsFiniteSet(S), \A i \in S : p[i].gross \in Nat,
           NEW x \in S, IsFiniteSet(Units(p, S \ {x}))
    PROVE  /\ IsFiniteSet(Units(p, S))
           /\ Cardinality(Units(p, S)) = p[x].gross + Cardinality(Units(p, S \ {x}))
<1> DEFINE rest == Units(p, S \ {x})
           own == {x} \X (1..p[x].gross)
<1>0. PICK n \in Nat : n = p[x].gross
  OBVIOUS
<1>1. /\ IsFiniteSet({x}) /\ Cardinality({x}) = 1
      /\ IsFiniteSet(1..n) /\ Cardinality(1..n) = n
  <2>1. IsFiniteSet(1..n) /\ Cardinality(1..n) = IF 1 > n THEN 0 ELSE n - 1 + 1
    BY FS_Interval
  <2>2. IsFiniteSet({x}) /\ Cardinality({x}) = 1
    BY FS_Singleton
  <2>3. Cardinality(1..n) = n
    BY <2>1
  <2> QED
    BY <2>1, <2>2, <2>3
<1>2. IsFiniteSet(own) /\ Cardinality(own) = p[x].gross
  <2>1. IsFiniteSet({x} \X (1..n)) /\ Cardinality({x} \X (1..n)) = 1 * n
    <3>1. \A A, B : IsFiniteSet(A) /\ IsFiniteSet(B) =>
             IsFiniteSet(A \X B) /\ Cardinality(A \X B) = Cardinality(A) * Cardinality(B)
      BY FS_Product
    <3> HIDE DEF own, rest
    <3>2. IsFiniteSet({x} \X (1..n)) /\ Cardinality({x} \X (1..n)) = Cardinality({x}) * Cardinality(1..n)
      BY <1>1, <3>1, Zenon
    <3> QED
      BY <1>1, <3>2
  <2> QED
    BY <1>0, <2>1
<1>3. Units(p, S) = rest \cup own /\ rest \cap own = {}
  BY DEF Units
<1>4. Cardinality(rest \cap own) = 0
  BY <1>3, FS_EmptySet
<1>5. Cardinality(rest) \in Nat
  BY FS_CardinalityType
<1> HIDE DEF rest, own
<1>6. /\ IsFiniteSet(rest \cup own)
      /\ Cardinality(rest \cup own)
            = Cardinality(rest) + Cardinality(own) - Cardinality(rest \cap own)
  BY <1>2, FS_Union DEF rest
<1>7. QED
  BY <1>2, <1>3, <1>4, <1>5, <1>6 DEF rest

\* What holds of a set of finite subsets closed under adding an element holds
\* of every finite set: induction on finite sets, stated for a set.
LEMMA FiniteSubsets ==
    ASSUME NEW S, IsFiniteSet(S), NEW good \in SUBSET SUBSET S, {} \in good,
           \A T \in SUBSET S : (\A x \in T : T \ {x} \in good) => T = {} \/ T \in good
    PROVE  good = SUBSET S
<1> DEFINE bad == (SUBSET S) \ good
<1> SUFFICES ASSUME bad # {} PROVE FALSE
  OBVIOUS
<1>1. bad \subseteq FiniteSubsetsOf(S)
  BY FS_FiniteSubsetsOfFinite
<1>2. PICK T \in bad : \A U \in bad : <<U, T>> \notin StrictSubsetOrdering(S)
  <2>1. IsWellFoundedOn(StrictSubsetOrdering(S), FiniteSubsetsOf(S))
    BY FS_StrictSubsetOrderingWellFounded
  <2> HIDE DEF bad
  <2>2. \E T \in bad : \A U \in bad : ~(<<U, T>> \in StrictSubsetOrdering(S))
    BY <1>1, <2>1, WFMin
  <2> QED
    BY <2>2
<1>3. \A x \in T : <<T \ {x}, T>> \in StrictSubsetOrdering(S)
  BY <1>2 DEF StrictSubsetOrdering
<1>4. \A x \in T : T \ {x} \in good
  BY <1>2, <1>3
<1>5. QED
  BY <1>2, <1>4

LEMMA UnitsFinite ==
    ASSUME NEW p, NEW S, IsFiniteSet(S), \A i \in S : p[i].gross \in Nat
    PROVE  \A T \in SUBSET S : IsFiniteSet(T) /\ IsFiniteSet(Units(p, T))
<1> DEFINE good == {T \in SUBSET S : IsFiniteSet(Units(p, T))}
<1>1. \A T \in SUBSET S : IsFiniteSet(T)
  BY FS_Subset
<1>2. Units(p, {}) = {}
  BY DEF Units
<1>3. {} \in good
  BY <1>2, FS_EmptySet
<1>4. \A T \in SUBSET S : \A x \in T : T \ {x} \in good => T \in good
  BY <1>1, UnitsSplit
<1> HIDE DEF good
<1>5. good = SUBSET S
  <2>1. good \in SUBSET SUBSET S
    BY DEF good
  <2>2. \A T \in SUBSET S : (\A x \in T : T \ {x} \in good) => T = {} \/ T \in good
    BY <1>4
  <2>3. QED
    BY <1>3, <2>1, <2>2, FiniteSubsets
<1>6. QED
  BY <1>1, <1>5 DEF good

\* The sum that the library computes by recursion over the set is the number of
\* its units, whatever the order in which elements are chosen.
LEMMA SumCountsUnits ==
    ASSUME NEW p, NEW S, IsFiniteSet(S), \A i \in S : p[i].gross \in Nat
    PROVE  MapThenSumSet(LAMBDA i : p[i].gross, S) = Cardinality(Units(p, S))
<1> DEFINE Pick(T) == CHOOSE x \in T : TRUE
           Body(g) == [T \in SUBSET S |->
                          IF T = {} THEN 0 ELSE p[Pick(T)].gross + g[T \ {Pick(T)}]]
           count == [T \in SUBSET S |-> Cardinality(Units(p, T))]
           sum == CHOOSE g : g = Body(g)
<1>1. MapThenSumSet(LAMBDA i : p[i].gross, S) = sum[S]
  BY DEF MapThenSumSet, MapThenFoldSet
<1>2. \A T \in SUBSET S : T # {} => Pick(T) \in T
  OBVIOUS
<1>3. \A T \in SUBSET S : \A x \in T : count[T] = p[x].gross + count[T \ {x}]
  <2> SUFFICES ASSUME NEW T \in SUBSET S, NEW x \in T
               PROVE  count[T] = p[x].gross + count[T \ {x}]
    OBVIOUS
  <2>1. IsFiniteSet(T) /\ IsFiniteSet(Units(p, T \ {x}))
    BY UnitsFinite
  <2>2. Cardinality(Units(p, T)) = p[x].gross + Cardinality(Units(p, T \ {x}))
    BY <2>1, UnitsSplit
  <2> QED
    BY <2>2
<1>4. count[{}] = 0
  BY FS_EmptySet DEF Units
<1>5. \A T \in SUBSET S : count[T] =
          IF T = {} THEN 0 ELSE p[Pick(T)].gross + count[T \ {Pick(T)}]
  <2> HIDE DEF count
  <2> QED
    BY <1>2, <1>3, <1>4
<1>6. count = Body(count)
  <2>1. count = [T \in SUBSET S |-> count[T]]
    OBVIOUS
  <2> HIDE DEF count
  <2> QED
    BY <1>5, <2>1
<1>7. sum = Body(sum)
  BY <1>6
<1> DEFINE good == {T \in SUBSET S : sum[T] = count[T]}
<1>8. \A T \in SUBSET S : sum[T] =
          IF T = {} THEN 0 ELSE p[Pick(T)].gross + sum[T \ {Pick(T)}]
  <2> HIDE DEF sum
  <2> QED
    BY <1>7
<1>9. good = SUBSET S
  <2> HIDE DEF sum, count
  <2>1. good \in SUBSET SUBSET S /\ {} \in good
    BY <1>4, <1>8
  <2>2. \A T \in SUBSET S : (\A x \in T : T \ {x} \in good) => T = {} \/ T \in good
    BY <1>2, <1>5, <1>8
  <2> HIDE DEF good
  <2> QED
    BY <2>1, <2>2, FiniteSubsets
<1>10. sum[S] = count[S]
  BY <1>9
<1> QED
  BY <1>1, <1>10

\* The units that the sources of charge c have settled on it.
CreditUnits(c) == UNION {{i} \X (1..Credit[c][i]) : i \in Requests}

Counted ==
    \A c \in Charges :
        /\ IsFiniteSet(ApprovedOn(c))
        /\ IsFiniteSet(CreditUnits(c))
        /\ charge[c].paid = Cardinality(CreditUnits(c))

LEMMA CreditTyped ==
    ASSUME TypeInv
    PROVE  /\ Credit \in [Charges -> [Requests -> Nat]]
           /\ \A c \in Charges, i \in Requests : Credit[c][i] = CreditOf(c, i)
BY DEF TypeInv, TypeOK, PaymentRow, Credit, CreditOf, Approved

LEMMA CountedInit == Init => Counted
<1> SUFFICES ASSUME Init, NEW c \in Charges
             PROVE  /\ IsFiniteSet(ApprovedOn(c)) /\ IsFiniteSet(CreditUnits(c))
                    /\ charge[c].paid = Cardinality(CreditUnits(c))
  BY DEF Counted
<1>1. ApprovedOn(c) = {} /\ \A i \in Requests : Credit[c][i] = 0
  BY DEF Init, NoPayment, ApprovedOn, Credit, CreditOf, Approved
<1>2. CreditUnits(c) = {}
  BY <1>1 DEF CreditUnits
<1>3. QED
  BY <1>1, <1>2, FS_EmptySet DEF Init, AbsentCharge

\* A step approves one record at most.
LEMMA ApprovedStaysFinite ==
    ASSUME TypeInv, [Next]_vars, NEW c \in Charges, IsFiniteSet(ApprovedOn(c))
    PROVE  IsFiniteSet(ApprovedOn(c)')
<1>1. \E x : \A i \in Requests : i # x => payment'[i] = payment[i]
  BY StepEffects DEF Quiet, Opening, BareRecord, ManualCredit, Reconciled
<1>2. PICK x : \A i \in Requests : i # x => payment'[i] = payment[i]
  BY <1>1
<1>3. ApprovedOn(c)' \in SUBSET (ApprovedOn(c) \cup {x})
  BY <1>2 DEF ApprovedOn
<1>4. IsFiniteSet(ApprovedOn(c) \cup {x})
  BY FS_AddElement
<1>5. QED
  BY <1>3, <1>4, FS_Subset

\* What a source adds to its credit is what the charge gains in units.
LEMMA SettleCounts ==
    ASSUME TypeInv, Counted, NEW c \in Charges, NEW s \in Requests, NEW g \in Nat,
           g >= Credit[c][s],
           Credit' = [Credit EXCEPT ![c] = [Credit[c] EXCEPT ![s] = g]]
    PROVE  /\ IsFiniteSet(CreditUnits(c)')
           /\ Cardinality(CreditUnits(c)')
                 = Cardinality(CreditUnits(c)) + (g - Credit[c][s])
<1>1. PICK old \in Nat : old = Credit[c][s]
  BY CreditTyped
<1>2. /\ Credit'[c][s] = g
      /\ \A i \in Requests \ {s} : Credit'[c][i] = Credit[c][i]
  BY CreditTyped
<1> DEFINE new == {s} \X ((old + 1)..g)
<1>3. CreditUnits(c)' = CreditUnits(c) \cup new
  <2>1. \A i \in Requests : {i} \X (1..Credit'[c][i])
           = ({i} \X (1..Credit[c][i])) \cup (IF i = s THEN new ELSE {})
    BY <1>1, <1>2
  <2> HIDE DEF new
  <2>2. QED
    BY <2>1 DEF CreditUnits
<1>4. CreditUnits(c) \cap new = {}
  BY <1>1 DEF CreditUnits
<1>5. IsFiniteSet(new) /\ Cardinality(new) = g - old
  <2>1. \A a, b \in Int : /\ IsFiniteSet(a..b)
                          /\ Cardinality(a..b) = IF a > b THEN 0 ELSE b - a + 1
    BY FS_Interval
  <2>2. old + 1 \in Int /\ g \in Int /\ g >= old
    BY <1>1
  <2> HIDE DEF new
  <2>3. /\ IsFiniteSet((old + 1)..g)
        /\ Cardinality((old + 1)..g) = g - old
    BY <2>1, <2>2, SMTT(30)
  <2>4. IsFiniteSet({s}) /\ Cardinality({s}) = 1
    BY FS_Singleton
  <2>5. \A A, B : IsFiniteSet(A) /\ IsFiniteSet(B) =>
           IsFiniteSet(A \X B) /\ Cardinality(A \X B) = Cardinality(A) * Cardinality(B)
    BY FS_Product
  <2>6. /\ IsFiniteSet(new)
        /\ Cardinality(new) = Cardinality({s}) * Cardinality((old + 1)..g)
    BY <2>3, <2>4, <2>5, Zenon DEF new
  <2>7. QED
    BY <1>1, <2>2, <2>3, <2>4, <2>6
<1>6. IsFiniteSet(CreditUnits(c)) /\ Cardinality(CreditUnits(c)) \in Nat
  BY FS_CardinalityType DEF Counted
<1> HIDE DEF new
<1>7. /\ IsFiniteSet(CreditUnits(c) \cup new)
      /\ Cardinality(CreditUnits(c) \cup new) = Cardinality(CreditUnits(c))
            + Cardinality(new) - Cardinality(CreditUnits(c) \cap new)
  BY <1>5, <1>6, FS_Union
<1>8. Cardinality(CreditUnits(c) \cap new) = 0
  BY <1>4, FS_EmptySet
<1>9. QED
  BY <1>1, <1>3, <1>5, <1>6, <1>7, <1>8

\* The ledger keeps the count: so does what implements it.
LEMMA CountedStep ==
    TypeInv /\ AbsentIsEmpty /\ Counted /\ [Next]_vars => Counted'
<1> SUFFICES ASSUME TypeInv, AbsentIsEmpty, Counted, [Next]_vars
             PROVE  Counted'
  OBVIOUS
<1>1. \A c \in Charges : IsFiniteSet(ApprovedOn(c)')
  BY ApprovedStaysFinite DEF Counted
<1>2. [Ledger!LedgerNext]_(Ledger!ledgerVars)
  BY StepMaps
<1>3. ASSUME \A c \in Charges : Paid'[c] = Paid[c], Credit' = Credit
      PROVE  Counted'
  <2>1. \A c \in Charges : charge'[c].paid = charge[c].paid
    BY <1>3 DEF Paid
  <2>2. \A c \in Charges : CreditUnits(c)' = CreditUnits(c)
    BY <1>3 DEF CreditUnits
  <2>3. QED
    BY <1>1, <2>1, <2>2 DEF Counted
<1>4. ASSUME NEW c \in Charges, NEW s \in Requests, NEW g \in Nat,
             Ledger!Settle(c, s, g), g >= Credit[c][s]
      PROVE  Counted'
  <2>1. /\ Credit' = [Credit EXCEPT ![c] = [Credit[c] EXCEPT ![s] = g]]
        /\ Paid' = [Paid EXCEPT ![c] = Paid[c] + (g - Credit[c][s])]
    BY <1>4 DEF Ledger!Settle, Paid, Credit, CreditOf
  <2>2. \A d \in Charges \ {c} : CreditUnits(d)' = CreditUnits(d)
    <3>1. \A d \in Charges \ {c} : Credit'[d] = Credit[d]
      BY <2>1, CreditTyped
    <3>2. QED
      BY <3>1 DEF CreditUnits
  <2>3. /\ charge'[c].paid = charge[c].paid + (g - Credit[c][s])
        /\ \A d \in Charges \ {c} : charge'[d].paid = charge[d].paid
    BY <2>1 DEF Paid
  <2>4. /\ IsFiniteSet(CreditUnits(c)')
        /\ Cardinality(CreditUnits(c)') = Cardinality(CreditUnits(c)) + (g - Credit[c][s])
    BY <1>4, <2>1, SettleCounts
  <2>5. QED
    BY <1>1, <2>2, <2>3, <2>4 DEF Counted
<1>5. ASSUME NEW c \in Charges, NEW a \in ChargeAmounts, Ledger!Open(c, a)
      PROVE  Counted'
  BY <1>3, <1>5 DEF Ledger!Open, Paid, Credit, CreditOf
<1>6. ASSUME NEW c \in Charges, NEW s \in Requests, NEW g \in GrossAmounts,
             Ledger!CollectByHand(c, s, g) \/ Ledger!Reconcile(c, s, g)
      PROVE  Counted'
  <2>1. g \in Nat /\ g >= Credit[c][s] /\ Ledger!Settle(c, s, g)
    BY <1>6, AmountsAreNatural
    DEF Ledger!CollectByHand, Ledger!Reconcile, Credit, CreditOf
  <2>2. QED
    BY <1>4, <2>1
<1>7. CASE Mapped' = Mapped
  BY <1>3, <1>7 DEF Mapped
<1>8. QED
  BY <1>2, <1>5, <1>6, <1>7
  DEF Ledger!LedgerNext, Ledger!ledgerVars, Mapped, Exists, Due, Paid, Credit, CreditOf

LEMMA CountIsSum == TypeInv /\ Counted => LedgerConservation
<1> SUFFICES ASSUME TypeInv, Counted, NEW c \in Charges
             PROVE  charge[c].paid =
                       MapThenSumSet(LAMBDA i : payment[i].gross, ApprovedOn(c))
  BY DEF LedgerConservation
<1>1. IsFiniteSet(ApprovedOn(c)) /\ \A i \in ApprovedOn(c) : payment[i].gross \in Nat
  BY DEF Counted, TypeInv, TypeOK, PaymentRow, ApprovedOn
<1>2. MapThenSumSet(LAMBDA i : payment[i].gross, ApprovedOn(c))
         = Cardinality(Units(payment, ApprovedOn(c)))
  BY <1>1, SumCountsUnits
<1>3. Units(payment, ApprovedOn(c)) = CreditUnits(c)
  <2>1. \A i \in ApprovedOn(c) : Credit[c][i] = payment[i].gross
    BY CreditTyped DEF ApprovedOn, CreditOf, Approved
  <2>2. \A i \in Requests \ ApprovedOn(c) : 1..Credit[c][i] = {}
    BY CreditTyped DEF ApprovedOn, CreditOf, Approved
  <2>3. ApprovedOn(c) \subseteq Requests
    BY DEF ApprovedOn
  <2>4. QED
    BY <2>1, <2>2, <2>3 DEF Units, CreditUnits
<1>4. QED
  BY <1>2, <1>3 DEF Counted

\* The balance of every charge is the sum of its approved records, for every set
\* of requests, finite or not, and whatever races, repeats, aborts or dies.
THEOREM Conserved == Spec => []LedgerConservation
<1>1. Spec => []TypeInv
  BY TypeInit, TypeStep, PTL DEF Spec
<1>2. Spec => []Counted
  BY <1>1, CountedInit, CountedStep, AlwaysAbsentIsEmpty, PTL DEF Spec
<1>3. QED
  BY <1>1, <1>2, CountIsSum, PTL

-----------------------------------------------------------------------------
(***************************************************************************)
(* The transactions book payments as billing promises the pipeline.  Every *)
(* step writes one record at most, and a record stays on its charge and    *)
(* under its reference: no stage but that of this pair can change.         *)
(***************************************************************************)
Keys == Charges \X PaymentRefs

Stage == [k \in Keys |-> StageOf(k[1], k[2])]

\* Record t is written, and what it names and what it counts for remain.
Booked(t) ==
    /\ \A i \in Requests \ {t} : payment'[i] = payment[i]
    /\ payment'[t].status # "NONE"
    /\ \/ payment[t].status = "NONE"
       \/ payment'[t].charge = payment[t].charge /\ payment'[t].ref = payment[t].ref
    /\ Approved(payment'[t]) >= Approved(payment[t])

LEMMA BookedElsewhere ==
    ASSUME NEW t \in Requests, Booked(t), NEW c, NEW p,
           ~(payment'[t].charge = c /\ payment'[t].ref = p)
    PROVE  StageOf(c, p)' = StageOf(c, p)
<1>1. t \notin Twins(c, p) /\ t \notin Twins(c, p)'
  BY DEF Booked, Twins
<1>2. \A i \in Requests \ {t} : payment'[i] = payment[i]
  BY DEF Booked
<1>3. Twins(c, p)' = Twins(c, p)
  BY <1>1, <1>2 DEF Twins
<1>4. \A i \in Twins(c, p) : payment'[i] = payment[i]
  BY <1>1, <1>2 DEF Twins
<1> QED
  BY <1>3, <1>4 DEF StageOf

LEMMA BookedHere ==
    ASSUME TypeInv, TypeInv', NEW t \in Requests, Booked(t), NEW c, NEW p,
           payment'[t].charge = c, payment'[t].ref = p
    PROVE  /\ StageOf(c, p)' \in {"PENDING", "APPROVED"}
           /\ StageOf(c, p) = "APPROVED" => StageOf(c, p)' = "APPROVED"
<1>1. t \in Twins(c, p)'
  BY DEF Booked, Twins
<1>2. StageOf(c, p)' \in {"PENDING", "APPROVED"}
  BY <1>1 DEF StageOf
<1>3. ASSUME NEW i \in Twins(c, p), Approved(payment[i]) > 0
      PROVE  i \in Twins(c, p)' /\ Approved(payment'[i]) > 0
  <2>1. i \in Requests
    BY <1>3 DEF Twins
  <2>2. payment[i] \in PaymentRow /\ payment'[i] \in PaymentRow
    BY <2>1 DEF TypeInv, TypeOK
  <2>3. CASE i = t
    <3>1. Approved(payment'[t]) >= Approved(payment[t])
      BY DEF Booked
    <3>2. Approved(payment'[t]) \in Nat /\ Approved(payment[t]) \in Nat
      BY <2>2, <2>3 DEF Approved, PaymentRow
    <3> QED
      BY <1>1, <1>3, <2>3, <3>1, <3>2
  <2>4. CASE i # t
    <3>1. payment'[i] = payment[i]
      BY <2>1, <2>4 DEF Booked
    <3>2. i \in Twins(c, p)'
      BY <2>1, <3>1 DEF Twins
    <3> QED
      BY <1>3, <3>1, <3>2
  <2> QED
    BY <2>3, <2>4
<1>4. ASSUME StageOf(c, p) = "APPROVED" PROVE StageOf(c, p)' = "APPROVED"
  <2>1. PICK i \in Twins(c, p) : Approved(payment[i]) > 0
    BY <1>4 DEF StageOf
  <2>2. i \in Twins(c, p)' /\ Approved(payment'[i]) > 0
    BY <1>3, <2>1
  <2> QED
    BY <2>2 DEF StageOf
<1> QED
  BY <1>2, <1>4

LEMMA BookedMaps ==
    ASSUME TypeInv, TypeInv', NEW t \in Requests, Booked(t)
    PROVE  Booking!BookingNext \/ Stage' = Stage
<1>0. PICK c, p : payment'[t].charge = c /\ payment'[t].ref = p
  OBVIOUS
<1> DEFINE k == <<c, p>>
<1>1. \A e \in Keys : e # k => Stage'[e] = Stage[e]
  <2>1. ASSUME NEW e \in Keys, e # k PROVE StageOf(e[1], e[2])' = StageOf(e[1], e[2])
    <3>1. ~(payment'[t].charge = e[1] /\ payment'[t].ref = e[2])
      BY <1>0, <2>1 DEF Keys
    <3> QED
      BY <3>1, BookedElsewhere
  <2> QED
    BY <2>1 DEF Stage
<1>2. CASE k \notin Keys
  BY <1>1, <1>2 DEF Stage
<1>3. CASE k \in Keys
  <2>1. Stage[k] = StageOf(c, p) /\ Stage'[k] = StageOf(c, p)'
    BY <1>3 DEF Stage
  <2>2. /\ Stage'[k] \in {"PENDING", "APPROVED"}
        /\ Stage[k] = "APPROVED" => Stage'[k] = "APPROVED"
    BY <1>0, <2>1, BookedHere
  <2> HIDE DEF k
  <2>3. Stage' = [Stage EXCEPT ![k] = Stage'[k]]
    BY <1>1, <1>3 DEF Stage
  <2>4. CASE Stage[k] = "APPROVED"
    <3>1. Stage' = Stage
      BY <1>1, <2>2, <2>4 DEF Stage
    <3> QED
      BY <3>1
  <2>5. CASE Stage[k] # "APPROVED"
    BY <1>3, <2>2, <2>3, <2>5
    DEF Booking!BookingNext, Booking!Book, Booking!Stages, Stage, Keys
  <2> QED
    BY <2>4, <2>5
<1> QED
  BY <1>2, <1>3

LEMMA StepBooks ==
    ASSUME TypeInv, TypeInv', [Next]_vars
    PROVE  Booking!BookingNext \/ Stage' = Stage
<1>1. ASSUME payment' = payment PROVE Stage' = Stage
  BY <1>1 DEF Stage, StageOf, Twins
<1>2. payment \in [Requests -> PaymentRow] /\ payment' \in [Requests -> PaymentRow]
  BY DEF TypeInv, TypeOK
<1>3. ASSUME NEW r \in Requests, payment[r].status = "NONE",
             \A i \in Requests \ {r} : payment'[i] = payment[i]
      PROVE  Booking!BookingNext \/ Stage' = Stage
  <2>1. CASE payment'[r].status = "NONE"
    <3>1. \A c, p : Twins(c, p)' = Twins(c, p)
      BY <1>3, <2>1 DEF Twins
    <3>2. \A c, p : \A i \in Twins(c, p) : payment'[i] = payment[i]
      BY <1>3 DEF Twins
    <3>3. \A c, p : StageOf(c, p)' = StageOf(c, p)
      BY <3>1, <3>2 DEF StageOf
    <3> QED
      BY <3>3 DEF Stage
  <2>2. CASE payment'[r].status # "NONE"
    <3>1. Approved(payment[r]) = 0 /\ Approved(payment'[r]) \in Nat
      BY <1>2, <1>3 DEF Approved, PaymentRow
    <3>2. Booked(r)
      BY <1>3, <2>2, <3>1 DEF Booked
    <3> QED
      BY <3>2, BookedMaps
  <2> QED
    BY <2>1, <2>2
<1>4. ASSUME NEW t \in Requests, NEW c \in Charges, NEW p \in PaymentRefs,
             Reconciled(t, c, p), payment[t].status # "NONE"
      PROVE  Booking!BookingNext \/ Stage' = Stage
  <2>1. t \in Twins(c, p)
    BY <1>4 DEF Reconciled
  <2>2. payment'[t].charge = payment[t].charge /\ payment'[t].ref = payment[t].ref
    BY <1>4, <2>1 DEF Reconciled, Twins
  <2>3. payment'[t].status # "NONE"
    BY <1>4 DEF Reconciled, PaymentStatuses
  <2>4. Booked(t)
    BY <1>4, <2>2, <2>3 DEF Reconciled, Booked
  <2> QED
    BY <2>4, BookedMaps
<1> QED
  BY <1>1, <1>3, <1>4, StepEffects DEF Quiet, Opening, BareRecord, ManualCredit, Reconciled

\* The pipeline's single step is a sound reading of these transactions: of any
\* charges and payments of the provider, each step books one at most, and none is
\* ever taken back.
THEOREM Books == Spec => ImplementsBooking
<1>1. Stage = [k \in Charges \X PaymentRefs |-> StageOf(k[1], k[2])]
  BY DEF Stage, Keys
<1>2. Init => Booking!BookingInit
  <2> SUFFICES ASSUME Init PROVE Booking!BookingInit
    OBVIOUS
  <2>1. \A c, p : Twins(c, p) = {}
    BY DEF Init, NoPayment, Twins
  <2>2. \A c, p : StageOf(c, p) = "NONE"
    BY <2>1 DEF StageOf
  <2> QED
    BY <2>2 DEF Booking!BookingInit
<1>3. TypeInv /\ TypeInv' /\ [Next]_vars
      => [Booking!BookingNext]_[k \in Charges \X PaymentRefs |-> StageOf(k[1], k[2])]
  BY <1>1, StepBooks DEF Stage, Keys
<1>4. Spec => []TypeInv
  BY TypeInit, TypeStep, PTL DEF Spec
<1> QED
  BY <1>2, <1>3, <1>4, PTL DEF Spec, ImplementsBooking, Booking!BookingSpec
=============================================================================
