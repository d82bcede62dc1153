----------------------- MODULE AttendanceRecordingProofs -----------------------
(***************************************************************************)
(* Proofs about AttendanceRecording for every number of students, charges  *)
(* and concurrent calls, and for every calendar.                           *)
(***************************************************************************)
EXTENDS AttendanceRecording, TLAPS

\* The code stores no other status than these, and what is paid owes nothing.
ChargesAsStored ==
    \A c \in Charges : charge[c] # NoCharge =>
        /\ charge[c].status \in {"PENDING", "PARTIALLY_PAID", "PAID"}
        /\ charge[c].status = "PAID" => ~charge[c].owes

TypeInv == TypeOK /\ ChargesAsStored

Running == {"session", "policy", "checked", "waiting", "locked"}
Justified == {"checked", "waiting", "locked"}

\* Whoever is not restricted while a call runs is in its history, and who has
\* passed the check of a call is there, or the policies it met differ.
CallsAreJustified ==
    \A x \in Calls : \A s \in entries[x] :
        /\ pc[x] \in Running => RestrictedByRule(s) \/ s \in unrestricted[x]
        /\ pc[x] \in Justified => s \in unrestricted[x] \/ x \in torn

-----------------------------------------------------------------------------
(***************************************************************************)
(* Type correctness.                                                       *)
(***************************************************************************)
LEMMA RowIsNoNothing == \A row \in Row : row.status # "ABSENT"
BY DEF Row, ChargeStatuses

LEMMA StoredRow ==
    ASSUME TypeInv, NEW c \in Charges, charge[c] # NoCharge
    PROVE  /\ charge[c] \in Row
           /\ charge[c].due \in Nat /\ charge[c].owes \in BOOLEAN
           /\ charge[c].status \in {"PENDING", "PARTIALLY_PAID", "PAID"}
           /\ charge[c].status = "PAID" => ~charge[c].owes
BY DEF TypeInv, TypeOK, ChargesAsStored, Row

LEMMA TypeInit == Init => TypeInv
BY DatesAreDays DEF Init, TypeInv, TypeOK, ChargesAsStored, Policy, Snapshot, NoSnapshot

LEMMA ObservedTyped ==
    ASSUME Observe, entries' \in [Calls -> SUBSET Students],
           unrestricted \in [Calls -> SUBSET Students]
    PROVE  unrestricted' \in [Calls -> SUBSET Students]
BY DEF Observe

\* Steps of the branch and of the session leave the calls alone.
LEMMA ChargeTyped ==
    ASSUME TypeInv, NEW c \in Charges, NEW row \in Row,
           row.status \in {"PENDING", "PARTIALLY_PAID", "PAID"},
           row.status = "PAID" => ~row.owes,
           charge' = [charge EXCEPT ![c] = row],
           UNCHANGED <<policy, today, live, record, callVars>>, Observe
    PROVE  TypeInv'
<1>1. charge' \in [Charges -> Row \cup {NoCharge}]
  BY DEF TypeInv, TypeOK
<1>2. unrestricted' \in [Calls -> SUBSET Students]
  BY ObservedTyped DEF TypeInv, TypeOK, callVars
<1>3. TypeOK'
  BY <1>1, <1>2 DEF TypeInv, TypeOK, callVars
<1>4. ChargesAsStored'
  BY DEF TypeInv, TypeOK, ChargesAsStored
<1> QED
  BY <1>3, <1>4 DEF TypeInv

LEMMA BranchTyped ==
    ASSUME TypeInv, UNCHANGED <<charge, record, callVars>>, Observe,
           policy' \in Policy, today' \in Nat, live' \in BOOLEAN
    PROVE  TypeInv'
<1>1. unrestricted' \in [Calls -> SUBSET Students]
  BY ObservedTyped DEF TypeInv, TypeOK, callVars
<1> QED
  BY <1>1 DEF TypeInv, TypeOK, ChargesAsStored, callVars

\* Steps of calls leave the billing of the branch alone.
LEMMA CallTyped ==
    ASSUME TypeInv, UNCHANGED <<billingVars, live>>, Observe,
           record' \in [Students -> Calls \cup {None}],
           pc' \in [Calls -> Running \cup {"idle", "done"}],
           entries' \in [Calls -> SUBSET Students],
           policyRead' \in [Calls -> Policy \cup {NoPolicy}],
           view' \in [Calls -> Snapshot], torn' \subseteq Calls
    PROVE  TypeInv'
<1>1. unrestricted' \in [Calls -> SUBSET Students]
  BY ObservedTyped DEF TypeInv, TypeOK
<1> QED
  BY <1>1 DEF TypeInv, TypeOK, ChargesAsStored, billingVars, Running

LEMMA EndTyped ==
    ASSUME TypeInv, NEW x \in Calls, End(x)
    PROVE  /\ pc' \in [Calls -> Running \cup {"idle", "done"}]
           /\ entries' \in [Calls -> SUBSET Students]
           /\ policyRead' \in [Calls -> Policy \cup {NoPolicy}]
           /\ view' \in [Calls -> Snapshot] /\ torn' \subseteq Calls
BY DEF End, Goto, TypeInv, TypeOK, Running, NoSnapshot, Snapshot

LEMMA TypeStep == TypeInv /\ [Next]_vars => TypeInv'
<1> SUFFICES ASSUME TypeInv, [Next]_vars
             PROVE  TypeInv'
  OBVIOUS
<1> USE DEF TypeInv, TypeOK
<1>1. ASSUME NEW c \in Charges, NEW s \in Students, NEW due \in DueDates, NEW owes \in BOOLEAN,
             CreateBillingCharge(c, s, due, owes)
      PROVE  TypeInv'
  <2> DEFINE row == [student |-> s, due |-> due, status |-> "PENDING", owes |-> owes]
  <2>1. row \in Row
    BY DatesAreDays DEF Row, ChargeStatuses
  <2>2. row.status = "PENDING"
    OBVIOUS
  <2> QED
    BY <1>1, <2>1, <2>2, ChargeTyped DEF CreateBillingCharge
<1>2. ASSUME NEW c \in Charges, NEW status \in {"PARTIALLY_PAID", "PAID"},
             ApplyPayment(c, status)
      PROVE  TypeInv'
  <2> DEFINE row == [charge[c] EXCEPT !.status = status, !.owes = (status # "PAID")]
  <2>1. charge[c] \in Row
    BY <1>2, StoredRow DEF ApplyPayment
  <2>2. row \in Row /\ row.status = status /\ (row.status = "PAID" => ~row.owes)
    BY <2>1 DEF Row, ChargeStatuses
  <2>3. charge' = [charge EXCEPT ![c] = row]
    BY <1>2, <2>1 DEF ApplyPayment
  <2>4. UNCHANGED <<policy, today, live, record, callVars>> /\ Observe
    BY <1>2 DEF ApplyPayment
  <2> HIDE DEF row, TypeInv
  <2> QED
    BY <2>2, <2>3, <2>4, ChargeTyped
<1>3. ASSUME NEW graceDays \in GraceDays, NEW restrict \in BOOLEAN,
             UpdateBillingPolicy(graceDays, restrict)
      PROVE  TypeInv'
  <2>1. policy' \in Policy
    BY <1>3, DatesAreDays DEF UpdateBillingPolicy, Policy
  <2> QED
    BY <1>3, <2>1, BranchTyped DEF UpdateBillingPolicy
<1>4. ASSUME NextDay
      PROVE  TypeInv'
  BY <1>4, BranchTyped DEF NextDay
<1>5. ASSUME UpdateClassSession
      PROVE  TypeInv'
  BY <1>5, BranchTyped DEF UpdateClassSession, billingVars
<1>6. ASSUME NEW x \in Calls, NEW students \in SUBSET Students, ReadSession(x, students)
      PROVE  TypeInv'
  BY <1>6, CallTyped DEF ReadSession, Goto, Running
<1>7. ASSUME NEW x \in Calls, ReadPolicy(x)
      PROVE  TypeInv'
  BY <1>7, CallTyped DEF ReadPolicy, Goto, Running
<1>8. ASSUME NEW x \in Calls, ReadCharges(x)
      PROVE  TypeInv'
  BY <1>8, CallTyped DEF ReadCharges, Goto, Running
<1>9. ASSUME NEW x \in Calls, BeginTransaction(x)
      PROVE  TypeInv'
  <2>1. [live |-> live, record |-> record] \in Snapshot
    BY DEF Snapshot
  <2> QED
    BY <1>9, <2>1, CallTyped DEF BeginTransaction, Goto, Running
<1>10. ASSUME NEW x \in Calls, AcquireSessionAttendanceLock(x)
       PROVE  TypeInv'
  BY <1>10, CallTyped DEF AcquireSessionAttendanceLock, Goto, Running
<1>11. ASSUME NEW x \in Calls, UpsertSessionAttendance(x)
       PROVE  TypeInv'
  BY <1>11, EndTyped, CallTyped DEF UpsertSessionAttendance
<1>12. ASSUME NEW x \in Calls, Abandon(x)
       PROVE  TypeInv'
  BY <1>12, EndTyped, CallTyped DEF Abandon
<1>13. CASE UNCHANGED vars
  BY <1>13 DEF vars, billingVars, callVars, ChargesAsStored
<1> QED
  BY <1>1, <1>2, <1>3, <1>4, <1>5, <1>6, <1>7, <1>8, <1>9, <1>10, <1>11, <1>12, <1>13
  DEF Next, Billing, Recording

LEMMA TypeInvariant == Spec => []TypeInv
BY TypeInit, TypeStep, PTL DEF Spec

\* Every reachable state is well typed, whatever charges and policies there are.
THEOREM TypeCorrect == Spec => []TypeOK
BY TypeInvariant, PTL DEF TypeInv

-----------------------------------------------------------------------------
(***************************************************************************)
(* What is derived from charges.                                           *)
(***************************************************************************)
\* A stored charge is shown as overdue after its grace period, unless it is paid.
LEMMA ShownOverdue ==
    ASSUME TypeInv, NEW c \in Charges, charge[c] # NoCharge, NEW graceDays \in Nat
    PROVE  EffectiveChargeStatus(charge[c], graceDays, today) =
               IF charge[c].status # "PAID" /\ today > charge[c].due + graceDays
               THEN "OVERDUE" ELSE charge[c].status
<1>1. today \in Nat
  BY DEF TypeInv, TypeOK
<1>2. charge[c].due < today - graceDays <=> today > charge[c].due + graceDays
  BY <1>1, StoredRow
<1> QED
  BY <1>2, StoredRow DEF EffectiveChargeStatus, IsChargeOverdue, OverdueCutoff

LEMMA OverdueAgrees ==
    ASSUME TypeInv, NEW s \in Students, NEW charges \in {BranchCharges(s), ContextCharges(s)}
    PROVE  /\ Overdue(charges, policy.graceDays, today) # {} <=> OverdueByRule(s)
           /\ (\E row \in charges : row.owes /\ row.due <= today + DueSoonWindowDays) <=>
                  \E c \in ChargesOf(s) :
                      charge[c].owes /\ charge[c].due <= today + DueSoonWindowDays
<1>1. policy.graceDays \in Nat
  BY DEF TypeInv, TypeOK, Policy
<1>2. \A row \in charges : \E c \in ChargesOf(s) : row = charge[c]
  BY DEF BranchCharges, ContextCharges
<1>3. \A c \in ChargesOf(s) : charge[c].owes => charge[c] \in charges
  BY StoredRow DEF BranchCharges, ContextCharges, ChargesOf
<1>4. \A c \in ChargesOf(s) :
          EffectiveChargeStatus(charge[c], policy.graceDays, today) = "OVERDUE" <=>
              charge[c].status # "PAID" /\ today > charge[c].due + policy.graceDays
  BY <1>1, ShownOverdue, StoredRow DEF ChargesOf
<1>5. Overdue(charges, policy.graceDays, today) # {} <=>
          \E row \in charges :
              row.owes /\ EffectiveChargeStatus(row, policy.graceDays, today) = "OVERDUE"
  BY DEF Overdue
<1>6. Overdue(charges, policy.graceDays, today) # {} <=> OverdueByRule(s)
  <2>1. ASSUME NEW row \in charges, row.owes,
               EffectiveChargeStatus(row, policy.graceDays, today) = "OVERDUE"
        PROVE  OverdueByRule(s)
    BY <2>1, <1>2, <1>4 DEF OverdueByRule
  <2>2. ASSUME NEW c \in ChargesOf(s), charge[c].owes,
               today > charge[c].due + policy.graceDays
        PROVE  /\ charge[c] \in charges
               /\ EffectiveChargeStatus(charge[c], policy.graceDays, today) = "OVERDUE"
    BY <2>2, <1>3, <1>4, StoredRow DEF ChargesOf
  <2> QED
    BY <1>5, <2>1, <2>2 DEF OverdueByRule
<1> QED
  BY <1>2, <1>3, <1>6

LEMMA StatusStep == TypeInv => StatusAsDecided
<1> SUFFICES ASSUME TypeInv, NEW s \in Students, NEW membership \in {None, "ACTIVE", "FROZEN"},
                    NEW restrictApp \in BOOLEAN,
                    NEW charges \in {BranchCharges(s), ContextCharges(s)}
             PROVE  StudentFinancialStatus(membership, charges, policy, restrictApp, today) =
                CASE OverdueByRule(s) /\ (policy.restrictAttendance \/ restrictApp) -> "RESTRICTED"
                  [] OverdueByRule(s) /\ ~(policy.restrictAttendance \/ restrictApp) -> "OVERDUE"
                  [] ~OverdueByRule(s) /\ membership = "FROZEN" -> "FROZEN"
                  [] OTHER ->
                         IF \E c \in ChargesOf(s) :
                               charge[c].owes /\ charge[c].due <= today + DueSoonWindowDays
                         THEN "DUE_SOON" ELSE "CURRENT"
  BY DEF StatusAsDecided
<1>1. policy.restrictAttendance \in BOOLEAN
  BY DEF TypeInv, TypeOK, Policy
<1>2. CASE OverdueByRule(s)
  BY <1>1, <1>2, OverdueAgrees DEF StudentFinancialStatus
<1>3. CASE ~OverdueByRule(s)
  BY <1>1, <1>3, OverdueAgrees DEF StudentFinancialStatus
<1> QED
  BY <1>2, <1>3

\* Listings and billing contexts derive the status the decisions describe, for
\* any number of charges and any policy.
THEOREM StatusDecided == Spec => []StatusAsDecided
BY TypeInvariant, StatusStep, PTL

LEMMA ListedStep == TypeInv => ListedAsShown
<1> SUFFICES ASSUME TypeInv, NEW c \in Charges, charge[c] # NoCharge
             PROVE  LET shown == EffectiveChargeStatus(charge[c], policy.graceDays, today)
                    IN  /\ \A status \in ChargeStatuses :
                            ChargeStatusWhere(charge[c], status, policy.graceDays, today) <=>
                                status = shown
                        /\ charge[c].status # "PAID" =>
                            (shown = "OVERDUE" <=>
                                ChargeDaysOverdue(charge[c], policy.graceDays, today) > 0)
  BY DEF ListedAsShown
<1> DEFINE late == today > charge[c].due + policy.graceDays
<1>1. policy.graceDays \in Nat /\ today \in Nat /\ charge[c].due \in Nat
  BY StoredRow DEF TypeInv, TypeOK, Policy
<1>2. /\ charge[c].due < OverdueCutoff(policy.graceDays, today) <=> late
      /\ charge[c].due >= OverdueCutoff(policy.graceDays, today) <=> ~late
  BY <1>1 DEF OverdueCutoff
<1>3. ChargeDaysOverdue(charge[c], policy.graceDays, today) > 0 <=> late
  BY <1>1 DEF ChargeDaysOverdue
<1>4. EffectiveChargeStatus(charge[c], policy.graceDays, today) =
          IF charge[c].status # "PAID" /\ late THEN "OVERDUE" ELSE charge[c].status
  BY <1>1, ShownOverdue
<1> HIDE DEF late
<1>5. charge[c].status \in {"PENDING", "PARTIALLY_PAID", "PAID"}
  BY StoredRow
<1>6. ASSUME NEW status \in ChargeStatuses
      PROVE  ChargeStatusWhere(charge[c], status, policy.graceDays, today) <=>
                 status = IF charge[c].status # "PAID" /\ late THEN "OVERDUE"
                          ELSE charge[c].status
  BY <1>2, <1>5, <1>6 DEF ChargeStatusWhere, ChargeStatuses, OpenChargeStatuses
<1> QED
  BY <1>3, <1>4, <1>5, <1>6

\* The SQL of the listings and the code agree on every charge.
THEOREM Listed == Spec => []ListedAsShown
BY TypeInvariant, ListedStep, PTL

-----------------------------------------------------------------------------
(***************************************************************************)
(* Attendance is recorded for who was not restricted.                      *)
(***************************************************************************)
LEMMA JustifiedInit == Init => CallsAreJustified
BY DEF Init, CallsAreJustified

\* The history of a call that goes on holds whom it held, and who is not
\* restricted now.
LEMMA HistoryGrows ==
    ASSUME Observe, NEW x \in Calls, pc'[x] \in Running
    PROVE  /\ unrestricted[x] \subseteq unrestricted'[x]
           /\ \A s \in entries'[x] : RestrictedByRule(s)' \/ s \in unrestricted'[x]
BY DEF Observe, Running

\* A step after which calls that have been checked had been checked before.
LEMMA JustifiedKept ==
    ASSUME CallsAreJustified, Observe,
           \A x \in Calls : pc'[x] \in Justified =>
               /\ pc[x] \in Justified
               /\ entries'[x] = entries[x]
               /\ x \in torn => x \in torn'
    PROVE  CallsAreJustified'
<1> SUFFICES ASSUME NEW x \in Calls, NEW s \in entries'[x]
             PROVE  /\ pc'[x] \in Running => RestrictedByRule(s)' \/ s \in unrestricted'[x]
                    /\ pc'[x] \in Justified => s \in unrestricted'[x] \/ x \in torn'
  BY DEF CallsAreJustified
<1>1. ASSUME pc'[x] \in Running
      PROVE  RestrictedByRule(s)' \/ s \in unrestricted'[x]
  BY <1>1, HistoryGrows
<1>2. ASSUME pc'[x] \in Justified
      PROVE  s \in unrestricted'[x] \/ x \in torn'
  BY <1>2, HistoryGrows DEF CallsAreJustified, Running, Justified
<1> QED
  BY <1>1, <1>2

LEMMA ReadChargesJustified ==
    ASSUME TypeInv, CallsAreJustified, NEW x \in Calls, ReadCharges(x)
    PROVE  CallsAreJustified'
<1>1. ASSUME NEW s \in entries[x]
      PROVE  s \in unrestricted[x] \/ x \in torn'
  <2>1. s \in Students
    BY DEF TypeInv, TypeOK
  <2>2. CASE policy = policyRead[x]
    <3>1. ~RestrictedByRule(s)
      BY <2>1, <2>2, OverdueAgrees DEF ReadCharges, AttendanceRestricted, RestrictedByRule
    <3> QED
      BY <3>1 DEF CallsAreJustified, ReadCharges, Running
  <2>3. CASE policy # policyRead[x]
    BY <2>3 DEF ReadCharges
  <2> QED
    BY <2>2, <2>3
<1>2. /\ entries' = entries /\ torn \subseteq torn'
      /\ \A y \in Calls : pc'[y] \in Justified => y = x \/ pc[y] \in Justified
  BY DEF ReadCharges, Goto, TypeInv, TypeOK
<1>3. Observe
  BY DEF ReadCharges
<1> SUFFICES ASSUME NEW y \in Calls, NEW s \in entries'[y]
             PROVE  /\ pc'[y] \in Running => RestrictedByRule(s)' \/ s \in unrestricted'[y]
                    /\ pc'[y] \in Justified => s \in unrestricted'[y] \/ y \in torn'
  BY DEF CallsAreJustified
<1>4. ASSUME pc'[y] \in Running
      PROVE  RestrictedByRule(s)' \/ s \in unrestricted'[y]
  BY <1>3, <1>4, HistoryGrows
<1>5. ASSUME pc'[y] \in Justified
      PROVE  s \in unrestricted'[y] \/ y \in torn'
  <2>1. s \in unrestricted[y] \/ y \in torn'
    BY <1>1, <1>2, <1>5 DEF CallsAreJustified
  <2> QED
    BY <2>1, <1>3, <1>5, HistoryGrows DEF Running, Justified
<1> QED
  BY <1>4, <1>5

LEMMA JustifiedStep == TypeInv /\ CallsAreJustified /\ [Next]_vars => CallsAreJustified'
<1> SUFFICES ASSUME TypeInv, CallsAreJustified, [Next]_vars
             PROVE  CallsAreJustified'
  OBVIOUS
<1>1. ASSUME UNCHANGED callVars, Observe
      PROVE  CallsAreJustified'
  BY <1>1, JustifiedKept DEF callVars
<1>2. ASSUME NEW x \in Calls, NEW students \in SUBSET Students, ReadSession(x, students)
      PROVE  CallsAreJustified'
  BY <1>2, JustifiedKept DEF ReadSession, Goto, TypeInv, TypeOK, Justified
<1>3. ASSUME NEW x \in Calls, ReadPolicy(x)
      PROVE  CallsAreJustified'
  BY <1>3, JustifiedKept DEF ReadPolicy, Goto, TypeInv, TypeOK, Justified
<1>4. ASSUME NEW x \in Calls, ReadCharges(x)
      PROVE  CallsAreJustified'
  BY <1>4, ReadChargesJustified
<1>5. ASSUME NEW x \in Calls, BeginTransaction(x) \/ AcquireSessionAttendanceLock(x)
      PROVE  CallsAreJustified'
  BY <1>5, JustifiedKept DEF BeginTransaction, AcquireSessionAttendanceLock, Goto, TypeInv,
                             TypeOK, Justified
<1>6. ASSUME NEW x \in Calls, End(x), Observe
      PROVE  CallsAreJustified'
  BY <1>6, JustifiedKept DEF End, Goto, TypeInv, TypeOK, Justified
<1>7. CASE UNCHANGED vars
  BY <1>7 DEF vars, billingVars, callVars, CallsAreJustified, RestrictedByRule, OverdueByRule,
              ChargesOf
<1> QED
  BY <1>1, <1>2, <1>3, <1>4, <1>5, <1>6, <1>7
  DEF Next, Billing, Recording, CreateBillingCharge, ApplyPayment, UpdateBillingPolicy, NextDay,
      UpdateClassSession, UpsertSessionAttendance, Abandon

LEMMA WrittenJustified ==
    TypeInv /\ CallsAreJustified /\ [Next]_vars =>
        [\A s \in Students :
            record'[s] # record[s] =>
                s \in unrestricted[record'[s]] \/ record'[s] \in torn]_vars
<1> SUFFICES ASSUME TypeInv, CallsAreJustified, Next, NEW s \in Students,
                    record'[s] # record[s]
             PROVE  s \in unrestricted[record'[s]] \/ record'[s] \in torn
  OBVIOUS
<1>1. PICK x \in Calls : UpsertSessionAttendance(x)
  BY DEF Next, Billing, Recording, CreateBillingCharge, ApplyPayment, UpdateBillingPolicy,
         NextDay, UpdateClassSession, ReadSession, ReadPolicy, ReadCharges, BeginTransaction,
         AcquireSessionAttendanceLock, Abandon
<1>2. s \in entries[x] /\ record'[s] = x /\ pc[x] = "locked"
  BY <1>1 DEF UpsertSessionAttendance
<1> QED
  BY <1>2 DEF CallsAreJustified, Justified

\* No call records attendance for a student who was restricted from its first
\* read to its commit, unless the policy changed between its reads.
THEOREM AttendanceJustified == Spec => AttendanceIsJustified
BY TypeInit, TypeStep, JustifiedInit, JustifiedStep, WrittenJustified, PTL
DEF Spec, AttendanceIsJustified
=============================================================================
