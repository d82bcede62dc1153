-------------------------- MODULE AttendanceRecording --------------------------
(***************************************************************************)
(* Recording the attendance of one class session (src/src/attendance)      *)
(* while the session is canceled and reinstated, the students' charges are *)
(* created and paid, and the branch changes its billing policy.            *)
(*                                                                         *)
(* A call reads the session, then the policy, then the charges, and then   *)
(* writes its records in a Serializable transaction under a lock on the    *)
(* session, whose snapshot is taken before the wait for the lock.  The     *)
(* transaction reads the session again, but not what the students owe.     *)
(*                                                                         *)
(* A record is the call that wrote it: PRESENT, LATE and the like decide   *)
(* nothing.  Payments appear by what ChargePayments shows of them: a       *)
(* charge is PAID exactly when nothing is owed after a payment.            *)
(***************************************************************************)
EXTENDS FinancialStatus

CONSTANTS
    Students,       \* students of the branch
    Charges,        \* names of charges
    Calls,          \* calls that record attendance, each used once
    DueDates,       \* bound: days on which charges fall due
    GraceDays,      \* bound: values of the policy's graceDays
    LastDay,        \* bound on the calendar
    None

ASSUME DatesAreDays == DueDates \cup GraceDays \subseteq Nat
ASSUME CalendarEnds == LastDay \in Nat
ASSUME NoneIsNoCall == None \notin Calls

VARIABLES
    charge,         \* charge[c]: the BillingCharge row
    policy,         \* what the BillingPolicy row says of attendance
    today,
    live,           \* the class session is not CANCELED
    record,         \* record[s]: the call that wrote the AttendanceRecord row, if any
    pc,             \* pc[x]: how far call x has got
    entries,        \* entries[x]: the students it is about
    policyRead,     \* policyRead[x]: the policy it has read
    view,           \* view[x]: what the snapshot of its transaction shows
    unrestricted,   \* history: unrestricted[x], who was not restricted at some time of x
    torn            \* history: calls that met another policy after they had read one

billingVars == <<charge, policy, today>>
callVars == <<pc, entries, policyRead, view, torn>>
vars == <<billingVars, live, record, callVars, unrestricted>>

Row == [student : Students, due : Nat, status : ChargeStatuses, owes : BOOLEAN]
NoCharge == [status |-> "ABSENT"]

Policy == [graceDays : Nat, restrictAttendance : BOOLEAN]
NoPolicy == [graceDays |-> None]

Snapshot == [live : BOOLEAN, record : [Students -> Calls \cup {None}]]
NoSnapshot == [live |-> FALSE, record |-> [s \in Students |-> None]]

Init ==
    /\ charge = [c \in Charges |-> NoCharge]
    /\ policy = [graceDays |-> 0, restrictAttendance |-> FALSE]
    /\ today = 0
    /\ live = TRUE
    /\ record = [s \in Students |-> None]
    /\ pc = [x \in Calls |-> "idle"]
    /\ entries = [x \in Calls |-> {}]
    /\ policyRead = [x \in Calls |-> NoPolicy]
    /\ view = [x \in Calls |-> NoSnapshot]
    /\ unrestricted = [x \in Calls |-> {}]
    /\ torn = {}

-----------------------------------------------------------------------------
(***************************************************************************)
(* What the decisions say (DD-031), and who it concerned during a call.    *)
(***************************************************************************)
ChargesOf(s) == {c \in Charges : charge[c] # NoCharge /\ charge[c].student = s}

OverdueByRule(s) ==
    \E c \in ChargesOf(s) : charge[c].owes /\ today > charge[c].due + policy.graceDays

RestrictedByRule(s) == policy.restrictAttendance /\ OverdueByRule(s)

Observe ==
    unrestricted' = [x \in Calls |->
        IF pc'[x] \in {"idle", "done"} THEN {}
        ELSE unrestricted[x] \cup {s \in entries'[x] : ~RestrictedByRule(s)'}]

-----------------------------------------------------------------------------
(***************************************************************************)
(* The billing of the branch and the session.                              *)
(***************************************************************************)
CreateBillingCharge(c, s, due, owes) ==
    /\ charge[c] = NoCharge
    /\ charge' = [charge EXCEPT ![c] = [student |-> s, due |-> due, status |-> "PENDING",
                                        owes |-> owes]]
    /\ UNCHANGED <<policy, today, live, record, callVars>>
    /\ Observe

\* A payment of all, or of a part of what is owed.
ApplyPayment(c, status) ==
    /\ charge[c] # NoCharge
    /\ charge[c].status \notin {"PAID", "CANCELED", "VOID"}
    /\ status = "PARTIALLY_PAID" => charge[c].owes
    /\ charge' = [charge EXCEPT ![c].status = status, ![c].owes = (status # "PAID")]
    /\ UNCHANGED <<policy, today, live, record, callVars>>
    /\ Observe

\* Mutant of UpdateBillingPolicy: a grace period that is not named is written too.
UpdateBillingPolicyUnnamed(graceDays, restrict) ==
    /\ policy' = [graceDays |-> IF graceDays = 0 THEN None ELSE graceDays,
                  restrictAttendance |-> restrict]
    /\ UNCHANGED <<charge, today, live, record, callVars>>
    /\ Observe

UpdateBillingPolicy(graceDays, restrict) ==
    /\ policy' = [graceDays |-> graceDays, restrictAttendance |-> restrict]
    /\ UNCHANGED <<charge, today, live, record, callVars>>
    /\ Observe

NextDay ==
    /\ today < LastDay
    /\ today' = today + 1
    /\ UNCHANGED <<charge, policy, live, record, callVars>>
    /\ Observe

\* ClassSessions models the update itself.
UpdateClassSession ==
    /\ live' = ~live
    /\ UNCHANGED <<billingVars, record, callVars>>
    /\ Observe

-----------------------------------------------------------------------------
(***************************************************************************)
(* One call.                                                               *)
(***************************************************************************)
Goto(x, point) == pc' = [pc EXCEPT ![x] = point]

End(x) ==
    /\ Goto(x, "done")
    /\ entries' = [entries EXCEPT ![x] = {}]
    /\ policyRead' = [policyRead EXCEPT ![x] = NoPolicy]
    /\ view' = [view EXCEPT ![x] = NoSnapshot]
    /\ torn' = torn \ {x}

\* The charges that decide about attendance, and those of the billing context.
BranchCharges(s) ==
    {row \in {charge[c] : c \in ChargesOf(s)} :
        row.status \notin {"CANCELED", "VOID", "PAID"} /\ row.owes}
ContextCharges(s) ==
    {row \in {charge[c] : c \in ChargesOf(s)} : row.status \notin {"CANCELED", "VOID"}}

ReadSession(x, students) ==
    /\ pc[x] = "idle"
    /\ live
    /\ Goto(x, "session")
    /\ entries' = [entries EXCEPT ![x] = students]
    /\ UNCHANGED <<billingVars, live, record, policyRead, view, torn>>
    /\ Observe

ReadPolicy(x) ==
    /\ pc[x] = "session"
    /\ Goto(x, "policy")
    /\ policyRead' = [policyRead EXCEPT ![x] = policy]
    /\ UNCHANGED <<billingVars, live, record, entries, view, torn>>
    /\ Observe

\* One restricted student refuses the whole call.
ReadCharges(x) ==
    /\ pc[x] = "policy"
    /\ \A s \in entries[x] : ~AttendanceRestricted(BranchCharges(s), policyRead[x], today)
    /\ Goto(x, "checked")
    /\ policyRead' = [policyRead EXCEPT ![x] = NoPolicy]
    /\ torn' = IF policy # policyRead[x] THEN torn \cup {x} ELSE torn
    /\ UNCHANGED <<billingVars, live, record, entries, view>>
    /\ Observe

BeginTransaction(x) ==
    /\ pc[x] = "checked"
    /\ Goto(x, "waiting")
    /\ view' = [view EXCEPT ![x] = [live |-> live, record |-> record]]
    /\ UNCHANGED <<billingVars, live, record, entries, policyRead, torn>>
    /\ Observe

AcquireSessionAttendanceLock(x) ==
    /\ pc[x] = "waiting"
    /\ \A y \in Calls : pc[y] # "locked"
    /\ Goto(x, "locked")
    /\ UNCHANGED <<billingVars, live, record, entries, policyRead, view, torn>>
    /\ Observe

\* No other call has written since the snapshot: each reads all records of the
\* session, so that they conflict even over different students.  An update of the
\* session conflicts in one direction only, which is allowed.
Fresh(x) == view[x].record = record

UpsertSessionAttendance(x) ==
    /\ pc[x] = "locked"
    /\ view[x].live
    /\ Fresh(x)
    /\ record' = [s \in Students |-> IF s \in entries[x] THEN x ELSE record[s]]
    /\ End(x)
    /\ UNCHANGED <<billingVars, live>>
    /\ Observe

\* Refused for a canceled session, a restricted student or a conflict, or dead.
Abandon(x) ==
    /\ pc[x] \notin {"idle", "done"}
    /\ End(x)
    /\ UNCHANGED <<billingVars, live, record>>
    /\ Observe

-----------------------------------------------------------------------------
Billing ==
    \/ \E c \in Charges, s \in Students, due \in DueDates, owes \in BOOLEAN :
          CreateBillingCharge(c, s, due, owes)
    \/ \E c \in Charges, status \in {"PARTIALLY_PAID", "PAID"} : ApplyPayment(c, status)
    \/ \E graceDays \in GraceDays, restrict \in BOOLEAN :
          UpdateBillingPolicy(graceDays, restrict)
    \/ NextDay

Recording(x) ==
    \/ \E students \in (SUBSET Students) \ {{}} : ReadSession(x, students)
    \/ ReadPolicy(x)
    \/ ReadCharges(x)
    \/ BeginTransaction(x)
    \/ AcquireSessionAttendanceLock(x)
    \/ UpsertSessionAttendance(x)
    \/ Abandon(x)

Next == Billing \/ UpdateClassSession \/ \E x \in Calls : Recording(x)

Spec == Init /\ [][Next]_vars

-----------------------------------------------------------------------------
(***************************************************************************)
(* Properties.                                                             *)
(***************************************************************************)
TypeOK ==
    /\ charge \in [Charges -> Row \cup {NoCharge}]
    /\ policy \in Policy
    /\ today \in Nat
    /\ live \in BOOLEAN
    /\ record \in [Students -> Calls \cup {None}]
    /\ pc \in [Calls -> {"idle", "session", "policy", "checked", "waiting", "locked", "done"}]
    /\ entries \in [Calls -> SUBSET Students]
    /\ policyRead \in [Calls -> Policy \cup {NoPolicy}]
    /\ view \in [Calls -> Snapshot]
    /\ unrestricted \in [Calls -> SUBSET Students]
    /\ torn \subseteq Calls

\* Attendance is never recorded for a student whom the policy of the branch
\* restricted all the time from the first read of the call to its commit, although
\* policy and charges are read one after the other, and before the transaction:
\* unless the policy changed between these two reads.
AttendanceIsJustified ==
    [][\A s \in Students :
          record'[s] # record[s] =>
              s \in unrestricted[record'[s]] \/ record'[s] \in torn]_vars

\* The financial status is the one the decisions describe, whether it is derived
\* from the charges that the listing of a branch reads or from those of a
\* student's billing context, which keeps what is paid: overdue before frozen, and
\* a charge over nothing never counts.
StatusAsDecided ==
    \A s \in Students, membership \in {None, "ACTIVE", "FROZEN"}, restrictApp \in BOOLEAN :
        \A charges \in {BranchCharges(s), ContextCharges(s)} :
            StudentFinancialStatus(membership, charges, policy, restrictApp, today) =
                CASE OverdueByRule(s) /\ (policy.restrictAttendance \/ restrictApp) -> "RESTRICTED"
                  [] OverdueByRule(s) /\ ~(policy.restrictAttendance \/ restrictApp) -> "OVERDUE"
                  [] ~OverdueByRule(s) /\ membership = "FROZEN" -> "FROZEN"
                  [] OTHER ->
                         IF \E c \in ChargesOf(s) :
                               charge[c].owes /\ charge[c].due <= today + DueSoonWindowDays
                         THEN "DUE_SOON" ELSE "CURRENT"

\* The database, which lists charges by status, and the code, which computes the
\* status each listed charge is shown with, agree on every charge: it is listed
\* under the one status it is shown with, and days are counted exactly when that
\* is OVERDUE.
ListedAsShown ==
    \A c \in {d \in Charges : charge[d] # NoCharge} :
        LET shown == EffectiveChargeStatus(charge[c], policy.graceDays, today)
        IN  /\ \A status \in ChargeStatuses :
                  ChargeStatusWhere(charge[c], status, policy.graceDays, today) <=>
                      status = shown
            /\ charge[c].status # "PAID" =>
                  (shown = "OVERDUE" <=>
                      ChargeDaysOverdue(charge[c], policy.graceDays, today) > 0)
=============================================================================
