-------------------------- MODULE StudentMemberships --------------------------
(***************************************************************************)
(* The memberships of one student in one branch (src/src/billing), created *)
(* and updated by concurrent calls while the plan and the billing policy   *)
(* of the branch change.  A creation is a Serializable transaction under   *)
(* an advisory lock on student and branch, and as in ChargePayments its    *)
(* snapshot is taken before the wait for the lock.  An update is a plain   *)
(* write of a row that was read and merged before: it takes no lock, and   *)
(* the transactions of creations do not see it coming.                     *)
(*                                                                         *)
(* ACTIVE stands for PAUSED too and ENDED for CANCELED: no check tells     *)
(* them apart.  The next billing date, the discount and the notes are left *)
(* out.  Refused calls leave no trace, and neither does the upsert of the  *)
(* default policy.                                                         *)
(***************************************************************************)
EXTENDS Integers

CONSTANTS
    Memberships,    \* numbers, in the order of createdAt
    Plans,          \* plans of the branch
    Calls,          \* calls that create or update, each used once
    NewRows,        \* bound: what calls create
    Changes,        \* bound: what calls change
    Limits,         \* bound: values of maxFreezeDaysPerYear
    LastDay,        \* bound on the calendar
    None

ASSUME MembershipsAreNumbered == Memberships \subseteq Nat
ASSUME LimitsAreDays == Limits \subseteq Nat \ {0}
ASSUME CalendarEnds == LastDay \in Nat
ASSUME NoneIsNothing == None \notin Nat \cup Plans \cup {"ACTIVE", "FROZEN", "ENDED"}

VARIABLES
    membership,     \* membership[m]: the StudentMembership row
    assignable,     \* the plans that are active
    policy,         \* what the BillingPolicy row says of freezes
    today,
    pc,             \* pc[x]: how far call x has got
    call,           \* call[x]: what it is about to write
    view,           \* view[x]: what the snapshot of its transaction shows
    overtaken       \* history: rows written by an update that read an older row

vars == <<membership, assignable, policy, today, pc, call, view, overtaken>>
branchVars == <<assignable, policy, today>>

Statuses == {"ACTIVE", "FROZEN", "ENDED"}
Date == Nat \cup {None}

Row == [status : Statuses, from : Nat, freezeFrom : Date, plan : Plans, to : Date,
        freezeTo : Date]
NoRow == [status |-> "ABSENT", from |-> 0, freezeFrom |-> None, plan |-> None,
          to |-> None, freezeTo |-> None]

\* What an update names, None where it names nothing.
Change == [status : Statuses \cup {None}, from : Date, freezeFrom : Date,
           plan : Plans \cup {None}, to : Date, freezeTo : Date,
           clearFreeze : BOOLEAN]

ASSUME RowsAreNew == NewRows \subseteq {row \in Row : row.to = None}
ASSUME ChangesAreNamed == Changes \subseteq Change

Policy == [allowFreeze : BOOLEAN, maxFreezeDays : Limits \cup {None}]

\* seen is the row an update has read, newPlan says whether it names a plan.
Call == [row : Row, kind : {"create", "update"}, of : Memberships \cup {None},
         seen : Row \cup {NoRow}, newPlan : BOOLEAN]
NoCall == [row |-> NoRow, kind |-> "none", of |-> None, seen |-> NoRow,
           newPlan |-> FALSE]

Snapshot == [existing : SUBSET Memberships, open : SUBSET Memberships]
NoSnapshot == [existing |-> {}, open |-> {}]

Init ==
    /\ membership = [m \in Memberships |-> NoRow]
    /\ assignable = Plans
    /\ policy = [allowFreeze |-> TRUE, maxFreezeDays |-> None]
    /\ today = 0
    /\ pc = [x \in Calls |-> "idle"]
    /\ call = [x \in Calls |-> NoCall]
    /\ view = [x \in Calls |-> NoSnapshot]
    /\ overtaken = {}

-----------------------------------------------------------------------------
Existing == {m \in Memberships : membership[m] # NoRow}

\* ACTIVE, PAUSED and FROZEN.
Open == {m \in Existing : membership[m].status # "ENDED"}

Goto(x, point) == pc' = [pc EXCEPT ![x] = point]

End(x) ==
    /\ Goto(x, "done")
    /\ call' = [call EXCEPT ![x] = NoCall]
    /\ view' = [view EXCEPT ![x] = NoSnapshot]

NotBefore(later, earlier) == None \notin {later, earlier} => later >= earlier

ValidDates(row) ==
    /\ NotBefore(row.to, row.from)
    /\ NotBefore(row.freezeTo, row.freezeFrom)

\* The limit is compared with this freeze alone, not with the freezes of a year.
FreezeAllowed(row) ==
    \/ row.status # "FROZEN" /\ row.freezeFrom = None /\ row.freezeTo = None
    \/ /\ policy.allowFreeze
       /\ row.status = "FROZEN" => row.freezeFrom # None
       /\ None \notin {row.freezeFrom, row.freezeTo, policy.maxFreezeDays} =>
             row.freezeTo - row.freezeFrom + 1 <= policy.maxFreezeDays

-----------------------------------------------------------------------------
(***************************************************************************)
(* The branch: its plans, its policy, its calendar.                        *)
(***************************************************************************)
UpdateBillingPlan(p, isActive) ==
    /\ assignable' = IF isActive THEN assignable \cup {p} ELSE assignable \ {p}
    /\ UNCHANGED <<membership, policy, today, pc, call, view, overtaken>>

\* The limit that a call writes is the one it names, none if it forbids freezes,
\* or the one it has read, which another call may have replaced: any limit.
UpdateBillingPolicy(allowFreeze, limit) ==
    /\ policy' = [allowFreeze |-> allowFreeze, maxFreezeDays |-> limit]
    /\ UNCHANGED <<membership, assignable, today, pc, call, view, overtaken>>

NextDay ==
    /\ today < LastDay
    /\ today' = today + 1
    /\ UNCHANGED <<membership, assignable, policy, pc, call, view, overtaken>>

-----------------------------------------------------------------------------
(***************************************************************************)
(* Creating a membership.                                                  *)
(***************************************************************************)
ReadForCreation(x, row) ==
    /\ pc[x] = "idle"
    /\ row.plan \in assignable
    /\ ValidDates(row)
    /\ FreezeAllowed(row)
    /\ Goto(x, "checked")
    /\ call' = [call EXCEPT ![x] = [row |-> row, kind |-> "create", of |-> None,
                                    seen |-> NoRow, newPlan |-> TRUE]]
    /\ UNCHANGED <<membership, branchVars, view, overtaken>>

BeginTransaction(x) ==
    /\ pc[x] = "checked"
    /\ call[x].kind = "create"
    /\ Goto(x, "waiting")
    /\ view' = [view EXCEPT ![x] = [existing |-> Existing, open |-> Open]]
    /\ UNCHANGED <<membership, branchVars, call, overtaken>>

AcquireStudentMembershipLock(x) ==
    /\ pc[x] = "waiting"
    /\ \A y \in Calls : pc[y] # "locked"
    /\ Goto(x, "locked")
    /\ UNCHANGED <<membership, branchVars, call, view, overtaken>>

\* Mutant of Fresh: no write conflict is detected, as under a weaker isolation.
FreshUnchecked(x) == view[x] \in Snapshot

\* No open membership was created since the snapshot.  Updates do not count:
\* they are not Serializable.
Fresh(x) == Open \subseteq view[x].existing

NextNumber(m) == m \notin Existing /\ \A n \in Memberships : n < m => n \in Existing

CreateStudentMembership(x) ==
    /\ pc[x] = "locked"
    /\ view[x].open = {}
    /\ Fresh(x)
    /\ \E m \in Memberships :
          /\ NextNumber(m)
          /\ membership' = [membership EXCEPT ![m] = call[x].row]
    /\ End(x)
    /\ UNCHANGED <<branchVars, overtaken>>

\* The snapshot shows an open membership or the commit is refused, or the call
\* dies, at whatever point.
Abandon(x) ==
    /\ pc[x] \in {"checked", "waiting", "locked"}
    /\ End(x)
    /\ UNCHANGED <<membership, branchVars, overtaken>>

-----------------------------------------------------------------------------
(***************************************************************************)
(* Updating the current membership.                                        *)
(***************************************************************************)
Current(m) ==
    /\ m \in Open
    /\ \A n \in Open \ {m} :
          \/ membership[n].from < membership[m].from
          \/ membership[n].from = membership[m].from /\ n < m

\* Mutant of Or: what is not named is lost.
OrNothing(named, kept) == IF named = None THEN None ELSE named

Or(named, kept) == IF named = None THEN kept ELSE named

\* An end, and dates of a freeze, do not outlive a status that is named and
\* does not go with them.
Merged(row, change) ==
    LET status == Or(change.status, row.status)
        Freeze(named, kept) ==
            CASE change.clearFreeze -> None
              [] ~change.clearFreeze /\ named # None -> named
              [] ~change.clearFreeze /\ named = None ->
                     IF change.status \in {"ACTIVE", "ENDED"} THEN None ELSE kept
    IN  [status |-> status, from |-> Or(change.from, row.from),
         freezeFrom |-> Freeze(change.freezeFrom, row.freezeFrom),
         plan |-> Or(change.plan, row.plan),
         to |-> Or(change.to, IF status = "ENDED" THEN Or(row.to, today)
                              ELSE IF change.status # None THEN None ELSE row.to),
         freezeTo |-> Freeze(change.freezeTo, row.freezeTo)]

ReadForUpdate(x, m, change) ==
    LET row == Merged(membership[m], change)
    IN  /\ pc[x] = "idle"
        /\ Current(m)
        /\ row.plan \in assignable
        /\ ValidDates(row)
        /\ FreezeAllowed(row)
        /\ Goto(x, "checked")
        /\ call' = [call EXCEPT ![x] = [row |-> row, kind |-> "update", of |-> m,
                                        seen |-> membership[m],
                                        newPlan |-> change.plan # None]]
        /\ UNCHANGED <<membership, branchVars, view, overtaken>>

\* Mutant of Written: what the call has not changed is left as it is.
WrittenIfChanged(now, c) ==
    [field \in DOMAIN now |->
        IF c.row[field] = c.seen[field] THEN now[field] ELSE c.row[field]]

\* All of the merged row is written, but the plan only if it was named.
Written(now, c) == [c.row EXCEPT !.plan = IF c.newPlan THEN @ ELSE now.plan]

UpdateStudentMembership(x) ==
    LET c == call[x]
    IN  /\ pc[x] = "checked"
        /\ c.kind = "update"
        /\ membership' = [membership EXCEPT ![c.of] = Written(@, c)]
        /\ overtaken' = overtaken \cup {m \in {c.of} : membership[m] # c.seen}
        /\ End(x)
        /\ UNCHANGED branchVars

-----------------------------------------------------------------------------
Creation(x) ==
    \/ \E row \in NewRows : ReadForCreation(x, row)
    \/ BeginTransaction(x)
    \/ AcquireStudentMembershipLock(x)
    \/ CreateStudentMembership(x)

Update(x) ==
    \/ \E m \in Memberships, change \in Changes : ReadForUpdate(x, m, change)
    \/ UpdateStudentMembership(x)

Next ==
    \/ \E x \in Calls : Creation(x) \/ Update(x) \/ Abandon(x)
    \/ \E p \in Plans, isActive \in BOOLEAN : UpdateBillingPlan(p, isActive)
    \/ \E allow \in BOOLEAN, limit \in Limits \cup {None} : UpdateBillingPolicy(allow, limit)
    \/ NextDay

Spec == Init /\ [][Next]_vars

-----------------------------------------------------------------------------
(***************************************************************************)
(* Properties.                                                             *)
(***************************************************************************)
TypeOK ==
    /\ membership \in [Memberships -> Row \cup {NoRow}]
    /\ assignable \subseteq Plans
    /\ policy \in Policy
    /\ today \in Nat
    /\ pc \in [Calls -> {"idle", "checked", "waiting", "locked", "done"}]
    /\ call \in [Calls -> Call \cup {NoCall}]
    /\ view \in [Calls -> Snapshot]
    /\ overtaken \subseteq Memberships

\* A student has one open membership in a branch, although a creation looks for
\* others on a snapshot older than its lock, except for memberships that an
\* update wrote from an older row: such an update can reopen what another call
\* has closed, after a new membership was created.
OneOpenMembership == \A m, n \in Open \ overtaken : m = n

\* What an update merged with a row read earlier is coherent as a row whatever
\* it overwrites: a frozen membership knows since when, and no period ends
\* before it begins.
RowsAreCoherent ==
    \A m \in Existing :
        /\ ValidDates(membership[m])
        /\ membership[m].status = "FROZEN" => membership[m].freezeFrom # None
=============================================================================
