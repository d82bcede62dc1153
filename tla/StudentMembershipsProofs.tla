----------------------- MODULE StudentMembershipsProofs -----------------------
(***************************************************************************)
(* Proofs about StudentMemberships for every number of memberships, plans  *)
(* and concurrent calls.                                                   *)
(***************************************************************************)
EXTENDS StudentMemberships, TLAPS

Coherent(row) ==
    /\ ValidDates(row)
    /\ row.status = "FROZEN" => row.freezeFrom # None

\* A call that is about to write holds a coherent row, and an update has read
\* the row it is about to write when it was open.
CallsAreChecked ==
    \A x \in Calls :
        pc[x] \in {"checked", "waiting", "locked"} =>
            /\ call[x] \in Call
            /\ Coherent(call[x].row)
            /\ call[x].kind = "update" =>
                  /\ call[x].of \in Existing
                  /\ call[x].seen \in Row
                  /\ call[x].seen.status # "ENDED"

TypeInv == TypeOK /\ CallsAreChecked /\ RowsAreCoherent

-----------------------------------------------------------------------------
(***************************************************************************)
(* Type correctness and coherence.                                         *)
(***************************************************************************)
LEMMA RowsExist ==
    /\ NoRow \notin Row
    /\ \A row \in Row : row.status # "ABSENT"
BY DEF NoRow, Row, Statuses

LEMMA ExistingTyped ==
    ASSUME TypeOK, NEW m \in Existing
    PROVE  m \in Memberships /\ membership[m] \in Row
BY DEF TypeOK, Existing

\* What passes the checks of a call is coherent.
LEMMA CheckedIsCoherent ==
    ASSUME NEW row, ValidDates(row), FreezeAllowed(row)
    PROVE  Coherent(row)
BY DEF Coherent, FreezeAllowed

LEMMA NewRowsTyped ==
    ASSUME NEW row \in NewRows
    PROVE  row \in Row
BY RowsAreNew

LEMMA MergedTyped ==
    ASSUME TypeOK, NEW row \in Row, NEW change \in Change
    PROVE  Merged(row, change) \in Row
<1> DEFINE status == Or(change.status, row.status)
           Freeze(named, kept) ==
               CASE change.clearFreeze -> None
                 [] ~change.clearFreeze /\ named # None -> named
                 [] ~change.clearFreeze /\ named = None ->
                        IF change.status \in {"ACTIVE", "ENDED"} THEN None ELSE kept
<1>1. status \in Statuses
  BY NoneIsNothing DEF Change, Row, Or, Statuses
<1>2. Or(change.plan, row.plan) \in Plans /\ Or(change.from, row.from) \in Nat
  BY NoneIsNothing DEF Change, Row, Or, Date
<1>3. Or(change.to, IF status = "ENDED" THEN Or(row.to, today)
                     ELSE IF change.status # None THEN None ELSE row.to) \in Date
  BY DEF TypeOK, Change, Row, Or, Date
<1>4. change.clearFreeze \in BOOLEAN
  BY DEF Change
<1>5. \A named, kept \in Date : Freeze(named, kept) \in Date
  BY <1>4 DEF Date
<1>6. /\ Freeze(change.freezeFrom, row.freezeFrom) \in Date
      /\ Freeze(change.freezeTo, row.freezeTo) \in Date
  BY <1>5 DEF Change, Row
<1> QED
  BY <1>1, <1>2, <1>3, <1>6 DEF Merged, Row

LEMMA TypeInit == Init => TypeInv
BY DEF Init, TypeInv, TypeOK, CallsAreChecked, RowsAreCoherent, Existing, Policy, Snapshot,
       NoSnapshot, Call

\* Rows are only added or replaced by rows, and calls move on as they are.
LEMMA ExistingGrows ==
    ASSUME TypeOK, TypeOK', \A m \in Existing : membership'[m] # NoRow
    PROVE  Existing \subseteq Existing'
BY DEF Existing

LEMMA EndPreserves ==
    ASSUME TypeInv, NEW x \in Calls, End(x), TypeOK',
           \A m \in Existing : membership'[m] # NoRow
    PROVE  CallsAreChecked'
<1>1. \A y \in Calls : pc'[y] \in {"checked", "waiting", "locked"} =>
          y # x /\ pc'[y] = pc[y] /\ call'[y] = call[y]
  BY DEF End, Goto, TypeInv, TypeOK
<1>2. Existing \subseteq Existing'
  BY ExistingGrows DEF TypeInv
<1> QED
  BY <1>1, <1>2 DEF CallsAreChecked, TypeInv, Coherent, ValidDates, NotBefore

\* A step that only starts a call.
LEMMA StartPreserves ==
    ASSUME TypeInv, NEW x \in Calls, NEW c \in Call, pc[x] = "idle", Goto(x, "checked"),
           call' = [call EXCEPT ![x] = c], UNCHANGED <<membership, branchVars, view, overtaken>>,
           Coherent(c.row),
           c.kind = "update" => c.of \in Existing /\ c.seen \in Row /\ c.seen.status # "ENDED"
    PROVE  TypeInv'
<1>1. TypeOK'
  BY DEF TypeInv, TypeOK, Goto, branchVars
<1>2. Existing' = Existing
  BY DEF Existing
<1>3. \A y \in Calls : y # x => pc'[y] = pc[y] /\ call'[y] = call[y]
  BY DEF Goto, TypeInv, TypeOK
<1>4. call'[x] = c
  BY DEF TypeInv, TypeOK
<1>5. CallsAreChecked'
  BY <1>2, <1>3, <1>4 DEF CallsAreChecked, TypeInv, Coherent, ValidDates, NotBefore
<1>6. RowsAreCoherent'
  BY <1>2 DEF RowsAreCoherent, TypeInv, ValidDates, NotBefore
<1> QED
  BY <1>1, <1>5, <1>6 DEF TypeInv

LEMMA CreationTyped ==
    ASSUME TypeInv, NEW x \in Calls, NEW row \in NewRows, ReadForCreation(x, row)
    PROVE  TypeInv'
<1> DEFINE c == [kind |-> "create", of |-> None, seen |-> NoRow, row |-> row,
                 newPlan |-> TRUE]
<1>1. c \in Call
  BY NewRowsTyped DEF Call
<1>2. Coherent(row)
  BY CheckedIsCoherent DEF ReadForCreation
<1>3. /\ pc[x] = "idle" /\ Goto(x, "checked")
      /\ call' = [call EXCEPT ![x] = c]
      /\ UNCHANGED <<membership, branchVars, view, overtaken>>
  BY DEF ReadForCreation
<1>4. c.row = row /\ c.kind # "update"
  OBVIOUS
<1> HIDE DEF c
<1> QED
  BY <1>1, <1>2, <1>3, <1>4, StartPreserves

LEMMA ReadingTyped ==
    ASSUME TypeInv, NEW x \in Calls, NEW m \in Memberships, NEW change \in Changes,
           ReadForUpdate(x, m, change)
    PROVE  TypeInv'
<1> DEFINE row == Merged(membership[m], change)
           c == [kind |-> "update", of |-> m, seen |-> membership[m], row |-> row,
                 newPlan |-> change.plan # None]
<1>1. m \in Existing /\ membership[m] \in Row /\ membership[m].status # "ENDED"
  BY ExistingTyped DEF ReadForUpdate, Current, Open, TypeInv
<1>2. row \in Row
  BY <1>1, MergedTyped, ChangesAreNamed DEF TypeInv
<1>3. Coherent(row)
  BY CheckedIsCoherent DEF ReadForUpdate
<1>4. /\ pc[x] = "idle" /\ Goto(x, "checked")
      /\ call' = [call EXCEPT ![x] = c]
      /\ UNCHANGED <<membership, branchVars, view, overtaken>>
  BY DEF ReadForUpdate
<1> HIDE DEF row
<1>5. c \in Call
  BY <1>1, <1>2 DEF Call
<1>6. c.row = row /\ c.of = m /\ c.seen = membership[m]
  OBVIOUS
<1> HIDE DEF c
<1> QED
  BY <1>1, <1>3, <1>4, <1>5, <1>6, StartPreserves

LEMMA TransactionTyped ==
    ASSUME TypeInv, NEW x \in Calls, BeginTransaction(x) \/ AcquireStudentMembershipLock(x)
    PROVE  TypeInv'
<1>1. TypeOK'
  <2>1. [existing |-> Existing, open |-> Open] \in Snapshot
    BY DEF Snapshot, Existing, Open
  <2> QED
    BY <2>1 DEF TypeInv, TypeOK, BeginTransaction, AcquireStudentMembershipLock, Goto,
                branchVars
<1>2. Existing' = Existing /\ call' = call /\ membership' = membership
  BY DEF Existing, BeginTransaction, AcquireStudentMembershipLock
<1>3. \A y \in Calls : pc'[y] \in {"checked", "waiting", "locked"} =>
          pc[y] \in {"checked", "waiting", "locked"}
  BY DEF TypeInv, TypeOK, BeginTransaction, AcquireStudentMembershipLock, Goto
<1>4. CallsAreChecked'
  BY <1>2, <1>3 DEF CallsAreChecked, TypeInv, Coherent, ValidDates, NotBefore
<1>5. RowsAreCoherent'
  BY <1>2 DEF RowsAreCoherent, TypeInv, ValidDates, NotBefore
<1> QED
  BY <1>1, <1>4, <1>5 DEF TypeInv

\* A step that writes a coherent row and ends its call.
LEMMA WritePreserves ==
    ASSUME TypeInv, NEW x \in Calls, NEW m \in Memberships, NEW row \in Row, Coherent(row),
           membership' = [membership EXCEPT ![m] = row], End(x), UNCHANGED branchVars,
           overtaken' \subseteq Memberships
    PROVE  TypeInv'
<1>1. TypeOK'
  BY DEF TypeInv, TypeOK, End, Goto, branchVars, NoSnapshot, Snapshot
<1>2. membership'[m] = row /\ \A n \in Memberships \ {m} : membership'[n] = membership[n]
  BY DEF TypeInv, TypeOK
<1>3. CallsAreChecked'
  BY <1>1, <1>2, EndPreserves, RowsExist DEF Existing
<1>4. RowsAreCoherent'
  <2> SUFFICES ASSUME NEW n \in Existing'
               PROVE  Coherent(membership'[n])
    BY DEF RowsAreCoherent, Coherent, ValidDates, NotBefore
  <2>1. CASE n = m
    BY <2>1, <1>2
  <2>2. CASE n # m
    BY <2>2, <1>2 DEF Existing, TypeInv, RowsAreCoherent, Coherent
  <2> QED
    BY <2>1, <2>2
<1> QED
  BY <1>1, <1>3, <1>4 DEF TypeInv

\* The plan that is written is one of the branch, and no check is about it.
LEMMA WrittenTyped ==
    ASSUME NEW now \in Row, NEW c \in Call, Coherent(c.row)
    PROVE  Written(now, c) \in Row /\ Coherent(Written(now, c))
<1>1. c.row \in Row
  BY DEF Call
<1> DEFINE plan == IF c.newPlan THEN c.row.plan ELSE now.plan
<1>2. plan \in Plans
  BY <1>1 DEF Row
<1>3. Written(now, c) = [c.row EXCEPT !.plan = plan]
  BY DEF Written
<1> HIDE DEF plan
<1>4. /\ Written(now, c) \in Row
      /\ Written(now, c).status = c.row.status /\ Written(now, c).from = c.row.from
      /\ Written(now, c).to = c.row.to
      /\ Written(now, c).freezeFrom = c.row.freezeFrom
      /\ Written(now, c).freezeTo = c.row.freezeTo
  BY <1>1, <1>2, <1>3 DEF Row
<1> QED
  BY <1>4 DEF Coherent, ValidDates

LEMMA TypeStep == TypeInv /\ [Next]_vars => TypeInv'
<1> SUFFICES ASSUME TypeInv, [Next]_vars
             PROVE  TypeInv'
  OBVIOUS
<1>1. ASSUME NEW x \in Calls, NEW row \in NewRows, ReadForCreation(x, row)
      PROVE  TypeInv'
  BY <1>1, CreationTyped
<1>2. ASSUME NEW x \in Calls, BeginTransaction(x) \/ AcquireStudentMembershipLock(x)
      PROVE  TypeInv'
  BY <1>2, TransactionTyped
<1>3. ASSUME NEW x \in Calls, CreateStudentMembership(x)
      PROVE  TypeInv'
  <2>1. PICK m \in Memberships : membership' = [membership EXCEPT ![m] = call[x].row]
    BY <1>3 DEF CreateStudentMembership
  <2>2. call[x] \in Call /\ Coherent(call[x].row)
    BY <1>3 DEF CreateStudentMembership, TypeInv, CallsAreChecked
  <2>3. call[x].row \in Row
    BY <2>2 DEF Call
  <2>4. End(x) /\ UNCHANGED branchVars /\ overtaken' \subseteq Memberships
    BY <1>3 DEF CreateStudentMembership, TypeInv, TypeOK
  <2> QED
    BY <2>1, <2>2, <2>3, <2>4, WritePreserves
<1>4. ASSUME NEW x \in Calls, NEW m \in Memberships, NEW change \in Changes,
             ReadForUpdate(x, m, change)
      PROVE  TypeInv'
  BY <1>4, ReadingTyped
<1>5. ASSUME NEW x \in Calls, UpdateStudentMembership(x)
      PROVE  TypeInv'
  <2> DEFINE c == call[x]
             m == c.of
  <2>1. /\ c \in Call /\ Coherent(c.row)
        /\ m \in Existing
    BY <1>5 DEF UpdateStudentMembership, TypeInv, CallsAreChecked
  <2>2. m \in Memberships /\ membership[m] \in Row
    BY <2>1, ExistingTyped DEF TypeInv
  <2>3. /\ membership' = [membership EXCEPT ![m] = Written(membership[m], c)]
        /\ overtaken' \subseteq Memberships
        /\ End(x) /\ UNCHANGED branchVars
    BY <1>5, <2>2 DEF UpdateStudentMembership, TypeInv, TypeOK
  <2> HIDE DEF c, m
  <2>4. Written(membership[m], c) \in Row /\ Coherent(Written(membership[m], c))
    BY <2>1, <2>2, WrittenTyped
  <2> QED
    BY <2>2, <2>3, <2>4, WritePreserves
<1>6. ASSUME NEW x \in Calls, Abandon(x)
      PROVE  TypeInv'
  <2>1. TypeOK'
    BY <1>6 DEF Abandon, TypeInv, TypeOK, End, Goto, branchVars, NoSnapshot, Snapshot
  <2>2. membership' = membership /\ End(x)
    BY <1>6 DEF Abandon
  <2>3. CallsAreChecked'
    BY <2>1, <2>2, EndPreserves DEF Existing
  <2>4. RowsAreCoherent'
    BY <2>2 DEF RowsAreCoherent, TypeInv, Existing, ValidDates, NotBefore
  <2> QED
    BY <2>1, <2>3, <2>4 DEF TypeInv
<1>7. ASSUME NEW p \in Plans, NEW isActive \in BOOLEAN, UpdateBillingPlan(p, isActive)
      PROVE  TypeInv'
  BY <1>7 DEF UpdateBillingPlan, TypeInv, TypeOK, CallsAreChecked, RowsAreCoherent, Existing,
              Coherent, ValidDates, NotBefore
<1>8. ASSUME NEW allow \in BOOLEAN, NEW limit \in Limits \cup {None},
             UpdateBillingPolicy(allow, limit)
      PROVE  TypeInv'
  BY <1>8 DEF UpdateBillingPolicy, TypeInv, TypeOK, CallsAreChecked, RowsAreCoherent,
              Existing, Coherent, ValidDates, NotBefore, Policy
<1>9. ASSUME NextDay
      PROVE  TypeInv'
  BY <1>9 DEF NextDay, TypeInv, TypeOK, CallsAreChecked, RowsAreCoherent, Existing,
              Coherent, ValidDates, NotBefore
<1>10. CASE UNCHANGED vars
  BY <1>10 DEF vars, TypeInv, TypeOK, CallsAreChecked, RowsAreCoherent, Existing, Coherent,
               ValidDates, NotBefore
<1> QED
  BY <1>1, <1>2, <1>3, <1>4, <1>5, <1>6, <1>7, <1>8, <1>9, <1>10
  DEF Next, Creation, Update

LEMMA TypeInvariant == Spec => []TypeInv
BY TypeInit, TypeStep, PTL DEF Spec

\* Every reachable state is well typed, whatever DTOs the calls carry.
THEOREM TypeCorrect == Spec => []TypeOK
BY TypeInvariant, PTL DEF TypeInv

\* Rows stay coherent although each update merges with a row that may be old: it
\* writes all that the checks were about, so that what it leaves is what it checked.
THEOREM RowsCoherent == Spec => []RowsAreCoherent
BY TypeInvariant, PTL DEF TypeInv

-----------------------------------------------------------------------------
(***************************************************************************)
(* One open membership.                                                    *)
(***************************************************************************)
\* What a creation's snapshot shows as closed is closed, or was overtaken.
ClosedIsClosed ==
    \A x \in Calls :
        pc[x] \in {"waiting", "locked"} =>
            /\ view[x].existing \subseteq Existing
            /\ view[x].existing \cap Open \subseteq view[x].open \cup overtaken

OpenInv == OneOpenMembership /\ ClosedIsClosed

LEMMA OpenInit == Init => OpenInv
BY RowsExist DEF Init, OpenInv, OneOpenMembership, ClosedIsClosed, Open, Existing

\* Whatever leaves the memberships alone.
LEMMA OpenUnchanged ==
    ASSUME TypeInv, OpenInv, UNCHANGED <<membership, overtaken>>,
           \A x \in Calls : pc'[x] \in {"waiting", "locked"} =>
               \/ pc[x] \in {"waiting", "locked"} /\ view'[x] = view[x]
               \/ view'[x] = [existing |-> Existing, open |-> Open]
    PROVE  OpenInv'
<1>1. Open' = Open /\ Existing' = Existing
  BY DEF Open, Existing
<1>2. OneOpenMembership'
  BY <1>1 DEF OpenInv, OneOpenMembership
<1>3. ClosedIsClosed'
  BY <1>1 DEF OpenInv, ClosedIsClosed
<1> QED
  BY <1>2, <1>3 DEF OpenInv

\* A call that ends is in no transaction, and the others are where they were.
LEMMA EndLeaves ==
    ASSUME TypeInv, NEW x \in Calls, End(x), NEW y \in Calls, pc'[y] \in {"waiting", "locked"}
    PROVE  y # x /\ pc[y] \in {"waiting", "locked"} /\ view'[y] = view[y]
BY DEF End, Goto, TypeInv, TypeOK

\* A creation commits only if every other open membership was overtaken.
LEMMA CreationOpen ==
    ASSUME TypeInv, OpenInv, NEW x \in Calls, CreateStudentMembership(x)
    PROVE  OpenInv'
<1>1. PICK m \in Memberships :
          NextNumber(m) /\ membership' = [membership EXCEPT ![m] = call[x].row]
  BY DEF CreateStudentMembership
<1>2. \A n \in Memberships \ {m} : membership'[n] = membership[n]
  BY <1>1 DEF TypeInv, TypeOK
<1>3. Open' \subseteq Open \cup {m} /\ overtaken' = overtaken
  BY <1>1, <1>2 DEF Open, Existing, CreateStudentMembership
<1>4. m \notin Existing /\ Existing \subseteq Existing'
  BY <1>1, <1>2 DEF NextNumber, Existing
<1>5. Open \subseteq overtaken
  BY DEF CreateStudentMembership, Fresh, OpenInv, ClosedIsClosed
<1>6. OneOpenMembership'
  BY <1>3, <1>5 DEF OneOpenMembership
<1>7. ClosedIsClosed'
  <2> SUFFICES ASSUME NEW y \in Calls, pc'[y] \in {"waiting", "locked"}
               PROVE  /\ view'[y].existing \subseteq Existing'
                      /\ view'[y].existing \cap Open' \subseteq view'[y].open \cup overtaken'
    BY DEF ClosedIsClosed
  <2>1. pc[y] \in {"waiting", "locked"} /\ view'[y] = view[y]
    BY EndLeaves DEF CreateStudentMembership
  <2> QED
    BY <2>1, <1>3, <1>4 DEF OpenInv, ClosedIsClosed
<1> QED
  BY <1>6, <1>7 DEF OpenInv

\* An update opens only what it found open when it read it, so that what it
\* reopens was overtaken.
LEMMA UpdateOpen ==
    ASSUME TypeInv, OpenInv, NEW x \in Calls, UpdateStudentMembership(x), TypeInv'
    PROVE  OpenInv'
<1> DEFINE m == call[x].of
<1>1. m \in Existing /\ call[x].seen.status # "ENDED" /\ m \in Memberships
  BY ExistingTyped DEF UpdateStudentMembership, TypeInv, CallsAreChecked
<1>2. /\ \A n \in Memberships \ {m} : membership'[n] = membership[n]
      /\ overtaken \subseteq overtaken'
      /\ membership[m] # call[x].seen => m \in overtaken'
      /\ End(x)
  BY <1>1 DEF UpdateStudentMembership, TypeInv, TypeOK
<1>3. Existing \subseteq Existing'
  <2>1. membership'[m] \in Row
    <3>1. call[x] \in Call /\ Coherent(call[x].row) /\ membership[m] \in Row
      BY <1>1, ExistingTyped DEF UpdateStudentMembership, TypeInv, CallsAreChecked
    <3>2. membership'[m] = Written(membership[m], call[x])
      BY <1>1 DEF UpdateStudentMembership, TypeInv, TypeOK
    <3> QED
      BY <3>1, <3>2, WrittenTyped
  <2> QED
    BY <1>2, <2>1, RowsExist DEF Existing
<1>4. Open' \subseteq Open \cup {m}
  BY <1>2 DEF Open, Existing
<1>5. m \in Open \/ m \in overtaken'
  BY <1>1, <1>2 DEF Open
<1>6. OneOpenMembership'
  BY <1>2, <1>4, <1>5 DEF OneOpenMembership, OpenInv
<1>7. ClosedIsClosed'
  <2> SUFFICES ASSUME NEW y \in Calls, pc'[y] \in {"waiting", "locked"}
               PROVE  /\ view'[y].existing \subseteq Existing'
                      /\ view'[y].existing \cap Open' \subseteq view'[y].open \cup overtaken'
    BY DEF ClosedIsClosed
  <2>1. pc[y] \in {"waiting", "locked"} /\ view'[y] = view[y]
    BY <1>2, EndLeaves
  <2> QED
    BY <2>1, <1>2, <1>3, <1>4, <1>5 DEF OpenInv, ClosedIsClosed
<1> QED
  BY <1>6, <1>7 DEF OpenInv

LEMMA OpenStep == TypeInv /\ OpenInv /\ [Next]_vars => OpenInv'
<1> SUFFICES ASSUME TypeInv, OpenInv, [Next]_vars
             PROVE  OpenInv'
  OBVIOUS
<1>1. ASSUME NEW x \in Calls, NEW row \in NewRows, ReadForCreation(x, row)
      PROVE  OpenInv'
  BY <1>1, OpenUnchanged DEF ReadForCreation, Goto, TypeInv, TypeOK
<1>2. ASSUME NEW x \in Calls, BeginTransaction(x)
      PROVE  OpenInv'
  <2>1. \A y \in Calls :
            IF y = x THEN view'[y] = [existing |-> Existing, open |-> Open]
            ELSE pc'[y] = pc[y] /\ view'[y] = view[y]
    BY <1>2 DEF BeginTransaction, Goto, TypeInv, TypeOK
  <2> QED
    BY <1>2, <2>1, OpenUnchanged DEF BeginTransaction
<1>3. ASSUME NEW x \in Calls, AcquireStudentMembershipLock(x)
      PROVE  OpenInv'
  BY <1>3, OpenUnchanged DEF AcquireStudentMembershipLock, Goto, TypeInv, TypeOK
<1>4. ASSUME NEW x \in Calls, CreateStudentMembership(x)
      PROVE  OpenInv'
  BY <1>4, CreationOpen
<1>5. ASSUME NEW x \in Calls, NEW m \in Memberships, NEW change \in Changes,
             ReadForUpdate(x, m, change)
      PROVE  OpenInv'
  <2>1. UNCHANGED <<membership, view, overtaken>> /\ Goto(x, "checked")
    BY <1>5 DEF ReadForUpdate
  <2>2. \A y \in Calls : pc'[y] \in {"waiting", "locked"} => pc[y] = pc'[y]
    BY <2>1 DEF Goto, TypeInv, TypeOK
  <2> QED
    BY <2>1, <2>2, OpenUnchanged
<1>6. ASSUME NEW x \in Calls, UpdateStudentMembership(x)
      PROVE  OpenInv'
  <2>1. TypeInv'
    BY TypeStep
  <2> QED
    BY <1>6, <2>1, UpdateOpen
<1>7. ASSUME NEW x \in Calls, Abandon(x)
      PROVE  OpenInv'
  BY <1>7, EndLeaves, OpenUnchanged DEF Abandon
<1>8. ASSUME UNCHANGED <<membership, pc, view, overtaken>>
      PROVE  OpenInv'
  BY <1>8, OpenUnchanged
<1> QED
  BY <1>1, <1>2, <1>3, <1>4, <1>5, <1>6, <1>7, <1>8
  DEF Next, Creation, Update, UpdateBillingPlan, UpdateBillingPolicy, NextDay, vars

LEMMA OpenInvariant == Spec => [](TypeInv /\ OpenInv)
BY TypeInit, TypeStep, OpenInit, OpenStep, PTL DEF Spec

\* Two creations never leave two open memberships, for any number of calls: the
\* second sees the first or is refused, and only an update that overtook a close
\* can bring one back beside another.
THEOREM OneOpen == Spec => []OneOpenMembership
BY OpenInvariant, PTL DEF OpenInv
=============================================================================
