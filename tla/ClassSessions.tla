---------------------------- MODULE ClassSessions ----------------------------
(***************************************************************************)
(* Class schedules and sessions (src/src/classes).  Sessions are created,  *)
(* generated from schedules, moved, canceled and reinstated by concurrent  *)
(* calls.  Every write of sessions is a Serializable transaction behind    *)
(* the locks of its branch and of its instructors, so that it reads and    *)
(* writes as one step; what a call reads before its transaction may be     *)
(* stale by then.                                                          *)
(*                                                                         *)
(* Instants are numbered from the start of day 0, every schedule and every *)
(* session of one time zone.  A week has Week days.  SCHEDULED stands for  *)
(* every status but CANCELED, a call gives a cancellation reason if and    *)
(* only if it cancels, and schedules are numbered in the order of their    *)
(* titles.                                                                 *)
(***************************************************************************)
EXTENDS Integers, Functions

CONSTANTS
    Branches,
    Instructors,
    Schedules,          \* numbers
    Sessions,
    Updates,            \* calls that update a session, each used once
    Generations,        \* calls that create sessions from schedules, each used once
    Days,               \* bound: the days that calls speak of
    Instants,           \* bound: the instants that calls speak of
    DayLength,
    MaxLength,          \* bound: the longest that a class lasts
    Week,
    None

ASSUME SchedulesAreNumbered == Schedules \subseteq Nat
ASSUME TimeIsNumbered == Days \cup Instants \subseteq Nat
ASSUME TimeIsMeasured == {DayLength, MaxLength, Week} \subseteq Nat \ {0}
ASSUME CallsAreApart == Updates \cap Generations = {}
ASSUME NoneIsNothing == None \notin Branches \cup Instructors \cup Schedules \cup Sessions

VARIABLES
    schedule,       \* schedule[k]: the ClassSchedule row
    session,        \* session[s]: the ClassSession row
    pc,             \* pc[x]: how far call x has got
    update,         \* update[u]: the update that call u is about to write
    candidates,     \* candidates[g]: the sessions that call g is about to create
    overtaken       \* history: sessions written by an update that read an older row

vars == <<schedule, session, pc, update, candidates, overtaken>>

Calls == Updates \cup Generations
Weekdays == 0..(Week - 1)
Windows == {w \in Instants \X Instants : w[1] < w[2] /\ w[2] <= w[1] + MaxLength}
DayOf(instant) == instant \div DayLength

Schedule == [active : BOOLEAN, branch : Branches, instructor : Instructors,
             weekday : Weekdays, from : 0..DayLength, to : 0..DayLength]
NoSchedule == [active |-> FALSE, branch |-> None, instructor |-> None,
               weekday |-> 0, from |-> 0, to |-> 0]

Statuses == {"SCHEDULED", "CANCELED"}
Session == [schedule : Schedules \cup {None}, branch : Branches,
            instructor : Instructors, from : Nat, to : Nat,
            status : Statuses, date : Days]
NoSession == [schedule |-> None, branch |-> None, instructor |-> None, from |-> 0,
              to |-> 0, status |-> "ABSENT", date |-> 0]

Fields == {"date", "status"}
Update == [of : Sessions, seen : Session, row : Session,
           named : SUBSET Fields]
NoUpdate == [of |-> None, seen |-> NoSession, row |-> NoSession, named |-> {}]

Init ==
    /\ schedule = [k \in Schedules |-> NoSchedule]
    /\ session = [s \in Sessions |-> NoSession]
    /\ pc = [x \in Calls |-> "idle"]
    /\ update = [u \in Updates |-> NoUpdate]
    /\ candidates = [g \in Generations |-> {}]
    /\ overtaken = {}

-----------------------------------------------------------------------------
(***************************************************************************)
(* Schedules.  Their rows are written without a transaction.               *)
(***************************************************************************)
CreateClassSchedule(k, row) ==
    /\ schedule[k] = NoSchedule
    /\ row.from < row.to
    /\ schedule' = [schedule EXCEPT ![k] = row]
    /\ UNCHANGED <<session, pc, update, candidates, overtaken>>

\* Everything but the branch can be changed, sessions that exist stay as they are.
\* Calls that overlap may each move one end of the window, checked against the
\* other end as it was: together they can invert it.
UpdateClassSchedule(k, row) ==
    /\ schedule[k] # NoSchedule
    /\ row.branch = schedule[k].branch
    /\ row.from < DayLength /\ row.to > 0
    /\ schedule' = [schedule EXCEPT ![k] = row]
    /\ UNCHANGED <<session, pc, update, candidates, overtaken>>

-----------------------------------------------------------------------------
(***************************************************************************)
(* Checks inside the transactions.                                         *)
(***************************************************************************)
Existing == {s \in Sessions : session[s] # NoSession}

\* Sessions of a schedule on a date, the canceled ones included.
OnScheduleDate(k, date) == {s \in Existing : session[s].schedule = k /\ session[s].date = date}

\* One may begin when the other ends.
Intersect(a, b) == a.from < b.to /\ b.from < a.to

Conflicts(row) ==
    {s \in Existing : /\ session[s].status # "CANCELED"
                      /\ Intersect(session[s], row)
                      /\ \/ session[s].branch = row.branch
                         \/ session[s].instructor = row.instructor}

\* Mutant of Placeable: the schedule's other sessions are not looked for.
PlaceableTwice(row, except) == Conflicts(row) \subseteq except

Placeable(row, except) ==
    /\ row.schedule # None => OnScheduleDate(row.schedule, row.date) \subseteq except
    /\ Conflicts(row) \subseteq except

-----------------------------------------------------------------------------
(***************************************************************************)
(* Creating sessions.                                                      *)
(***************************************************************************)
\* What is checked of a session's times, with or without a transaction.
ValidTimes(row) == row.from < row.to /\ DayOf(row.from) = row.date

\* Nothing that is read before the transaction can change: schedules are never
\* deleted and keep their branch, and every instructor is taken to be eligible.
CreateClassSession(s, row) ==
    /\ session[s] = NoSession
    /\ ValidTimes(row)
    /\ row.schedule # None => schedule[row.schedule].branch = row.branch
    /\ Placeable(row, {})
    /\ session' = [session EXCEPT ![s] = row]
    /\ UNCHANGED <<schedule, pc, update, candidates, overtaken>>

\* Mutant of Materialized: the instructor is not copied.
MaterializedUnled(k, d) ==
    [schedule |-> k, branch |-> schedule[k].branch, instructor |-> None,
     from |-> d * DayLength + schedule[k].from, to |-> d * DayLength + schedule[k].to,
     status |-> "SCHEDULED", date |-> d]

\* The session that schedule k has on date d.
Materialized(k, d) ==
    [schedule |-> k, branch |-> schedule[k].branch, instructor |-> schedule[k].instructor,
     from |-> d * DayLength + schedule[k].from, to |-> d * DayLength + schedule[k].to,
     status |-> "SCHEDULED", date |-> d]

Spawns(k, b, d) ==
    /\ schedule[k].active
    /\ schedule[k].branch = b
    /\ d % Week = schedule[k].weekday

\* What a call creates that fills the gaps of a range, as they are when it reads.
Gaps(rows) == {row \in rows : OnScheduleDate(row.schedule, row.date) = {}}

\* One schedule on one date, all active schedules of a branch over a range, or
\* those of them without a session; one bad window refuses the whole call.
ReadSchedules(g, b, first, last) ==
    LET inRange == {kd \in Schedules \X {d \in Days : first <= d /\ d <= last} :
                       Spawns(kd[1], b, kd[2])}
        all == {Materialized(kd[1], kd[2]) : kd \in inRange}
    IN  /\ pc[g] = "idle"
        /\ \E rows \in {all, Gaps(all)} \cup {{row} : row \in all} :
              /\ \A row \in rows : ValidTimes(row)
              /\ candidates' = [candidates EXCEPT ![g] = rows]
        /\ pc' = [pc EXCEPT ![g] = "read"]
        /\ UNCHANGED <<schedule, session, update, overtaken>>

\* Candidates are tried by start time and title, and one that finds a session
\* of its schedule and date, or a conflict, is skipped.
Earlier(a, b) == a.from < b.from \/ (a.from = b.from /\ a.schedule < b.schedule)

\* All candidates are of one branch.
Created(rows, made) ==
    made = {row \in rows : /\ Placeable(row, {})
                           /\ \A other \in made : Earlier(other, row) =>
                                                     ~Intersect(other, row)}

GenerateClassSessions(g) ==
    /\ pc[g] = "read"
    /\ \E made \in SUBSET candidates[g] : \E fresh \in SUBSET (Sessions \ Existing) :
          /\ Created(candidates[g], made)
          /\ \E row \in Bijection(fresh, made) :
                session' = [s \in Sessions |-> IF s \in fresh THEN row[s] ELSE session[s]]
    /\ pc' = [pc EXCEPT ![g] = "done"]
    /\ candidates' = [candidates EXCEPT ![g] = {}]
    /\ UNCHANGED <<schedule, update, overtaken>>

-----------------------------------------------------------------------------
(***************************************************************************)
(* Updating a session.                                                     *)
(***************************************************************************)
\* The session is read, merged with the fields that the call names and checked
\* before the transaction: row is the merged row.
ReadSession(u, s, row, named) ==
    /\ pc[u] = "idle"
    /\ s \in Existing
    /\ row.branch = session[s].branch /\ row.schedule = session[s].schedule
    /\ row.date = session[s].date \/ "date" \in named
    /\ row.status = session[s].status \/ "status" \in named
    /\ ValidTimes(row)
    /\ pc' = [pc EXCEPT ![u] = "read"]
    /\ update' = [update EXCEPT ![u] =
                     [of |-> s, seen |-> session[s], row |-> row, named |-> named]]
    /\ UNCHANGED <<schedule, session, candidates, overtaken>>

\* Mutant of Written: the date stays behind.
WrittenSameDate(now, up) ==
    [now EXCEPT !.instructor = up.row.instructor,
                !.from = up.row.from,
                !.to = up.row.to,
                !.status = IF "status" \in up.named THEN up.row.status ELSE @]

\* The instructor and the times are always written, the rest if it was named.
Written(now, up) ==
    [now EXCEPT !.instructor = up.row.instructor,
                !.from = up.row.from,
                !.to = up.row.to,
                !.date = IF "date" \in up.named THEN up.row.date ELSE @,
                !.status = IF "status" \in up.named THEN up.row.status ELSE @]

\* Mutant of Checked: a call that does not name the status is not checked.
CheckedIfNamed(up) ==
    "status" \in up.named /\ up.row.status # "CANCELED" => Placeable(up.row, {up.of})

\* Whether conflicts count is decided by the merged status, not by the row's.
Checked(up) == up.row.status # "CANCELED" => Placeable(up.row, {up.of})

UpdateClassSession(u) ==
    LET up == update[u]
    IN  /\ pc[u] = "read"
        /\ Checked(up)
        /\ session' = [session EXCEPT ![up.of] = Written(session[up.of], up)]
        /\ overtaken' = overtaken \cup {s \in {up.of} : session[s] # up.seen}
        /\ pc' = [pc EXCEPT ![u] = "done"]
        /\ update' = [update EXCEPT ![u] = NoUpdate]
        /\ UNCHANGED <<schedule, candidates>>

\* A conflict, a serialization failure, a refused statement or a crash: the
\* transaction of an update or of a generation leaves nothing behind.
Abandon(x) ==
    /\ pc[x] = "read"
    /\ pc' = [pc EXCEPT ![x] = "done"]
    /\ update' = IF x \in Updates THEN [update EXCEPT ![x] = NoUpdate] ELSE update
    /\ candidates' = IF x \in Generations THEN [candidates EXCEPT ![x] = {}] ELSE candidates
    /\ UNCHANGED <<schedule, session, overtaken>>

-----------------------------------------------------------------------------
Schedulings(k) ==
    \E row \in Schedule :
        /\ row.to <= row.from + MaxLength
        /\ CreateClassSchedule(k, row) \/ UpdateClassSchedule(k, row)

Creations(s) ==
    \E b \in Branches, i \in Instructors, k \in Schedules \cup {None}, d \in Days,
       w \in Windows :
        CreateClassSession(s, [schedule |-> k, branch |-> b, instructor |-> i, from |-> w[1],
                               to |-> w[2], status |-> "SCHEDULED", date |-> d])

Readings(u) ==
    \E s \in Existing, i \in Instructors, w \in Windows, d \in Days,
       status \in Statuses, named \in SUBSET Fields :
        ReadSession(u, s, [session[s] EXCEPT !.instructor = i, !.from = w[1], !.to = w[2],
                                             !.date = d, !.status = status], named)

Next ==
    \/ \E k \in Schedules : Schedulings(k)
    \/ \E s \in Sessions : Creations(s)
    \/ \E g \in Generations, b \in Branches, first, last \in Days :
          ReadSchedules(g, b, first, last)
    \/ \E g \in Generations : GenerateClassSessions(g)
    \/ \E u \in Updates : Readings(u) \/ UpdateClassSession(u)
    \/ \E x \in Calls : Abandon(x)

Spec == Init /\ [][Next]_vars

-----------------------------------------------------------------------------
(***************************************************************************)
(* Properties.                                                             *)
(***************************************************************************)
TypeOK ==
    /\ schedule \in [Schedules -> Schedule \cup {NoSchedule}]
    /\ session \in [Sessions -> Session \cup {NoSession}]
    /\ pc \in [Calls -> {"idle", "read", "done"}]
    /\ update \in [Updates -> Update \cup {NoUpdate}]
    /\ candidates \in [Generations -> SUBSET Session]
    /\ overtaken \subseteq Sessions

Live == {s \in Existing : session[s].status = "SCHEDULED"}

Clash(s, t) ==
    /\ s # t
    /\ \/ session[s].branch = session[t].branch
       \/ session[s].instructor = session[t].instructor
    /\ Intersect(session[s], session[t])

\* Whatever is created, generated, moved and reinstated at the same time, live
\* sessions of one branch or of one instructor are apart, except for those that
\* an update wrote from an older row.
LiveSessionsApart == \A s, t \in Live \ overtaken : ~Clash(s, t)

\* A schedule has one live session on a date, however often its sessions are
\* generated, canceled, moved onto each other's dates and reinstated.
OneLiveSessionPerDate ==
    \A s, t \in Live \ overtaken :
        /\ session[s].schedule # None
        /\ session[s].schedule = session[t].schedule
        /\ session[s].date = session[t].date
        => s = t

\* What an update writes field by field is coherent as a row, the date is that of
\* the start and the end is later, and a schedule whose window was inverted by
\* overlapping updates never gets a session from it.
RowsAreCoherent == \A s \in Existing \ overtaken : ValidTimes(session[s])

-----------------------------------------------------------------------------
(***************************************************************************)
(* What the decisions say, and the code does not keep.                     *)
(***************************************************************************)
\* "Overlapping ClassSession entries in the same branch are invalid" (DD-014),
\* those that an update wrote from an older row included.
BranchSessionsApart ==
    \A s, t \in Live : session[s].branch = session[t].branch => ~Clash(s, t)
=============================================================================
