------------------------- MODULE ClassSessionsProofs -------------------------
(***************************************************************************)
(* Proofs about ClassSessions for every set of branches, instructors,      *)
(* schedules and sessions, and for any number of concurrent calls.         *)
(***************************************************************************)
EXTENDS ClassSessions, TLAPS

\* What an update has in hand agrees with the row it was read from wherever the
\* call does not name a change.
UpdatesAreMerged ==
    \A u \in Updates :
        pc[u] = "read" =>
            LET up == update[u]
            IN  /\ up \in Update
                /\ up.of \in Existing
                /\ up.row.branch = up.seen.branch /\ up.row.schedule = up.seen.schedule
                /\ up.row.date = up.seen.date \/ "date" \in up.named
                /\ up.row.status = up.seen.status \/ "status" \in up.named
                /\ ValidTimes(up.row)

\* What a generation has in hand: live rows of schedules, one per schedule and date.
CandidatesAreKeyed ==
    \A g \in Generations :
        /\ \A r \in candidates[g] :
              r.schedule \in Schedules /\ r.status = "SCHEDULED" /\ ValidTimes(r)
        /\ \A q, r \in candidates[g] : q.schedule = r.schedule /\ q.date = r.date => q = r

TypeInv == TypeOK /\ UpdatesAreMerged /\ CandidatesAreKeyed

-----------------------------------------------------------------------------
(***************************************************************************)
(* Type correctness.                                                       *)
(***************************************************************************)
LEMMA NullsTyped ==
    /\ NoSession.status = "ABSENT"
    /\ \A row \in Session : row.status # "ABSENT" /\ row # NoSession
BY DEF NoSession, Session, Statuses

LEMMA ExistingTyped ==
    ASSUME TypeOK, NEW s \in Existing
    PROVE  s \in Sessions /\ session[s] \in Session
BY DEF TypeOK, Existing

LEMMA TypeInit == Init => TypeInv
BY DEF Init, TypeInv, TypeOK, UpdatesAreMerged, CandidatesAreKeyed, Calls

\* The rows that a schedule and its dates give.
LEMMA MaterializedTyped ==
    ASSUME TypeOK, NEW k \in Schedules, NEW b \in Branches, NEW d \in Days, Spawns(k, b, d)
    PROVE  /\ Materialized(k, d) \in Session
           /\ Materialized(k, d).schedule = k /\ Materialized(k, d).date = d
           /\ Materialized(k, d).status = "SCHEDULED"
<1>1. schedule[k] \in Schedule
  BY DEF TypeOK, Spawns, NoSchedule
<1>2. d \in Nat /\ DayLength \in Nat
  BY TimeIsNumbered, TimeIsMeasured
<1>3. schedule[k].from \in Nat /\ schedule[k].to \in Nat
  BY <1>1, <1>2 DEF Schedule
<1>4. d * DayLength \in Nat
  BY <1>2
<1>5. d * DayLength + schedule[k].from \in Nat /\ d * DayLength + schedule[k].to \in Nat
  BY <1>3, <1>4
<1>6. QED
  BY <1>1, <1>5 DEF Materialized, Session, Schedule, Statuses

\* A merged row is a row, and what an update writes is one.
LEMMA WrittenTyped ==
    ASSUME NEW now \in Session, NEW up \in Update
    PROVE  Written(now, up) \in Session
<1> DEFINE one == [now EXCEPT !.instructor = up.row.instructor]
           two == [one EXCEPT !.from = up.row.from]
           three == [two EXCEPT !.to = up.row.to]
           four == [three EXCEPT !.date = IF "date" \in up.named THEN up.row.date ELSE @]
           five == [four EXCEPT !.status = IF "status" \in up.named THEN up.row.status ELSE @]
<1>1. up.row \in Session
  BY DEF Update
<1>2. one \in Session
  BY <1>1 DEF Session
<1>3. two \in Session
  BY <1>1, <1>2 DEF Session
<1>4. three \in Session
  BY <1>1, <1>3 DEF Session
<1>5. four \in Session
  BY <1>1, <1>4 DEF Session
<1>6. five \in Session
  BY <1>1, <1>5 DEF Session
<1>7. Written(now, up) = five
  BY DEF Written, Session
<1>8. QED
  BY <1>6, <1>7

\* An update that finds the row it read writes the row that was checked.
LEMMA WrittenIsMerged ==
    ASSUME NEW up \in Update,
           up.row.branch = up.seen.branch, up.row.schedule = up.seen.schedule,
           up.row.date = up.seen.date \/ "date" \in up.named,
           up.row.status = up.seen.status \/ "status" \in up.named
    PROVE  Written(up.seen, up) = up.row
<1>1. up.row \in Session /\ up.seen \in Session
  BY DEF Update
<1>2. QED
  BY <1>1 DEF Written, Session

-----------------------------------------------------------------------------
\* Sessions that exist keep existing; this is all that pending updates ask.
LEMMA PendingKept ==
    ASSUME TypeInv, UNCHANGED <<pc, update, candidates>>,
           \A s \in Existing : s \in Existing'
    PROVE  UpdatesAreMerged' /\ CandidatesAreKeyed'
BY DEF TypeInv, UpdatesAreMerged, CandidatesAreKeyed, ValidTimes, DayOf

LEMMA SchedulingTyped ==
    ASSUME TypeInv, NEW k \in Schedules, NEW row \in Schedule,
           CreateClassSchedule(k, row) \/ UpdateClassSchedule(k, row)
    PROVE  TypeInv'
<1>1. schedule' \in [Schedules -> Schedule \cup {NoSchedule}]
  BY DEF CreateClassSchedule, UpdateClassSchedule, TypeInv, TypeOK
<1>2. UNCHANGED <<session, pc, update, candidates, overtaken>>
  BY DEF CreateClassSchedule, UpdateClassSchedule
<1>3. TypeOK'
  BY <1>1, <1>2 DEF TypeInv, TypeOK
<1>4. \A s \in Existing : s \in Existing'
  BY <1>2 DEF Existing
<1>5. QED
  BY <1>2, <1>3, <1>4, PendingKept DEF TypeInv

LEMMA CreationTyped ==
    ASSUME TypeInv, NEW s \in Sessions, NEW row \in Session, CreateClassSession(s, row)
    PROVE  TypeInv'
<1>1. session' = [session EXCEPT ![s] = row]
      /\ UNCHANGED <<schedule, pc, update, candidates, overtaken>>
  BY DEF CreateClassSession
<1>2. TypeOK'
  BY <1>1 DEF TypeInv, TypeOK
<1>3. \A t \in Existing : t \in Existing'
  BY <1>1, NullsTyped DEF Existing, TypeInv, TypeOK
<1>4. QED
  BY <1>1, <1>2, <1>3, PendingKept DEF TypeInv

LEMMA ReadSchedulesTyped ==
    ASSUME TypeInv, NEW g \in Generations, NEW b \in Branches,
           NEW first \in Days, NEW last \in Days, ReadSchedules(g, b, first, last)
    PROVE  TypeInv'
<1> DEFINE inRange == {kd \in Schedules \X {d \in Days : first <= d /\ d <= last} :
                          Spawns(kd[1], b, kd[2])}
           all == {Materialized(kd[1], kd[2]) : kd \in inRange}
<1>1. PICK rows \in {all, Gaps(all)} \cup {{row} : row \in all} :
         /\ \A row \in rows : ValidTimes(row)
         /\ candidates' = [candidates EXCEPT ![g] = rows]
  BY DEF ReadSchedules
<1>2. pc' = [pc EXCEPT ![g] = "read"] /\ UNCHANGED <<schedule, session, update, overtaken>>
  BY DEF ReadSchedules
<1>3. rows \subseteq all
  BY DEF Gaps
<1>4. ASSUME NEW row \in all
      PROVE  \E k \in Schedules, d \in Days : row = Materialized(k, d) /\ Spawns(k, b, d)
  BY <1>4
<1> HIDE DEF inRange, all
<1>5. ASSUME NEW row \in all
      PROVE  row \in Session /\ row.schedule \in Schedules /\ row.status = "SCHEDULED"
  <2>1. PICK k \in Schedules, d \in Days : row = Materialized(k, d) /\ Spawns(k, b, d)
    BY <1>4, <1>5
  <2>2. QED
    BY <2>1, MaterializedTyped DEF TypeInv
<1>6. ASSUME NEW q \in all, NEW r \in all, q.schedule = r.schedule, q.date = r.date
      PROVE  q = r
  <2>1. PICK k \in Schedules, d \in Days : q = Materialized(k, d) /\ Spawns(k, b, d)
    BY <1>4, <1>6
  <2>2. PICK l \in Schedules, e \in Days : r = Materialized(l, e) /\ Spawns(l, b, e)
    BY <1>4, <1>6
  <2>3. k = l /\ d = e
    BY <1>6, <2>1, <2>2, MaterializedTyped DEF TypeInv
  <2>4. QED
    BY <2>1, <2>2, <2>3
<1>7. TypeOK'
  BY <1>1, <1>2, <1>3, <1>5 DEF TypeInv, TypeOK, Calls
<1>8. CandidatesAreKeyed'
  <2> SUFFICES ASSUME NEW h \in Generations
               PROVE  /\ \A r \in candidates'[h] :
                            r.schedule \in Schedules /\ r.status = "SCHEDULED" /\ ValidTimes(r)
                      /\ \A q, r \in candidates'[h] :
                            q.schedule = r.schedule /\ q.date = r.date => q = r
    BY DEF CandidatesAreKeyed, ValidTimes, DayOf
  <2>1. CASE h = g
    <3>1. candidates'[h] = rows
      BY <1>1, <2>1 DEF TypeInv, TypeOK
    <3>2. QED
      BY <1>1, <1>3, <1>5, <1>6, <3>1
  <2>2. CASE h # g
    BY <1>1, <2>2 DEF TypeInv, TypeOK, CandidatesAreKeyed
  <2>3. QED
    BY <2>1, <2>2
<1>9. UpdatesAreMerged'
  <2> SUFFICES ASSUME NEW u \in Updates, pc'[u] = "read"
               PROVE  /\ update[u] \in Update
                      /\ update[u].of \in Existing
                      /\ update[u].row.branch = update[u].seen.branch
                      /\ update[u].row.schedule = update[u].seen.schedule
                      /\ \/ update[u].row.date = update[u].seen.date
                         \/ "date" \in update[u].named
                      /\ \/ update[u].row.status = update[u].seen.status
                         \/ "status" \in update[u].named
                      /\ ValidTimes(update[u].row)
    BY <1>2 DEF UpdatesAreMerged, Existing, ValidTimes, DayOf
  <2>1. CASE u # g
    BY <1>2, <2>1 DEF TypeInv, TypeOK, Calls, UpdatesAreMerged
  <2>2. CASE u = g
    BY <2>2, CallsAreApart
  <2>3. QED
    BY <2>1, <2>2
<1>10. QED
  BY <1>7, <1>8, <1>9 DEF TypeInv

LEMMA GenerationTyped ==
    ASSUME TypeInv, NEW g \in Generations, GenerateClassSessions(g)
    PROVE  TypeInv'
<1>0. PICK made \in SUBSET candidates[g], fresh \in SUBSET (Sessions \ Existing) :
         \E row \in Bijection(fresh, made) :
            session' = [s \in Sessions |-> IF s \in fresh THEN row[s] ELSE session[s]]
  BY DEF GenerateClassSessions
<1>1. PICK row \in Bijection(fresh, made) :
         session' = [s \in Sessions |-> IF s \in fresh THEN row[s] ELSE session[s]]
  BY <1>0
<1>2. /\ pc' = [pc EXCEPT ![g] = "done"]
      /\ candidates' = [candidates EXCEPT ![g] = {}]
      /\ UNCHANGED <<schedule, update, overtaken>>
  BY DEF GenerateClassSessions
<1>3. \A s \in fresh : row[s] \in Session
  BY <1>1 DEF Bijection, Injection, TypeInv, TypeOK
<1>4. session' \in [Sessions -> Session \cup {NoSession}]
  BY <1>1, <1>3 DEF TypeInv, TypeOK
<1>5. TypeOK'
  BY <1>2, <1>4 DEF TypeInv, TypeOK, Calls
<1>6. CandidatesAreKeyed'
  BY <1>2 DEF TypeInv, TypeOK, CandidatesAreKeyed, ValidTimes, DayOf
<1>7. \A s \in Existing : s \in Existing'
  BY <1>1 DEF Existing
<1>8. \A u \in Updates : pc'[u] = "read" => pc[u] = "read"
  BY <1>2, CallsAreApart DEF TypeInv, TypeOK, Calls
<1>9. UpdatesAreMerged'
  BY <1>2, <1>7, <1>8 DEF TypeInv, UpdatesAreMerged, ValidTimes, DayOf
<1>10. QED
  BY <1>5, <1>6, <1>9 DEF TypeInv

LEMMA ReadSessionTyped ==
    ASSUME TypeInv, NEW u \in Updates, NEW s \in Existing, NEW row \in Session,
           NEW named \in SUBSET Fields, ReadSession(u, s, row, named)
    PROVE  TypeInv'
<1> DEFINE up == [of |-> s, seen |-> session[s], row |-> row, named |-> named]
<1>1. /\ pc' = [pc EXCEPT ![u] = "read"]
      /\ update' = [update EXCEPT ![u] = up]
      /\ UNCHANGED <<schedule, session, candidates, overtaken>>
  BY DEF ReadSession
<1>2. up \in Update
  BY ExistingTyped DEF Update, TypeInv
<1>3. TypeOK'
  BY <1>1, <1>2 DEF TypeInv, TypeOK, Calls
<1>4. CandidatesAreKeyed'
  BY <1>1 DEF TypeInv, CandidatesAreKeyed, ValidTimes, DayOf
<1>5. UpdatesAreMerged'
  <2> SUFFICES ASSUME NEW v \in Updates, pc'[v] = "read"
               PROVE  /\ update'[v] \in Update
                      /\ update'[v].of \in Existing
                      /\ update'[v].row.branch = update'[v].seen.branch
                      /\ update'[v].row.schedule = update'[v].seen.schedule
                      /\ \/ update'[v].row.date = update'[v].seen.date
                         \/ "date" \in update'[v].named
                      /\ \/ update'[v].row.status = update'[v].seen.status
                         \/ "status" \in update'[v].named
                      /\ ValidTimes(update'[v].row)
    BY <1>1 DEF UpdatesAreMerged, Existing, ValidTimes, DayOf
  <2>1. CASE v = u
    <3>1. update'[v] = up
      BY <1>1, <2>1 DEF TypeInv, TypeOK
    <3>2. QED
      BY <1>2, <3>1 DEF ReadSession
  <2>2. CASE v # u
    BY <1>1, <2>2 DEF TypeInv, TypeOK, Calls, UpdatesAreMerged
  <2>3. QED
    BY <2>1, <2>2
<1>6. QED
  BY <1>3, <1>4, <1>5 DEF TypeInv

LEMMA UpdateTyped ==
    ASSUME TypeInv, NEW u \in Updates, UpdateClassSession(u)
    PROVE  TypeInv'
<1> DEFINE up == update[u]
<1>1. /\ pc[u] = "read"
      /\ session' = [session EXCEPT ![up.of] = Written(session[up.of], up)]
      /\ overtaken' = overtaken \cup {s \in {up.of} : session[s] # up.seen}
      /\ pc' = [pc EXCEPT ![u] = "done"]
      /\ update' = [update EXCEPT ![u] = NoUpdate]
      /\ UNCHANGED <<schedule, candidates>>
  BY DEF UpdateClassSession
<1>2. up \in Update /\ up.of \in Existing
  BY <1>1 DEF TypeInv, UpdatesAreMerged
<1>3. up.of \in Sessions /\ Written(session[up.of], up) \in Session
  BY <1>2, ExistingTyped, WrittenTyped DEF TypeInv
<1>4. session' \in [Sessions -> Session \cup {NoSession}]
  BY <1>1, <1>3 DEF TypeInv, TypeOK
<1>5. pc' \in [Calls -> {"idle", "read", "done"}]
      /\ update' \in [Updates -> Update \cup {NoUpdate}]
  BY <1>1 DEF TypeInv, TypeOK, Calls
<1>6. TypeOK'
  BY <1>1, <1>3, <1>4, <1>5 DEF TypeInv, TypeOK
<1>7. \A s \in Existing : s \in Existing'
  <2> SUFFICES ASSUME NEW s \in Existing PROVE session'[s] # NoSession
    BY DEF Existing
  <2> HIDE DEF up
  <2>1. session'[s] = session[s] \/ session'[s] = Written(session[up.of], up)
    BY <1>1, ExistingTyped DEF TypeInv, TypeOK
  <2>2. QED
    BY <1>3, <2>1, NullsTyped DEF Existing
<1>8. \A v \in Updates : pc'[v] = "read" => pc[v] = "read" /\ update'[v] = update[v]
  BY <1>1 DEF TypeInv, TypeOK, Calls
<1>9. UpdatesAreMerged'
  BY <1>7, <1>8 DEF TypeInv, UpdatesAreMerged, ValidTimes, DayOf
<1>10. CandidatesAreKeyed'
  BY <1>1 DEF TypeInv, CandidatesAreKeyed, ValidTimes, DayOf
<1>11. QED
  BY <1>6, <1>9, <1>10 DEF TypeInv

LEMMA AbandonTyped ==
    ASSUME TypeInv, NEW x \in Calls, Abandon(x)
    PROVE  TypeInv'
<1>1. pc' = [pc EXCEPT ![x] = "done"] /\ UNCHANGED <<schedule, session, overtaken>>
  BY DEF Abandon
<1>2. update' \in [Updates -> Update \cup {NoUpdate}]
      /\ \A v \in Updates : v # x => update'[v] = update[v]
  BY DEF Abandon, TypeInv, TypeOK
<1>3. candidates' \in [Generations -> SUBSET Session]
      /\ \A g \in Generations : candidates'[g] \in {candidates[g], {}}
  BY DEF Abandon, TypeInv, TypeOK
<1>4. TypeOK'
  BY <1>1, <1>2, <1>3 DEF TypeInv, TypeOK, Calls
<1>5. UpdatesAreMerged'
  <2>1. \A v \in Updates : pc'[v] = "read" => pc[v] = "read" /\ update'[v] = update[v]
    BY <1>1, <1>2 DEF TypeInv, TypeOK, Calls
  <2>2. Existing' = Existing
    BY <1>1 DEF Existing
  <2>3. QED
    BY <2>1, <2>2 DEF TypeInv, UpdatesAreMerged, ValidTimes, DayOf
<1>6. CandidatesAreKeyed'
  BY <1>3 DEF TypeInv, CandidatesAreKeyed, ValidTimes, DayOf
<1>7. QED
  BY <1>4, <1>5, <1>6 DEF TypeInv

LEMMA TypeStep == TypeInv /\ [Next]_vars => TypeInv'
<1> SUFFICES ASSUME TypeInv, [Next]_vars PROVE TypeInv'
  OBVIOUS
<1>1. ASSUME NEW k \in Schedules, Schedulings(k) PROVE TypeInv'
  BY <1>1, SchedulingTyped DEF Schedulings
<1>2. ASSUME NEW s \in Sessions, Creations(s) PROVE TypeInv'
  <2>1. PICK b \in Branches, i \in Instructors, k \in Schedules \cup {None}, d \in Days,
             w \in Windows :
           CreateClassSession(s, [schedule |-> k, branch |-> b, instructor |-> i,
                                  from |-> w[1], to |-> w[2], status |-> "SCHEDULED",
                                  date |-> d])
    BY <1>2 DEF Creations
  <2>2. w[1] \in Nat /\ w[2] \in Nat
    BY TimeIsNumbered DEF Windows
  <2>3. [schedule |-> k, branch |-> b, instructor |-> i, from |-> w[1], to |-> w[2],
         status |-> "SCHEDULED", date |-> d] \in Session
    BY <2>2 DEF Session, Statuses
  <2>4. QED
    BY <2>1, <2>3, CreationTyped
<1>3. ASSUME NEW g \in Generations, NEW b \in Branches, NEW first \in Days,
             NEW last \in Days, ReadSchedules(g, b, first, last)
      PROVE  TypeInv'
  BY <1>3, ReadSchedulesTyped
<1>4. ASSUME NEW g \in Generations, GenerateClassSessions(g) PROVE TypeInv'
  BY <1>4, GenerationTyped
<1>5. ASSUME NEW u \in Updates, Readings(u) PROVE TypeInv'
  <2>1. PICK s \in Existing, i \in Instructors, w \in Windows, d \in Days,
             status \in Statuses, named \in SUBSET Fields :
           ReadSession(u, s, [session[s] EXCEPT !.instructor = i, !.from = w[1],
                                                !.to = w[2], !.date = d,
                                                !.status = status], named)
    BY <1>5 DEF Readings
  <2>2. w[1] \in Nat /\ w[2] \in Nat /\ session[s] \in Session
    BY TimeIsNumbered, ExistingTyped DEF Windows, TypeInv
  <2>3. [session[s] EXCEPT !.instructor = i, !.from = w[1], !.to = w[2], !.date = d,
                           !.status = status] \in Session
    <3> DEFINE one == [session[s] EXCEPT !.instructor = i]
               two == [one EXCEPT !.from = w[1]]
               three == [two EXCEPT !.to = w[2]]
               four == [three EXCEPT !.date = d]
    <3>1. one \in Session
      BY <2>2 DEF Session
    <3>2. two \in Session
      BY <2>2, <3>1 DEF Session
    <3>3. three \in Session
      BY <2>2, <3>2 DEF Session
    <3>4. four \in Session
      BY <3>3 DEF Session
    <3>5. [four EXCEPT !.status = status] \in Session
      BY <3>4 DEF Session
    <3>6. QED
      BY <3>5
  <2>4. QED
    BY <2>1, <2>3, ReadSessionTyped
<1>6. ASSUME NEW u \in Updates, UpdateClassSession(u) PROVE TypeInv'
  BY <1>6, UpdateTyped
<1>7. ASSUME NEW x \in Calls, Abandon(x) PROVE TypeInv'
  BY <1>7, AbandonTyped
<1>8. CASE UNCHANGED vars
  BY <1>8 DEF vars, TypeInv, TypeOK, UpdatesAreMerged, CandidatesAreKeyed, Existing,
              ValidTimes, DayOf
<1>9. QED
  BY <1>1, <1>2, <1>3, <1>4, <1>5, <1>6, <1>7, <1>8 DEF Next

\* Whatever calls race, the rows of schedules and sessions are well typed.
THEOREM TypeCorrect == Spec => []TypeOK
<1>1. TypeInv => TypeOK
  BY DEF TypeInv
<1>2. QED
  BY <1>1, TypeInit, TypeStep, PTL DEF Spec

-----------------------------------------------------------------------------
(***************************************************************************)
(* Sessions are apart.  An update that finds the row it read writes the    *)
(* very row that it has checked, and what is checked is placed among the   *)
(* rows there are; so a row is out of place only if it was overtaken.      *)
(***************************************************************************)
Placed == LiveSessionsApart /\ OneLiveSessionPerDate /\ RowsAreCoherent

\* One row is written: it is placed among the others, canceled or overtaken.
LEMMA RowPlaced ==
    ASSUME TypeOK, TypeOK', Placed, NEW s \in Sessions, NEW row \in Session,
           session' = [session EXCEPT ![s] = row], overtaken \subseteq overtaken',
           \/ s \in overtaken'
           \/ ValidTimes(row) /\ (row.status # "CANCELED" => Placeable(row, {s}))
    PROVE  Placed'
<1>1. /\ session'[s] = row
      /\ \A t \in Sessions \ {s} : session'[t] = session[t]
  BY DEF TypeOK
<1>2. \A t \in Live' \ overtaken' : t # s => t \in Live \ overtaken
  BY <1>1 DEF Live, Existing
<1>3. \A t \in Live : session[t] \in Session /\ session[t].status # "CANCELED"
                      /\ t \in Existing
  BY DEF Live, TypeOK, Existing
<1>4. ASSUME s \in Live' \ overtaken', NEW t \in Live' \ overtaken', t # s
      PROVE  /\ ~(/\ row.branch = session[t].branch \/ row.instructor = session[t].instructor
                  /\ Intersect(row, session[t]))
             /\ ~(/\ row.schedule # None /\ row.schedule = session[t].schedule
                  /\ row.date = session[t].date)
  <2>1. Placeable(row, {s})
    BY <1>1, <1>4 DEF Live
  <2>2. t \in Live /\ t \in Existing /\ session[t].status # "CANCELED"
    BY <1>2, <1>3, <1>4
  <2>3. t \notin Conflicts(row)
    BY <1>4, <2>1 DEF Placeable
  <2>4. row.schedule # None => t \notin OnScheduleDate(row.schedule, row.date)
    BY <1>4, <2>1 DEF Placeable
  <2>5. QED
    BY <2>2, <2>3, <2>4 DEF Conflicts, OnScheduleDate, Intersect
<1>5. LiveSessionsApart'
  <2> SUFFICES ASSUME NEW t \in Live' \ overtaken', NEW q \in Live' \ overtaken', t # q,
                      \/ session'[t].branch = session'[q].branch
                      \/ session'[t].instructor = session'[q].instructor,
                      Intersect(session'[t], session'[q])
               PROVE  FALSE
    BY DEF LiveSessionsApart, Clash, Intersect
  <2>0. t \in Sessions /\ q \in Sessions
    BY DEF Live, Existing
  <2>1. CASE t = s
    BY <1>1, <1>4, <2>0, <2>1
  <2>2. CASE q = s
    BY <1>1, <1>4, <2>0, <2>2 DEF Intersect
  <2>3. CASE t # s /\ q # s
    BY <1>1, <1>2, <2>0, <2>3 DEF Placed, LiveSessionsApart, Clash
  <2>4. QED
    BY <2>1, <2>2, <2>3
<1>6. OneLiveSessionPerDate'
  <2> SUFFICES ASSUME NEW t \in Live' \ overtaken', NEW q \in Live' \ overtaken',
                      session'[t].schedule # None,
                      session'[t].schedule = session'[q].schedule,
                      session'[t].date = session'[q].date
               PROVE  t = q
    BY DEF OneLiveSessionPerDate
  <2>0. t \in Sessions /\ q \in Sessions
    BY DEF Live, Existing
  <2>1. CASE t = s
    BY <1>1, <1>4, <2>0, <2>1
  <2>2. CASE q = s
    BY <1>1, <1>4, <2>0, <2>2
  <2>3. CASE t # s /\ q # s
    BY <1>1, <1>2, <2>0, <2>3 DEF Placed, OneLiveSessionPerDate
  <2>4. QED
    BY <2>1, <2>2, <2>3
<1>7. RowsAreCoherent'
  <2> SUFFICES ASSUME NEW t \in Existing' \ overtaken' PROVE ValidTimes(session'[t])
    BY DEF RowsAreCoherent, ValidTimes, DayOf
  <2>0. t \in Sessions
    BY DEF Existing
  <2>1. CASE t = s
    BY <1>1, <2>1
  <2>2. CASE t # s
    BY <1>1, <2>0, <2>2 DEF Placed, RowsAreCoherent, Existing
  <2>3. QED
    BY <2>1, <2>2
<1>8. QED
  BY <1>5, <1>6, <1>7 DEF Placed

LEMMA CreationPlaced ==
    ASSUME TypeInv, TypeInv', Placed, NEW s \in Sessions, NEW row \in Session,
           CreateClassSession(s, row)
    PROVE  Placed'
<1>1. /\ session' = [session EXCEPT ![s] = row] /\ overtaken' = overtaken
      /\ ValidTimes(row) /\ Placeable(row, {})
  BY DEF CreateClassSession
<1>2. Placeable(row, {s})
  BY <1>1 DEF Placeable
<1>3. QED
  BY <1>1, <1>2, RowPlaced DEF TypeInv

LEMMA UpdatePlaced ==
    ASSUME TypeInv, TypeInv', Placed, NEW u \in Updates, UpdateClassSession(u)
    PROVE  Placed'
<1> DEFINE up == update[u]
           row == Written(session[up.of], up)
<1>1. /\ pc[u] = "read" /\ Checked(up)
      /\ session' = [session EXCEPT ![up.of] = row]
      /\ overtaken' = overtaken \cup {s \in {up.of} : session[s] # up.seen}
  BY DEF UpdateClassSession
<1>2. /\ up \in Update /\ up.of \in Existing /\ ValidTimes(up.row)
      /\ up.row.branch = up.seen.branch /\ up.row.schedule = up.seen.schedule
      /\ up.row.date = up.seen.date \/ "date" \in up.named
      /\ up.row.status = up.seen.status \/ "status" \in up.named
  BY <1>1 DEF TypeInv, UpdatesAreMerged
<1>3. up.of \in Sessions /\ row \in Session
  BY <1>2, ExistingTyped, WrittenTyped DEF TypeInv
<1>4. session[up.of] = up.seen => row = up.row
  BY <1>2, WrittenIsMerged
<1>5. up.of \in overtaken' \/ session[up.of] = up.seen
  BY <1>1
<1> HIDE DEF up, row
<1>6. \/ up.of \in overtaken'
      \/ ValidTimes(row) /\ (row.status # "CANCELED" => Placeable(row, {up.of}))
  BY <1>1, <1>2, <1>4, <1>5 DEF Checked
<1>7. QED
  BY <1>1, <1>3, <1>6, RowPlaced DEF TypeInv

\* The rows that one generation creates are apart from each other: of two that
\* intersect, the later one was skipped.
LEMMA CreatedApart ==
    ASSUME TypeInv, NEW g \in Generations, NEW made \in SUBSET candidates[g],
           Created(candidates[g], made), NEW q \in made, NEW r \in made, q # r
    PROVE  /\ ~Intersect(q, r)
           /\ q.schedule # r.schedule \/ q.date # r.date
<1>1. /\ q \in Session /\ r \in Session
      /\ q.schedule \in Nat /\ r.schedule \in Nat
      /\ ValidTimes(q) /\ ValidTimes(r)
      /\ q.schedule = r.schedule /\ q.date = r.date => q = r
  BY SchedulesAreNumbered DEF TypeInv, TypeOK, CandidatesAreKeyed
<1>2. q.from \in Nat /\ r.from \in Nat
  BY <1>1 DEF Session
<1>3. q.from # r.from \/ q.schedule # r.schedule
  BY <1>1 DEF ValidTimes
<1>4. Earlier(q, r) \/ Earlier(r, q)
  BY <1>1, <1>2, <1>3 DEF Earlier
<1>5. /\ Earlier(q, r) => ~Intersect(q, r)
      /\ Earlier(r, q) => ~Intersect(r, q)
  BY DEF Created
<1>6. QED
  BY <1>1, <1>4, <1>5 DEF Intersect

LEMMA GenerationPlaced ==
    ASSUME TypeInv, TypeInv', Placed, NEW g \in Generations, GenerateClassSessions(g)
    PROVE  Placed'
<1>0. PICK made \in SUBSET candidates[g], fresh \in SUBSET (Sessions \ Existing) :
         /\ Created(candidates[g], made)
         /\ \E row \in Bijection(fresh, made) :
               session' = [s \in Sessions |-> IF s \in fresh THEN row[s] ELSE session[s]]
  BY DEF GenerateClassSessions
<1>1. PICK row \in Bijection(fresh, made) :
         session' = [s \in Sessions |-> IF s \in fresh THEN row[s] ELSE session[s]]
  BY <1>0
<1>2. /\ row \in [fresh -> made]
      /\ \A s, t \in fresh : row[s] = row[t] => s = t
  BY DEF Bijection, Injection, IsInjective
<1>3. overtaken' = overtaken
  BY DEF GenerateClassSessions
<1>4. /\ \A s \in fresh : session'[s] = row[s] /\ row[s] \in made
      /\ \A s \in Sessions \ fresh : session'[s] = session[s]
  BY <1>1, <1>2
<1>5. \A r \in made : ValidTimes(r) /\ Placeable(r, {}) /\ r.schedule # None
  BY <1>0, NoneIsNothing DEF Created, TypeInv, CandidatesAreKeyed
<1>6. \A t \in Live' \ overtaken' : t \notin fresh => t \in Live \ overtaken
  BY <1>3, <1>4 DEF Live, Existing
<1>7. ASSUME NEW s \in fresh, NEW t \in Live' \ overtaken', t # s
      PROVE  /\ ~(/\ \/ session'[s].branch = session'[t].branch
                     \/ session'[s].instructor = session'[t].instructor
                  /\ Intersect(session'[s], session'[t]))
             /\ ~(session'[s].schedule = session'[t].schedule
                  /\ session'[s].date = session'[t].date)
  <2>0. t \in Sessions
    BY DEF Live, Existing
  <2>1. CASE t \in fresh
    <3>1. PICK q \in made : q = row[s]
      BY <1>4
    <3>2. PICK r \in made : r = row[t]
      BY <1>4, <2>1
    <3>3. q # r
      BY <1>2, <1>7, <2>1, <3>1, <3>2
    <3>4. /\ ~Intersect(q, r)
          /\ q.schedule # r.schedule \/ q.date # r.date
      BY <1>0, <3>3, CreatedApart
    <3>5. session'[s] = q /\ session'[t] = r
      BY <1>4, <2>1, <3>1, <3>2
    <3>6. QED
      BY <3>4, <3>5
  <2>2. CASE t \notin fresh
    <3>1. t \in Existing /\ session[t].status # "CANCELED" /\ session'[t] = session[t]
      BY <1>4, <1>6, <2>0, <2>2 DEF Live
    <3>2. /\ Placeable(row[s], {}) /\ row[s].schedule # None /\ session'[s] = row[s]
      BY <1>4, <1>5
    <3>3. t \notin Conflicts(row[s])
          /\ t \notin OnScheduleDate(row[s].schedule, row[s].date)
      BY <3>2 DEF Placeable
    <3>4. QED
      BY <3>1, <3>2, <3>3 DEF Conflicts, OnScheduleDate, Intersect
  <2>3. QED
    BY <2>1, <2>2
<1>8. LiveSessionsApart'
  <2> SUFFICES ASSUME NEW t \in Live' \ overtaken', NEW q \in Live' \ overtaken', t # q,
                      \/ session'[t].branch = session'[q].branch
                      \/ session'[t].instructor = session'[q].instructor,
                      Intersect(session'[t], session'[q])
               PROVE  FALSE
    BY DEF LiveSessionsApart, Clash, Intersect
  <2>0. t \in Sessions /\ q \in Sessions
    BY DEF Live, Existing
  <2>1. CASE t \in fresh
    BY <1>7, <2>1
  <2>2. CASE q \in fresh
    BY <1>7, <2>2 DEF Intersect
  <2>3. CASE t \notin fresh /\ q \notin fresh
    BY <1>4, <1>6, <2>0, <2>3 DEF Placed, LiveSessionsApart, Clash
  <2>4. QED
    BY <2>1, <2>2, <2>3
<1>9. OneLiveSessionPerDate'
  <2> SUFFICES ASSUME NEW t \in Live' \ overtaken', NEW q \in Live' \ overtaken',
                      session'[t].schedule # None,
                      session'[t].schedule = session'[q].schedule,
                      session'[t].date = session'[q].date
               PROVE  t = q
    BY DEF OneLiveSessionPerDate
  <2>0. t \in Sessions /\ q \in Sessions
    BY DEF Live, Existing
  <2>1. CASE t \in fresh
    BY <1>7, <2>1
  <2>2. CASE q \in fresh
    BY <1>7, <2>2
  <2>3. CASE t \notin fresh /\ q \notin fresh
    BY <1>4, <1>6, <2>0, <2>3 DEF Placed, OneLiveSessionPerDate
  <2>4. QED
    BY <2>1, <2>2, <2>3
<1>10. RowsAreCoherent'
  <2> SUFFICES ASSUME NEW t \in Existing' \ overtaken' PROVE ValidTimes(session'[t])
    BY DEF RowsAreCoherent, ValidTimes, DayOf
  <2>0. t \in Sessions
    BY DEF Existing
  <2>1. CASE t \in fresh
    BY <1>4, <1>5, <2>1
  <2>2. CASE t \notin fresh
    BY <1>3, <1>4, <2>0, <2>2 DEF Placed, RowsAreCoherent, Existing
  <2>3. QED
    BY <2>1, <2>2
<1>11. QED
  BY <1>8, <1>9, <1>10 DEF Placed

LEMMA PlacedKept ==
    ASSUME Placed, UNCHANGED <<session, overtaken>>
    PROVE  Placed'
BY DEF Placed, LiveSessionsApart, OneLiveSessionPerDate, RowsAreCoherent, Live, Existing,
       Clash, Intersect, ValidTimes, DayOf

LEMMA PlacedStep == TypeInv /\ TypeInv' /\ Placed /\ [Next]_vars => Placed'
<1> SUFFICES ASSUME TypeInv, TypeInv', Placed, [Next]_vars PROVE Placed'
  OBVIOUS
<1>1. ASSUME NEW s \in Sessions, Creations(s) PROVE Placed'
  <2>1. PICK b \in Branches, i \in Instructors, k \in Schedules \cup {None}, d \in Days,
             w \in Windows :
           CreateClassSession(s, [schedule |-> k, branch |-> b, instructor |-> i,
                                  from |-> w[1], to |-> w[2], status |-> "SCHEDULED",
                                  date |-> d])
    BY <1>1 DEF Creations
  <2>2. w[1] \in Nat /\ w[2] \in Nat
    BY TimeIsNumbered DEF Windows
  <2>3. [schedule |-> k, branch |-> b, instructor |-> i, from |-> w[1], to |-> w[2],
         status |-> "SCHEDULED", date |-> d] \in Session
    BY <2>2 DEF Session, Statuses
  <2>4. QED
    BY <2>1, <2>3, CreationPlaced
<1>2. ASSUME NEW g \in Generations, GenerateClassSessions(g) PROVE Placed'
  BY <1>2, GenerationPlaced
<1>3. ASSUME NEW u \in Updates, UpdateClassSession(u) PROVE Placed'
  BY <1>3, UpdatePlaced
<1>4. CASE \/ \E k \in Schedules : Schedulings(k)
           \/ \E g \in Generations, b \in Branches, first, last \in Days :
                 ReadSchedules(g, b, first, last)
           \/ \E u \in Updates : Readings(u)
           \/ \E x \in Calls : Abandon(x)
           \/ UNCHANGED vars
  <2>1. ASSUME NEW k \in Schedules, Schedulings(k) PROVE UNCHANGED <<session, overtaken>>
    BY <2>1 DEF Schedulings, CreateClassSchedule, UpdateClassSchedule
  <2>2. ASSUME NEW g \in Generations, NEW b \in Branches, NEW first \in Days,
               NEW last \in Days, ReadSchedules(g, b, first, last)
        PROVE  UNCHANGED <<session, overtaken>>
    BY <2>2 DEF ReadSchedules
  <2>3. ASSUME NEW u \in Updates, Readings(u) PROVE UNCHANGED <<session, overtaken>>
    BY <2>3 DEF Readings, ReadSession
  <2>4. ASSUME NEW x \in Calls, Abandon(x) PROVE UNCHANGED <<session, overtaken>>
    BY <2>4 DEF Abandon
  <2>5. UNCHANGED vars => UNCHANGED <<session, overtaken>>
    BY DEF vars
  <2>6. QED
    BY <1>4, <2>1, <2>2, <2>3, <2>4, <2>5, PlacedKept
<1>5. QED
  BY <1>1, <1>2, <1>3, <1>4 DEF Next

LEMMA PlacedInit == Init => Placed
BY DEF Init, Placed, LiveSessionsApart, OneLiveSessionPerDate, RowsAreCoherent, Live, Existing

\* Sessions of one branch or of one instructor never overlap, unless an update
\* wrote one of them from an older row.
THEOREM SessionsApart == Spec => []LiveSessionsApart
<1>1. Placed => LiveSessionsApart
  BY DEF Placed
<1>2. QED
  BY <1>1, TypeInit, TypeStep, PlacedInit, PlacedStep, PTL DEF Spec

\* Of the live sessions of a schedule, each is on a date of its own.
THEOREM OnePerDate == Spec => []OneLiveSessionPerDate
<1>1. Placed => OneLiveSessionPerDate
  BY DEF Placed
<1>2. QED
  BY <1>1, TypeInit, TypeStep, PlacedInit, PlacedStep, PTL DEF Spec

\* What updates write field by field, and what generations make of schedules
\* that change under them, is coherent.
THEOREM Coherent == Spec => []RowsAreCoherent
<1>1. Placed => RowsAreCoherent
  BY DEF Placed
<1>2. QED
  BY <1>1, TypeInit, TypeStep, PlacedInit, PlacedStep, PTL DEF Spec
=============================================================================
