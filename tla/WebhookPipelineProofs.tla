------------------------ MODULE WebhookPipelineProofs ------------------------
(***************************************************************************)
(* Proofs about WebhookPipeline for every number of deliveries, retries,   *)
(* payments and faults.                                                    *)
(***************************************************************************)
EXTENDS WebhookPipeline, TLAPS

Stored(n) == event[n].status # "ABSENT"

\* What a delivery is about to store.
WellReceived(e, valid) ==
    /\ e.status = IF valid THEN "RECEIVED" ELSE "IGNORED"
    /\ e.valid = valid
    /\ e.delivery \in Deliveries
    /\ e.payment \in Payments

Running == {"allowed", "scheduled", "loaded", "claimed", "fetched", "settled"}

\* What is known of a notification or a retry between two of its steps: nothing
\* it has read about an event but for its status can change under it.
Knows(x) ==
    /\ pc[x] = "idle" => job[x] = NoJob
    /\ pc[x] \in {"idle", "rejected", "validated", "unseen"} /\ x \in Notifications =>
          ~Stored(x)
    /\ pc[x] \in {"rejected", "validated", "unseen"} =>
          x \in Notifications /\ WellReceived(job[x].received, pc[x] # "rejected")
    /\ pc[x] \in Running =>
          /\ job[x].event \in Notifications
          /\ Stored(job[x].event)
          /\ event[job[x].event].valid
    /\ pc[x] = "settled" =>
          /\ job[x].outcome # "duplicate"
          /\ job[x].outcome = "processed" => record[event[job[x].event].payment] # "NONE"
    /\ job[x].outcome = "duplicate" /\ x \in Notifications =>
          \E m \in Notifications \ {x} :
              /\ Stored(m)
              /\ event[m].valid
              /\ event[m].delivery = job[x].received.delivery

AllKnow == \A x \in Runs : Knows(x)

EventsName == \A n \in Notifications : Stored(n) => event[n].payment \in Payments

IInv == TypeOK /\ AllKnow /\ EventsName /\ ProcessedIsRecorded /\ OpenOnlyByFault

-----------------------------------------------------------------------------
(***************************************************************************)
(* Events without a final status, and who answers for them.                *)
(***************************************************************************)
Open(n) == event[n].status \in {"RECEIVED", "PROCESSING"}

Serves(x, n) ==
    /\ job[x].event = n
    /\ pc[x] \in {"scheduled", "loaded", "claimed", "fetched", "settled"}
    /\ event[n].status = "PROCESSING" => pc[x] \in {"claimed", "fetched", "settled"}

Given(n) == \E l \in lost : l.event = n /\ (event[n].status = "PROCESSING" => l.claimed)

LEMMA OpenMeans ==
    OpenOnlyByFault <=>
        \A n \in Notifications : Open(n) => Given(n) \/ \E x \in Runs : Serves(x, n)
BY DEF OpenOnlyByFault, Open, Given, Serves, Unfinished, WorksOn

LEMMA OpenMeansNext ==
    OpenOnlyByFault' <=>
        \A n \in Notifications : Open(n)' => Given(n)' \/ \E x \in Runs : Serves(x, n)'
BY DEF OpenOnlyByFault, Open, Given, Serves, Unfinished, WorksOn

\* A step of x leaves no event open without a run or a fault that answers for it.
LEMMA OpenStep ==
    ASSUME OpenOnlyByFault, NEW x \in Runs, lost \subseteq lost',
           \A y \in Runs \ {x} : pc'[y] = pc[y] /\ job'[y] = job[y],
           \A n \in Notifications : Open(n)' =>
               \/ Serves(x, n)'
               \/ /\ event'[n].status = event[n].status
                  /\ Serves(x, n) => Given(n)'
    PROVE  OpenOnlyByFault'
<1> SUFFICES ASSUME NEW n \in Notifications, Open(n)', ~Serves(x, n)'
             PROVE  Given(n)' \/ \E y \in Runs : Serves(y, n)'
  BY OpenMeansNext
<1>1. event'[n].status = event[n].status /\ Open(n)
  BY DEF Open
<1>2. Given(n) => Given(n)'
  BY <1>1 DEF Given
<1>3. ASSUME NEW y \in Runs \ {x}, Serves(y, n) PROVE Serves(y, n)'
  BY <1>1, <1>3 DEF Serves
<1> QED
  BY <1>1, <1>2, <1>3, OpenMeans

-----------------------------------------------------------------------------
(***************************************************************************)
(* What one step of x may do to events and records.                        *)
(***************************************************************************)
SameSource(e, f) ==
    /\ e.valid = f.valid
    /\ e.delivery = f.delivery
    /\ e.payment = f.payment

\* x stores its own event, or updates one that is valid, or none changes.
Evolves(x) ==
    \A n \in Notifications :
        \/ event'[n] = event[n]
        \/ /\ n = x
           /\ ~Stored(n)
           /\ event'[n].status \in {"RECEIVED", "IGNORED"}
           /\ event'[n].payment \in Payments
        \/ /\ Stored(n)
           /\ event[n].valid
           /\ event'[n].status # "ABSENT"
           /\ SameSource(event'[n], event[n])

Remembers == \A p \in Payments : record[p] # "NONE" => record'[p] # "NONE"

LEMMA NothingTyped == NoEvent \in Event /\ NoJob \in Job
BY DEF NoEvent, Event, NoJob, Job, EventStatuses, Reasons

LEMMA EndTyped ==
    ASSUME TypeOK, NEW x \in Runs, NEW outcome \in Reasons \cup {"processed", "duplicate"},
           End(x, outcome)
    PROVE  /\ pc' \in [Runs -> ControlPoints]
           /\ job' \in [Runs -> Job]
           /\ pc'[x] = "done"
           /\ job'[x].outcome = outcome
           /\ \A y \in Runs \ {x} : pc'[y] = pc[y] /\ job'[y] = job[y]
<1>1. [NoJob EXCEPT !.outcome = outcome] \in Job
  BY NothingTyped DEF Job
<1>2. [NoJob EXCEPT !.outcome = outcome].outcome = outcome
  BY DEF NoJob
<1> QED
  BY <1>1, <1>2 DEF TypeOK, End, Goto, ControlPoints

\* Steps of x that leave the others where they are.
LEMMA StepPreserves ==
    ASSUME IInv, TypeOK', NEW x \in Runs, Evolves(x), Remembers,
           \A y \in Runs \ {x} : pc'[y] = pc[y] /\ job'[y] = job[y],
           Knows(x)'
    PROVE  AllKnow' /\ EventsName'
<1>1. ASSUME NEW n \in Notifications, Stored(n)
      PROVE  Stored(n)' /\ SameSource(event'[n], event[n])
  BY <1>1 DEF Evolves, Stored, SameSource
<1>2. ASSUME NEW n \in Notifications, ~Stored(n), n # x
      PROVE  ~Stored(n)'
  BY <1>2 DEF Evolves, Stored
<1>3. AllKnow'
  <2> SUFFICES ASSUME NEW y \in Runs, y # x PROVE Knows(y)'
    BY DEF AllKnow
  <2>1. pc'[y] = pc[y] /\ job'[y] = job[y] /\ Knows(y)
    BY DEF IInv, AllKnow
  <2>2. y \in Notifications /\ ~Stored(y) => ~Stored(y)'
    BY <1>2
  <2>3. ASSUME job[y].event \in Notifications, Stored(job[y].event)
        PROVE  /\ event'[job[y].event].status # "ABSENT"
               /\ SameSource(event'[job[y].event], event[job[y].event])
    BY <2>3, <1>1 DEF Stored
  <2>4. ASSUME job[y].event \in Notifications, Stored(job[y].event),
               record[event[job[y].event].payment] # "NONE"
        PROVE  record'[event'[job[y].event].payment] # "NONE"
    BY <2>4, <2>3 DEF IInv, EventsName, Remembers, SameSource
  <2>5. ASSUME y \in Notifications, job[y].outcome = "duplicate"
        PROVE  \E m \in Notifications \ {y} :
                   /\ event'[m].status # "ABSENT"
                   /\ event'[m].valid
                   /\ event'[m].delivery = job[y].received.delivery
    <3>1. PICK m \in Notifications \ {y} :
              /\ Stored(m)
              /\ event[m].valid
              /\ event[m].delivery = job[y].received.delivery
      BY <2>1, <2>5 DEF Knows
    <3> QED
      BY <3>1, <1>1 DEF Stored, SameSource
  <2> QED
    BY <2>1, <2>2, <2>3, <2>4, <2>5 DEF Knows, Stored, SameSource, Running
<1>4. EventsName'
  BY DEF IInv, EventsName, Evolves, Stored, SameSource
<1> QED
  BY <1>3, <1>4

\* Of a step that leaves events and records alone nothing more is asked.
LEMMA QuietPreserves ==
    ASSUME IInv, TypeOK', NEW x \in Runs, UNCHANGED <<event, record>>,
           \A y \in Runs \ {x} : pc'[y] = pc[y] /\ job'[y] = job[y],
           Knows(x)',
           lost \subseteq lost',
           \A n \in Notifications :
               Open(n) /\ Serves(x, n) => Serves(x, n)' \/ Given(n)'
    PROVE  IInv'
<1>1. AllKnow' /\ EventsName'
  BY StepPreserves DEF Evolves, Remembers
<1>2. ProcessedIsRecorded'
  BY DEF IInv, ProcessedIsRecorded
<1>3. OpenOnlyByFault'
  <2>1. \A n \in Notifications : Open(n)' => Open(n)
    BY DEF Open
  <2> QED
    BY <2>1, OpenStep DEF IInv
<1> QED
  BY <1>1, <1>2, <1>3 DEF IInv

-----------------------------------------------------------------------------
(***************************************************************************)
(* The inductive invariant.                                                *)
(***************************************************************************)
LEMMA InvInit == Init => IInv
<1> SUFFICES ASSUME Init PROVE IInv
  OBVIOUS
<1>1. TypeOK
  BY NothingTyped, FaultsAreBounded DEF Init, TypeOK, ControlPoints
<1>2. AllKnow
  BY DEF Init, AllKnow, Knows, Stored, NoJob, NoEvent, Running, Runs
<1>3. EventsName /\ ProcessedIsRecorded /\ OpenOnlyByFault
  BY DEF Init, EventsName, ProcessedIsRecorded, OpenOnlyByFault, Stored, NoEvent
<1> QED
  BY <1>1, <1>2, <1>3 DEF IInv

LEMMA ReceiveWebhookPreserves ==
    ASSUME IInv, NEW n \in Notifications, NEW d \in Deliveries, NEW p \in Payments,
           NEW valid \in BOOLEAN, NEW supported \in BOOLEAN,
           ReceiveWebhook(n, d, p, valid, supported)
    PROVE  IInv'
<1> DEFINE e == [status |-> IF valid THEN "RECEIVED" ELSE "IGNORED", valid |-> valid,
                 reason |-> IF valid THEN "none" ELSE "invalid_signature",
                 delivery |-> d, payment |-> p, supported |-> supported,
                 reprocessCount |-> 0, receivedAt |-> clock + 1]
<1>1. n \in Runs /\ pc[n] = "idle" /\ job[n] = NoJob /\ ~Stored(n)
  BY DEF ReceiveWebhook, IInv, AllKnow, Knows, Runs
<1>2. e \in Event
  BY DEF IInv, TypeOK, Event, EventStatuses, Reasons
<1>3. WellReceived(e, valid)
  BY DEF WellReceived
<1>4. /\ pc' = [pc EXCEPT ![n] = IF valid THEN "validated" ELSE "rejected"]
      /\ job' = [job EXCEPT ![n].received = e]
      /\ UNCHANGED <<event, remote, charge, record, faults, lost>>
      /\ clock' = clock + 1
  BY DEF ReceiveWebhook, Goto
<1> HIDE DEF e
<1>5. /\ TypeOK'
      /\ job'[n].received = e
      /\ job'[n].outcome = "none"
      /\ \A y \in Runs \ {n} : pc'[y] = pc[y] /\ job'[y] = job[y]
  BY <1>1, <1>2, <1>4 DEF IInv, TypeOK, Job, ControlPoints, NoJob
<1>6. pc'[n] = (IF valid THEN "validated" ELSE "rejected")
  BY <1>1, <1>4 DEF IInv, TypeOK
<1>7. Knows(n)'
  BY <1>1, <1>3, <1>4, <1>5, <1>6 DEF Knows, Stored, WellReceived, Running
<1> QED
  BY <1>1, <1>4, <1>5, <1>7, QuietPreserves DEF Serves

\* A step that ends a call, with or without storing its event.
LEMMA EndKnows ==
    ASSUME IInv, NEW x \in Runs, End(x, "none")
    PROVE  Knows(x)'
<1>1. pc'[x] = "done" /\ job'[x].outcome = "none"
  BY EndTyped DEF IInv, Reasons
<1> QED
  BY <1>1 DEF Knows, Running

LEMMA StorePreserves ==
    ASSUME IInv, NEW n \in Notifications, NEW valid \in BOOLEAN,
           pc[n] \in {"rejected", "validated", "unseen"}, valid = (pc[n] # "rejected"),
           event' = [event EXCEPT ![n] = job[n].received],
           TypeOK', UNCHANGED <<record, lost>>, Knows(n)', Open(n)' => Serves(n, n)',
           \A y \in Runs \ {n} : pc'[y] = pc[y] /\ job'[y] = job[y]
    PROVE  IInv'
<1>1. n \in Runs /\ ~Stored(n) /\ WellReceived(job[n].received, valid)
  BY DEF IInv, AllKnow, Knows, Runs
<1>2. /\ event'[n] = job[n].received
      /\ \A m \in Notifications \ {n} : event'[m] = event[m]
  BY DEF IInv, TypeOK
<1>3. Evolves(n)
  BY <1>1, <1>2 DEF Evolves, WellReceived
<1>4. AllKnow' /\ EventsName'
  BY <1>1, <1>3, StepPreserves DEF Remembers
<1>5. event'[n].status \in {"RECEIVED", "IGNORED"}
  BY <1>1, <1>2 DEF WellReceived
<1>6. ProcessedIsRecorded'
  BY <1>2, <1>5 DEF IInv, ProcessedIsRecorded
<1>7. OpenOnlyByFault'
  <2> SUFFICES ASSUME NEW m \in Notifications, Open(m)', ~Serves(n, m)'
               PROVE  event'[m].status = event[m].status /\ ~Serves(n, m)
    BY <1>1, OpenStep DEF IInv
  <2>1. m # n
    OBVIOUS
  <2> QED
    BY <1>2, <2>1 DEF Serves
<1> QED
  BY <1>4, <1>6, <1>7 DEF IInv

LEMMA RejectInvalidWebhookPreserves ==
    ASSUME IInv, NEW n \in Notifications, RejectInvalidWebhook(n)
    PROVE  IInv'
<1>1. n \in Runs /\ job[n].received \in Event
  BY DEF IInv, TypeOK, Runs, Job
<1>2. TypeOK'
  BY <1>1, EndTyped DEF RejectInvalidWebhook, IInv, TypeOK, Reasons
<1>3. Knows(n)'
  BY <1>1, EndKnows DEF RejectInvalidWebhook
<1>4. \A y \in Runs \ {n} : pc'[y] = pc[y] /\ job'[y] = job[y]
  BY <1>1, EndTyped DEF RejectInvalidWebhook, IInv, Reasons
<1>5. ~Open(n)'
  <2>1. event'[n] = job[n].received
    BY DEF RejectInvalidWebhook, IInv, TypeOK
  <2> QED
    BY <1>1, <2>1 DEF RejectInvalidWebhook, IInv, AllKnow, Knows, WellReceived, Open
<1> QED
  BY <1>2, <1>3, <1>4, <1>5, StorePreserves DEF RejectInvalidWebhook

LEMMA CreateWebhookEventPreserves ==
    ASSUME IInv, NEW n \in Notifications, CreateWebhookEvent(n)
    PROVE  IInv'
<1> DEFINE j == [NoJob EXCEPT !.event = n]
<1>1. /\ n \in Runs
      /\ job[n].received \in Event
      /\ WellReceived(job[n].received, TRUE)
  BY DEF CreateWebhookEvent, IInv, TypeOK, Runs, Job, AllKnow, Knows
<1>2. j \in Job /\ j.event = n /\ j.outcome = "none"
  BY NothingTyped DEF Job, NoJob
<1>3. job' = [job EXCEPT ![n] = j]
  BY DEF CreateWebhookEvent
<1> HIDE DEF j
<1>4. TypeOK'
  BY <1>1, <1>2, <1>3 DEF CreateWebhookEvent, Goto, IInv, TypeOK, ControlPoints
<1>5. /\ pc'[n] = "scheduled"
      /\ job'[n] = j
      /\ \A y \in Runs \ {n} : pc'[y] = pc[y] /\ job'[y] = job[y]
      /\ event'[n].status = "RECEIVED"
      /\ event'[n].valid
  BY <1>1, <1>3 DEF CreateWebhookEvent, Goto, IInv, TypeOK, WellReceived
<1>6. Knows(n)'
  BY <1>2, <1>5 DEF Knows, Stored, Running
<1>7. Serves(n, n)'
  BY <1>2, <1>5 DEF Serves
<1> QED
  BY <1>4, <1>5, <1>6, <1>7, StorePreserves DEF CreateWebhookEvent

\* The stored event that makes a delivery a duplicate is not its own.
LEMMA FindDuplicatePreserves ==
    ASSUME IInv, NEW n \in Notifications, FindDuplicate(n)
    PROVE  IInv'
<1>1. n \in Runs /\ Knows(n) /\ pc[n] = "validated" /\ ~Stored(n)
  BY DEF FindDuplicate, IInv, AllKnow, Knows, Runs
<1>2. CASE AlreadyAccepted(job[n].received.delivery)
  <2>1. /\ pc' = [pc EXCEPT ![n] = "done"]
        /\ job' = [job EXCEPT ![n].outcome = "duplicate"]
        /\ UNCHANGED <<event, remote, charge, record, clock, faults, lost>>
    BY <1>2 DEF FindDuplicate, Goto
  <2>2. /\ TypeOK'
        /\ pc'[n] = "done"
        /\ job'[n].received = job[n].received
        /\ \A y \in Runs \ {n} : pc'[y] = pc[y] /\ job'[y] = job[y]
    BY <1>1, <2>1 DEF IInv, TypeOK, Job, ControlPoints
  <2>3. PICK m \in Notifications :
            /\ Stored(m)
            /\ event[m].valid
            /\ event[m].delivery = job[n].received.delivery
    BY <1>2 DEF AlreadyAccepted, Known, Stored
  <2>4. m # n
    BY <1>1, <2>3
  <2>5. Knows(n)'
    BY <2>1, <2>2, <2>3, <2>4 DEF Knows, Stored, Running
  <2> QED
    BY <1>1, <2>1, <2>2, <2>5, QuietPreserves DEF Serves
<1>3. CASE ~AlreadyAccepted(job[n].received.delivery)
  <2>1. /\ pc' = [pc EXCEPT ![n] = "unseen"]
        /\ UNCHANGED <<event, job, remote, charge, record, clock, faults, lost>>
    BY <1>3 DEF FindDuplicate, Goto
  <2>2. /\ TypeOK'
        /\ pc'[n] = "unseen"
        /\ \A y \in Runs \ {n} : pc'[y] = pc[y] /\ job'[y] = job[y]
    BY <1>1, <2>1 DEF IInv, TypeOK, ControlPoints
  <2>3. Knows(n)'
    BY <1>1, <2>1, <2>2 DEF Knows, Stored, Running, WellReceived
  <2> QED
    BY <1>1, <2>1, <2>2, <2>3, QuietPreserves DEF Serves
<1> QED
  BY <1>2, <1>3

LEMMA RequestReprocessPreserves ==
    ASSUME IInv, NEW q \in Retries, NEW n \in Notifications, RequestReprocess(q, n)
    PROVE  IInv'
<1>1. q \in Runs /\ q \notin Notifications /\ job[q] = NoJob
  BY RunsHaveDistinctNames DEF RequestReprocess, IInv, AllKnow, Knows, Runs
<1>2. /\ pc' = [pc EXCEPT ![q] = "allowed"]
      /\ job' = [job EXCEPT ![q].event = n]
      /\ UNCHANGED <<event, remote, charge, record, clock, faults, lost>>
      /\ pc[q] = "idle"
      /\ Stored(n)
      /\ event[n].valid
  BY DEF RequestReprocess, Goto, Recoverable, Stored
<1>3. /\ TypeOK'
      /\ pc'[q] = "allowed"
      /\ job'[q].event = n
      /\ \A y \in Runs \ {q} : pc'[y] = pc[y] /\ job'[y] = job[y]
  BY <1>1, <1>2 DEF IInv, TypeOK, Job, ControlPoints
<1>4. Knows(q)'
  BY <1>1, <1>2, <1>3 DEF Knows, Stored, Running
<1> QED
  BY <1>1, <1>2, <1>3, <1>4, QuietPreserves DEF Serves

\* What a run updates is the event it is about, which is valid.
LEMMA UpdateEvolves ==
    ASSUME IInv, NEW x \in Runs, pc[x] \in Running, NEW e \in Event,
           event' = [event EXCEPT ![job[x].event] = e],
           e.status # "ABSENT", SameSource(e, event[job[x].event])
    PROVE  /\ Evolves(x)
           /\ event' \in [Notifications -> Event]
           /\ job[x].event \in Notifications
           /\ event'[job[x].event] = e
           /\ \A m \in Notifications : m # job[x].event => event'[m] = event[m]
<1>1. /\ job[x].event \in Notifications
      /\ Stored(job[x].event)
      /\ event[job[x].event].valid
  BY DEF IInv, AllKnow, Knows
<1>2. /\ event'[job[x].event] = e
      /\ \A m \in Notifications : m # job[x].event => event'[m] = event[m]
      /\ event' \in [Notifications -> Event]
  BY <1>1 DEF IInv, TypeOK
<1> QED
  BY <1>1, <1>2 DEF Evolves

LEMMA MarkReprocessedPreserves ==
    ASSUME IInv, NEW q \in Retries, MarkReprocessed(q)
    PROVE  IInv'
<1> DEFINE n == job[q].event
           e == [event[n] EXCEPT !.reprocessCount = event[n].reprocessCount + 1]
<1>1. /\ q \in Runs
      /\ pc[q] \in Running
      /\ n \in Notifications
      /\ event[n] \in Event
      /\ Stored(n)
      /\ Knows(q)
  BY DEF MarkReprocessed, IInv, TypeOK, AllKnow, Knows, Runs, Running
<1>2. /\ e \in Event
      /\ e.status = event[n].status
      /\ SameSource(e, event[n])
  BY <1>1 DEF Event, SameSource
<1>3. /\ event' = [event EXCEPT ![n] = e]
      /\ pc' = [pc EXCEPT ![q] = "scheduled"]
      /\ UNCHANGED <<job, remote, charge, record, clock, faults, lost>>
      /\ pc[q] = "allowed"
  BY DEF MarkReprocessed, Goto
<1> HIDE DEF e
<1>4. /\ Evolves(q)
      /\ event' \in [Notifications -> Event]
      /\ event'[n] = e
      /\ \A m \in Notifications : m # n => event'[m] = event[m]
  BY <1>1, <1>2, <1>3, UpdateEvolves DEF Stored
<1>5. /\ TypeOK'
      /\ pc'[q] = "scheduled"
      /\ \A y \in Runs \ {q} : pc'[y] = pc[y] /\ job'[y] = job[y]
  BY <1>1, <1>3, <1>4 DEF IInv, TypeOK, ControlPoints
<1>6. Knows(q)'
  <2>1. q \notin Notifications
    BY RunsHaveDistinctNames
  <2> HIDE DEF n
  <2>2. job'[q].event = n /\ event'[n].status # "ABSENT" /\ event'[n].valid
    BY <1>1, <1>2, <1>3, <1>4 DEF n, Stored, Knows, SameSource
  <2> QED
    BY <1>1, <1>5, <2>1, <2>2 DEF Knows, Stored, Running
<1>7. AllKnow' /\ EventsName'
  BY <1>1, <1>3, <1>4, <1>5, <1>6, StepPreserves DEF Remembers
<1>8. \A m \in Notifications : /\ event'[m].status = event[m].status
                               /\ event'[m].payment = event[m].payment
  BY <1>2, <1>4 DEF SameSource
<1>9. ProcessedIsRecorded'
  BY <1>3, <1>8 DEF IInv, ProcessedIsRecorded
<1>10. OpenOnlyByFault'
  <2>1. \A m \in Notifications : ~Serves(q, m)
    BY <1>3 DEF Serves
  <2> QED
    BY <1>1, <1>3, <1>5, <1>8, <2>1, OpenStep DEF IInv
<1> QED
  BY <1>5, <1>7, <1>9, <1>10 DEF IInv

LEMMA LoadEventPreserves ==
    ASSUME IInv, NEW x \in Runs, LoadEvent(x)
    PROVE  IInv'
<1>1. pc[x] = "scheduled" /\ UNCHANGED <<event, remote, charge, record, clock, faults, lost>>
  BY DEF LoadEvent
<1>2. CASE Refused(x) /\ End(x, "none")
  <2>1. TypeOK' /\ \A y \in Runs \ {x} : pc'[y] = pc[y] /\ job'[y] = job[y]
    BY <1>1, <1>2, EndTyped DEF IInv, TypeOK, Reasons
  <2>2. Knows(x)'
    BY <1>2, EndKnows
  <2>3. \A n \in Notifications : Open(n) => ~Serves(x, n)
    BY <1>1, <1>2 DEF Refused, Serves, Open, Running, IInv, AllKnow, Knows
  <2> QED
    BY <1>1, <2>1, <2>2, <2>3, QuietPreserves
<1>3. CASE ~Refused(x) /\ Goto(x, "loaded") /\ UNCHANGED job
  <2>1. /\ TypeOK'
        /\ pc'[x] = "loaded"
        /\ \A y \in Runs \ {x} : pc'[y] = pc[y] /\ job'[y] = job[y]
    BY <1>1, <1>3 DEF IInv, TypeOK, Goto, ControlPoints
  <2>2. event[job[x].event].valid
    BY <1>3 DEF Refused
  <2>3. Knows(x)
    BY DEF IInv, AllKnow
  <2>4. Knows(x)'
    BY <1>1, <1>3, <2>1, <2>2, <2>3 DEF Knows, Stored, Running
  <2>5. \A n \in Notifications : Serves(x, n) => Serves(x, n)'
    BY <1>1, <1>3, <2>1 DEF Serves
  <2> QED
    BY <1>1, <2>1, <2>4, <2>5, QuietPreserves
<1> QED
  BY <1>2, <1>3 DEF LoadEvent

\* The writes of a run: its claim, and its outcome.
LEMMA WriteTyped ==
    ASSUME IInv, NEW x \in Runs, pc[x] \in Running,
           NEW status \in EventStatuses \ {"ABSENT"}, NEW reason \in Reasons,
           Write(job[x].event, status, reason)
    PROVE  /\ Evolves(x)
           /\ event' \in [Notifications -> Event]
           /\ job[x].event \in Notifications
           /\ event'[job[x].event].status = status
           /\ SameSource(event'[job[x].event], event[job[x].event])
           /\ \A m \in Notifications : m # job[x].event => event'[m] = event[m]
<1> DEFINE n == job[x].event
           e1 == [event[n] EXCEPT !.status = status]
           e == [e1 EXCEPT !.reason = reason]
<1>1. n \in Notifications /\ event \in [Notifications -> Event]
  BY DEF IInv, TypeOK, AllKnow, Knows
<1>2. /\ e \in Event
      /\ e.status = status
      /\ SameSource(e, event[n])
  BY <1>1 DEF Event, SameSource
<1>3. event' = [event EXCEPT ![n] = e]
  BY <1>1 DEF Write, Event
<1> HIDE DEF e
<1> QED
  BY <1>1, <1>2, <1>3, UpdateEvolves

LEMMA ClaimPreserves ==
    ASSUME IInv, NEW x \in Runs, Claim(x)
    PROVE  IInv'
<1> DEFINE n == job[x].event
<1>1. /\ pc[x] = "loaded"
      /\ Write(n, "PROCESSING", "none")
      /\ UNCHANGED <<remote, charge, record, clock, faults, lost>>
      /\ Knows(x)
  BY DEF Claim, IInv, AllKnow
<1>2. /\ Evolves(x)
      /\ event' \in [Notifications -> Event]
      /\ n \in Notifications
      /\ event'[n].status = "PROCESSING"
      /\ SameSource(event'[n], event[n])
      /\ \A m \in Notifications : m # n => event'[m] = event[m]
  BY <1>1, WriteTyped DEF Running, EventStatuses, Reasons
<1>3. /\ TypeOK'
      /\ pc'[x] \in {"claimed", "settled"}
      /\ job'[x].event = n
      /\ job'[x].outcome = job[x].outcome \/ job'[x].outcome = "notification_not_supported"
      /\ pc'[x] = "settled" => job'[x].outcome = "notification_not_supported"
      /\ job'[x].received = job[x].received
      /\ \A y \in Runs \ {x} : pc'[y] = pc[y] /\ job'[y] = job[y]
  <2>1. CASE Goto(x, "claimed") /\ UNCHANGED job
    BY <1>1, <1>2, <2>1 DEF Goto, IInv, TypeOK, ControlPoints
  <2>2. CASE /\ Goto(x, "settled")
             /\ job' = [job EXCEPT ![x].outcome = "notification_not_supported"]
    BY <1>1, <1>2, <2>2 DEF Goto, IInv, TypeOK, ControlPoints, Job, Reasons
  <2> QED
    BY <2>1, <2>2 DEF Claim
<1>4. Knows(x)'
  <2>1. /\ event[n].valid
        /\ pc'[x] \notin {"idle", "rejected", "validated", "unseen", "scheduled"}
    BY <1>1, <1>3 DEF Knows, Running
  <2>2. ASSUME x \in Notifications, job'[x].outcome = "duplicate"
        PROVE  \E m \in Notifications \ {x} :
                   /\ event'[m].status # "ABSENT"
                   /\ event'[m].valid
                   /\ event'[m].delivery = job'[x].received.delivery
    <3>1. PICK m \in Notifications \ {x} :
              /\ Stored(m)
              /\ event[m].valid
              /\ event[m].delivery = job[x].received.delivery
      BY <1>1, <1>3, <2>2 DEF Knows
    <3>2. event'[m].status # "ABSENT" /\ SameSource(event'[m], event[m])
      BY <1>2, <3>1 DEF Stored, SameSource
    <3> QED
      BY <1>3, <3>1, <3>2 DEF SameSource
  <2> HIDE DEF n
  <2> QED
    BY <1>2, <1>3, <2>1, <2>2 DEF Knows, Stored, SameSource, Running
<1>5. AllKnow' /\ EventsName'
  BY <1>1, <1>2, <1>3, <1>4, StepPreserves DEF Remembers
<1>6. ProcessedIsRecorded'
  BY <1>1, <1>2 DEF IInv, ProcessedIsRecorded
<1>7. OpenOnlyByFault'
  <2>1. PICK k \in Notifications : k = n
    BY <1>2
  <2>2. Serves(x, k)'
    BY <1>3, <2>1 DEF Serves
  <2>3. ASSUME NEW m \in Notifications, m # k
        PROVE  event'[m].status = event[m].status /\ ~Serves(x, m)
    BY <1>2, <2>1, <2>3 DEF Serves
  <2>4. \A m \in Notifications : Open(m)' =>
            \/ Serves(x, m)'
            \/ event'[m].status = event[m].status /\ ~Serves(x, m)
    BY <2>2, <2>3
  <2> HIDE DEF n
  <2> QED
    BY <1>1, <1>3, <2>4, OpenStep DEF IInv
<1> QED
  BY <1>3, <1>5, <1>6, <1>7 DEF IInv

\* Billing forgets no record, and the events stay what they are.
LEMMA RecordedRemains ==
    ASSUME IInv, UNCHANGED event, Remembers
    PROVE  ProcessedIsRecorded'
BY DEF IInv, EventsName, ProcessedIsRecorded, Remembers, Stored

\* A run that goes on from its claim: what it writes last is decided.
LEMMA AdvancePreserves ==
    ASSUME IInv, NEW x \in Runs, pc[x] \in {"claimed", "fetched"},
           NEW point \in {"fetched", "settled"}, NEW j \in Job,
           pc' = [pc EXCEPT ![x] = point], job' = [job EXCEPT ![x] = j],
           j.event = job[x].event, j.received = job[x].received,
           \/ point = "fetched" /\ j.outcome = job[x].outcome
           \/ point = "settled" /\ j.outcome \in Reasons
           \/ /\ point = "settled"
              /\ j.outcome = "processed"
              /\ record'[event[j.event].payment] # "NONE",
           UNCHANGED <<event, remote, charge, clock, faults, lost>>,
           record' \in [Payments -> {"NONE", "PENDING", "APPROVED"}], Remembers
    PROVE  IInv'
<1>1. /\ TypeOK'
      /\ pc'[x] = point
      /\ job'[x] = j
      /\ \A y \in Runs \ {x} : pc'[y] = pc[y] /\ job'[y] = job[y]
  BY DEF IInv, TypeOK, ControlPoints
<1>2. Knows(x)
  BY DEF IInv, AllKnow
<1>3. Knows(x)'
  <2>1. /\ job[x].event \in Notifications
        /\ Stored(job[x].event)
        /\ event[job[x].event].valid
    BY <1>2 DEF Knows, Running
  <2>2. j.outcome = "duplicate" => point = "fetched" /\ job[x].outcome = "duplicate"
    BY DEF Reasons
  <2> QED
    BY <1>1, <1>2, <2>1, <2>2 DEF Knows, Stored, Running, Reasons
<1>4. AllKnow' /\ EventsName'
  BY <1>1, <1>3, StepPreserves DEF Evolves
<1>5. OpenOnlyByFault'
  <2>1. \A n \in Notifications : Serves(x, n) => Serves(x, n)'
    BY <1>1 DEF Serves
  <2> QED
    BY <1>1, <2>1, OpenStep DEF IInv
<1> QED
  BY <1>1, <1>4, <1>5, RecordedRemains DEF IInv

LEMMA OutcomeTyped ==
    ASSUME IInv, NEW x \in Runs, NEW outcome \in Reasons \cup {"processed"}
    PROVE  LET j == [job[x] EXCEPT !.outcome = outcome]
           IN  /\ j \in Job
               /\ j.outcome = outcome
               /\ j.event = job[x].event
               /\ j.received = job[x].received
               /\ [job EXCEPT ![x].outcome = outcome] = [job EXCEPT ![x] = j]
BY DEF IInv, TypeOK, Job

LEMMA SettlePreserves ==
    ASSUME IInv, NEW x \in Runs, pc[x] \in {"claimed", "fetched"},
           NEW outcome \in Reasons \cup {"processed"},
           Goto(x, "settled"), job' = [job EXCEPT ![x].outcome = outcome],
           outcome = "processed" => record'[event[job[x].event].payment] # "NONE",
           UNCHANGED <<event, remote, charge, clock, faults, lost>>,
           record' \in [Payments -> {"NONE", "PENDING", "APPROVED"}], Remembers
    PROVE  IInv'
<1> DEFINE j == [job[x] EXCEPT !.outcome = outcome]
<1>1. /\ j \in Job
      /\ j.outcome = outcome
      /\ j.event = job[x].event
      /\ j.received = job[x].received
      /\ job' = [job EXCEPT ![x] = j]
  BY OutcomeTyped
<1> HIDE DEF j
<1>2. pc' = [pc EXCEPT ![x] = "settled"]
  BY DEF Goto
<1>3. CASE outcome \in Reasons
  BY <1>1, <1>2, <1>3, AdvancePreserves
<1>4. CASE outcome = "processed"
  <2>1. record'[event[j.event].payment] # "NONE"
    BY <1>1, <1>4
  <2> QED
    BY <1>1, <1>2, <1>4, <2>1, AdvancePreserves
<1> QED
  BY <1>3, <1>4

LEMMA GetPaymentByIdPreserves ==
    ASSUME IInv, NEW x \in Runs, GetPaymentById(x)
    PROVE  IInv'
<1> DEFINE p == event[job[x].event].payment
<1>1. /\ pc[x] = "claimed"
      /\ UNCHANGED <<event, remote, charge, record, clock, faults, lost>>
      /\ record' \in [Payments -> {"NONE", "PENDING", "APPROVED"}]
      /\ Remembers
  BY DEF GetPaymentById, IInv, TypeOK, Remembers
<1>2. CASE Raise(x)
  BY <1>1, <1>2, SettlePreserves DEF Raise, Reasons
<1>3. CASE /\ remote[p] # "none"
           /\ Goto(x, "fetched")
           /\ job' = [job EXCEPT ![x].found = remote[p]]
  <2> DEFINE j == [job[x] EXCEPT !.found = remote[p]]
  <2>1. p \in Payments
    BY <1>1 DEF IInv, AllKnow, Knows, EventsName, Running
  <2>2. remote[p] \in {"none", "pending", "approved", "refunded"}
    BY <2>1 DEF IInv, TypeOK
  <2>3. /\ j \in Job
        /\ j.outcome = job[x].outcome
        /\ j.event = job[x].event
        /\ j.received = job[x].received
        /\ job' = [job EXCEPT ![x] = j]
    BY <1>3, <2>2 DEF IInv, TypeOK, Job
  <2> HIDE DEF j
  <2> QED
    BY <1>1, <1>3, <2>3, AdvancePreserves DEF Goto
<1> QED
  BY <1>1, <1>2, <1>3 DEF GetPaymentById

LEMMA ObservePaymentPreserves ==
    ASSUME IInv, NEW x \in Runs, ObservePayment(x)
    PROVE  IInv'
<1> DEFINE p == event[job[x].event].payment
           status == IF job[x].found = "approved" THEN "APPROVED" ELSE "PENDING"
<1>1. /\ pc[x] = "fetched"
      /\ UNCHANGED <<event, remote, charge, clock, faults, lost>>
      /\ record \in [Payments -> {"NONE", "PENDING", "APPROVED"}]
  BY DEF ObservePayment, IInv, TypeOK
<1>2. p \in Payments
  BY <1>1 DEF IInv, AllKnow, Knows, EventsName, Running
<1>3. CASE /\ Goto(x, "settled")
           /\ UNCHANGED record
           /\ \E reason \in Reasons : job' = [job EXCEPT ![x].outcome = reason]
  <2>1. PICK reason \in Reasons : job' = [job EXCEPT ![x].outcome = reason]
    BY <1>3
  <2>2. reason # "processed"
    BY DEF Reasons
  <2> QED
    BY <1>1, <1>3, <2>1, <2>2, SettlePreserves DEF Remembers
<1>4. CASE /\ Goto(x, "settled")
           /\ record' = [record EXCEPT ![p] = status]
           /\ \E outcome \in {"error", "processed"} :
                 job' = [job EXCEPT ![x].outcome = outcome]
  <2>1. PICK outcome \in {"error", "processed"} : job' = [job EXCEPT ![x].outcome = outcome]
    BY <1>4
  <2>2. /\ record' \in [Payments -> {"NONE", "PENDING", "APPROVED"}]
        /\ record'[p] # "NONE"
        /\ Remembers
    BY <1>1, <1>2, <1>4 DEF Remembers
  <2>3. outcome \in Reasons \cup {"processed"}
    BY DEF Reasons
  <2> QED
    BY <1>1, <1>4, <2>1, <2>2, <2>3, SettlePreserves
<1>5. \/ /\ Goto(x, "settled")
         /\ UNCHANGED record
         /\ \E reason \in Reasons : job' = [job EXCEPT ![x].outcome = reason]
      \/ /\ Goto(x, "settled")
         /\ record' = [record EXCEPT ![p] = status]
         /\ \E outcome \in {"error", "processed"} :
               job' = [job EXCEPT ![x].outcome = outcome]
  BY DEF ObservePayment, Raise, Reasons
<1> QED
  BY <1>3, <1>4, <1>5

LEMMA FinishRunPreserves ==
    ASSUME IInv, NEW x \in Runs, FinishRun(x)
    PROVE  IInv'
<1> DEFINE n == job[x].event
           outcome == job[x].outcome
           status == FinalStatus(outcome)
           reason == IF outcome = "processed" THEN "none" ELSE outcome
<1>1. /\ pc[x] = "settled"
      /\ Write(n, status, reason)
      /\ End(x, "none")
      /\ UNCHANGED <<remote, charge, record, clock, faults, lost>>
      /\ Knows(x)
  BY DEF FinishRun, IInv, AllKnow
<1>2. outcome \in Reasons \cup {"processed"}
  BY <1>1 DEF IInv, TypeOK, Job, Knows
<1>3. /\ status \in {"PROCESSED", "FAILED", "IGNORED"}
      /\ status = "PROCESSED" <=> outcome = "processed"
      /\ reason \in Reasons
  BY <1>2 DEF FinalStatus, Reasons
<1>4. outcome = "processed" => record[event[n].payment] # "NONE"
  BY <1>1 DEF Knows
<1> HIDE DEF status, reason, outcome
<1>5. /\ Evolves(x)
      /\ event' \in [Notifications -> Event]
      /\ n \in Notifications
      /\ event'[n].status = status
      /\ SameSource(event'[n], event[n])
      /\ \A m \in Notifications : m # n => event'[m] = event[m]
  <2>1. pc[x] \in Running /\ status \in EventStatuses \ {"ABSENT"}
    BY <1>1, <1>3 DEF Running, EventStatuses
  <2> QED
    BY <1>1, <1>3, <2>1, WriteTyped
<1>6. /\ TypeOK'
      /\ pc'[x] = "done"
      /\ \A y \in Runs \ {x} : pc'[y] = pc[y] /\ job'[y] = job[y]
  BY <1>1, <1>5, EndTyped DEF IInv, TypeOK, Reasons
<1>7. AllKnow' /\ EventsName'
  BY <1>1, <1>5, <1>6, EndKnows, StepPreserves DEF Remembers
<1> HIDE DEF n
<1>8. ProcessedIsRecorded'
  BY <1>1, <1>3, <1>4, <1>5 DEF IInv, ProcessedIsRecorded, SameSource
<1>9. OpenOnlyByFault'
  <2>1. ASSUME NEW m \in Notifications, Open(m)'
        PROVE  event'[m].status = event[m].status /\ ~Serves(x, m)
    BY <1>3, <1>5, <2>1 DEF Open, Serves, n
  <2> QED
    BY <1>1, <1>6, <2>1, OpenStep DEF IInv
<1> QED
  BY <1>6, <1>7, <1>8, <1>9 DEF IInv

LEMMA LosesTyped ==
    ASSUME NEW xs \in SUBSET Runs, Loses(xs), lost \subseteq Losses
    PROVE  lost \subseteq lost' /\ lost' \subseteq Losses
<1>1. \A n : (\E x \in xs : WorksOn(x, n)) \in BOOLEAN
  OBVIOUS
<1>2. \A n \in Notifications : \A b \in BOOLEAN : [event |-> n, claimed |-> b] \in Losses
  BY DEF Losses
<1>3. \A n \in Notifications :
          [event |-> n, claimed |-> \E x \in xs : WorksOn(x, n)] \in Losses
  BY <1>1, <1>2
<1> QED
  BY <1>3 DEF Loses

\* A fault answers for the events of the runs that it ends.
LEMMA LossGiven ==
    ASSUME NEW xs \in SUBSET Runs, NEW x \in xs, Loses(xs), UNCHANGED event,
           NEW n \in Notifications, Serves(x, n)
    PROVE  Given(n)'
<1> DEFINE l == [event |-> n, claimed |-> \E y \in xs : WorksOn(y, n)]
<1>1. x \in xs \cap Unfinished(n)
  BY DEF Serves, Unfinished, WorksOn
<1>2. l \in lost'
  BY <1>1 DEF Loses
<1>3. l.event = n /\ (event'[n].status = "PROCESSING" => l.claimed)
  BY DEF Serves, WorksOn
<1> QED
  BY <1>2, <1>3 DEF Given

LEMMA LoseWritePreserves ==
    ASSUME IInv, NEW x \in Runs, LoseWrite(x)
    PROVE  IInv'
<1>1. /\ End(x, "none")
      /\ Loses({x})
      /\ faults' \in 0..MaxFaults
      /\ UNCHANGED <<event, remote, charge, record, clock>>
  BY FaultsAreBounded DEF LoseWrite, IInv, TypeOK
<1>2. lost \subseteq lost' /\ lost' \subseteq Losses
  BY <1>1, LosesTyped DEF IInv, TypeOK
<1>3. TypeOK' /\ \A y \in Runs \ {x} : pc'[y] = pc[y] /\ job'[y] = job[y]
  BY <1>1, <1>2, EndTyped DEF IInv, TypeOK, Reasons
<1>4. \A n \in Notifications : Serves(x, n) => Given(n)'
  BY <1>1, LossGiven
<1> QED
  BY <1>1, <1>2, <1>3, <1>4, EndKnows, QuietPreserves

LEMMA CrashPreserves ==
    ASSUME IInv, Crash
    PROVE  IInv'
<1>1. /\ faults' \in 0..MaxFaults
      /\ Loses(Runs)
      /\ lost \subseteq lost' /\ lost' \subseteq Losses
      /\ UNCHANGED <<event, remote, charge, record, clock>>
  BY FaultsAreBounded, LosesTyped DEF Crash, IInv, TypeOK
<1>2. \A x \in Runs : \/ pc'[x] = "done" /\ job'[x] = NoJob
                      \/ pc'[x] = pc[x] /\ job'[x] = job[x]
  BY DEF Crash
<1>3. TypeOK'
  BY <1>1, <1>2, NothingTyped DEF Crash, IInv, TypeOK, ControlPoints
<1>4. AllKnow'
  <2> SUFFICES ASSUME NEW x \in Runs PROVE Knows(x)'
    BY DEF AllKnow
  <2>1. CASE pc'[x] = "done" /\ job'[x] = NoJob
    BY <2>1 DEF Knows, NoJob, Running
  <2>2. CASE pc'[x] = pc[x] /\ job'[x] = job[x]
    BY <1>1, <2>2 DEF IInv, AllKnow, Knows, Stored, Running, WellReceived
  <2> QED
    BY <1>2, <2>1, <2>2
<1>5. EventsName' /\ ProcessedIsRecorded'
  BY <1>1 DEF IInv, EventsName, ProcessedIsRecorded, Stored
<1>6. OpenOnlyByFault'
  <2> SUFFICES ASSUME NEW n \in Notifications, Open(n)'
               PROVE  Given(n)'
    BY OpenMeansNext
  <2>1. Open(n) /\ (Given(n) => Given(n)')
    BY <1>1 DEF Open, Given
  <2>2. ASSUME NEW x \in Runs, Serves(x, n) PROVE Given(n)'
    BY <1>1, <2>2, LossGiven
  <2> QED
    BY <2>1, <2>2, OpenMeans DEF IInv
<1> QED
  BY <1>3, <1>4, <1>5, <1>6 DEF IInv

\* The provider, the creation of charges, and stuttering.
LEMMA OutsidePreserves ==
    ASSUME IInv, TypeOK', UNCHANGED <<event, pc, job, record, lost>>
    PROVE  IInv'
<1>1. AllKnow'
  BY DEF IInv, AllKnow, Knows, Stored, Running, WellReceived
<1>2. EventsName' /\ ProcessedIsRecorded' /\ OpenOnlyByFault'
  BY DEF IInv, EventsName, ProcessedIsRecorded, OpenOnlyByFault, Stored, WorksOn, Unfinished
<1> QED
  BY <1>1, <1>2 DEF IInv

LEMMA InvNext == IInv /\ [Next]_vars => IInv'
<1> SUFFICES ASSUME IInv, [Next]_vars PROVE IInv'
  OBVIOUS
<1>1. ASSUME NEW n \in Notifications, Receive(n) PROVE IInv'
  BY <1>1, ReceiveWebhookPreserves DEF Receive
<1>2. ASSUME NEW q \in Retries, NEW n \in Notifications, RequestReprocess(q, n) PROVE IInv'
  BY <1>2, RequestReprocessPreserves
<1>3. ASSUME NEW x \in Runs, Progress(x) PROVE IInv'
  BY <1>3, RejectInvalidWebhookPreserves, FindDuplicatePreserves,
     CreateWebhookEventPreserves, MarkReprocessedPreserves, LoadEventPreserves,
     ClaimPreserves, GetPaymentByIdPreserves, ObservePaymentPreserves, FinishRunPreserves
  DEF Progress
<1>4. ASSUME NEW x \in Runs, LoseWrite(x) PROVE IInv'
  BY <1>4, LoseWritePreserves
<1>5. CASE Crash
  BY <1>5, CrashPreserves
<1>6. ASSUME NEW p \in Payments, ProviderMoves(p) PROVE IInv'
  BY <1>6, OutsidePreserves DEF ProviderMoves, IInv, TypeOK
<1>7. ASSUME NEW p \in Payments, ChargeMoves(p) PROVE IInv'
  BY <1>7, OutsidePreserves DEF ChargeMoves, IInv, TypeOK
<1>8. CASE UNCHANGED vars
  BY <1>8, OutsidePreserves DEF vars, IInv, TypeOK
<1> QED
  BY <1>1, <1>2, <1>3, <1>4, <1>5, <1>6, <1>7, <1>8 DEF Next

LEMMA Invariant == Spec => []IInv
<1>1. Init => IInv
  BY InvInit
<1>2. IInv /\ [Next]_vars => IInv'
  BY InvNext
<1> QED
  BY <1>1, <1>2, PTL DEF Spec

-----------------------------------------------------------------------------
(***************************************************************************)
(* What a step may not do.                                                 *)
(***************************************************************************)
LEMMA StepLeavesUntrusted ==
    ASSUME IInv, [Next]_vars, NEW n \in Notifications, Stored(n), ~event[n].valid
    PROVE  event'[n] = event[n]
<1>1. ASSUME NEW x \in Runs, Evolves(x) PROVE event'[n] = event[n]
  BY <1>1 DEF Evolves
<1>2. ASSUME NEW m \in Notifications, RejectInvalidWebhook(m) \/ CreateWebhookEvent(m)
      PROVE  event'[n] = event[n]
  <2>1. ~Stored(m)
    BY <1>2 DEF RejectInvalidWebhook, CreateWebhookEvent, IInv, AllKnow, Knows, Runs
  <2> QED
    BY <1>2, <2>1 DEF RejectInvalidWebhook, CreateWebhookEvent, IInv, TypeOK
<1>3. ASSUME NEW x \in Runs, MarkReprocessed(x) \/ Claim(x) \/ FinishRun(x)
      PROVE  event'[n] = event[n]
  <2>1. /\ job[x].event \in Notifications
        /\ event[job[x].event].valid
    BY <1>3 DEF MarkReprocessed, Claim, FinishRun, IInv, AllKnow, Knows, Running
  <2>2. n # job[x].event
    BY <2>1
  <2> QED
    BY <1>3, <2>1, <2>2 DEF MarkReprocessed, Claim, FinishRun, Write, IInv, TypeOK
<1>4. CASE UNCHANGED event
  BY <1>4
<1> QED
  BY <1>2, <1>3, <1>4 DEF Next, vars, Receive, ReceiveWebhook, RequestReprocess, Progress,
     FindDuplicate, LoadEvent, GetPaymentById, ObservePayment, LoseWrite, Crash,
     ProviderMoves, ChargeMoves

LEMMA StepKeepsApproval ==
    ASSUME IInv, [Next]_vars, NEW p \in Payments, record[p] = "APPROVED"
    PROVE  record'[p] = "APPROVED"
<1>1. ASSUME NEW x \in Runs, ObservePayment(x)
      PROVE  record'[p] = "APPROVED"
  BY <1>1 DEF ObservePayment, Regresses, IInv, TypeOK
<1>2. CASE UNCHANGED record
  BY <1>2
<1> QED
  BY <1>1, <1>2 DEF Next, vars, Receive, ReceiveWebhook, RequestReprocess, Progress,
     RejectInvalidWebhook, FindDuplicate, CreateWebhookEvent, MarkReprocessed, LoadEvent,
     Claim, GetPaymentById, FinishRun, LoseWrite, Crash, ProviderMoves, ChargeMoves

\* Only a run that applies what it has found books a payment.
LEMMA StepBooks ==
    ASSUME IInv, [Next]_vars
    PROVE  Booking!BookingNext \/ record' = record
<1>1. ASSUME NEW x \in Runs, ObservePayment(x), record' # record
      PROVE  Booking!BookingNext
  <2> DEFINE p == event[job[x].event].payment
             s == IF job[x].found = "approved" THEN "APPROVED" ELSE "PENDING"
  <2>1. record' = [record EXCEPT ![p] = s] /\ ~Regresses(p, job[x].found)
    BY <1>1 DEF ObservePayment
  <2>2. record \in [Payments -> {"NONE", "PENDING", "APPROVED"}]
    BY DEF IInv, TypeOK
  <2>3. p \in Payments
    BY <1>1, <2>1, <2>2
  <2>4. record[p] # "APPROVED"
    <3>1. ASSUME record[p] = "APPROVED" PROVE FALSE
      <4>1. s = "APPROVED"
        BY <2>1, <3>1 DEF Regresses
      <4> HIDE DEF p, s
      <4> QED
        BY <1>1, <2>1, <2>2, <3>1, <4>1
    <3> QED
      BY <3>1
  <2>5. s \in Booking!Stages \ {"NONE"}
    BY DEF Booking!Stages
  <2> HIDE DEF p, s
  <2> QED
    BY <2>1, <2>3, <2>4, <2>5 DEF Booking!BookingNext, Booking!Book
<1>2. CASE UNCHANGED record
  BY <1>2
<1> QED
  BY <1>1, <1>2 DEF Next, vars, Receive, ReceiveWebhook, RequestReprocess, Progress,
     RejectInvalidWebhook, FindDuplicate, CreateWebhookEvent, MarkReprocessed, LoadEvent,
     Claim, GetPaymentById, FinishRun, LoseWrite, Crash, ProviderMoves, ChargeMoves

-----------------------------------------------------------------------------
(***************************************************************************)
(* The theorems.                                                           *)
(***************************************************************************)
\* Every reachable state has the shape of the tables and of the calls: in
\* particular a run always ends with a status that events have.
THEOREM TypeCorrect == Spec => []TypeOK
BY Invariant, PTL DEF IInv

\* However many runs of an event overlap, and whenever the process dies, an
\* event that is marked as processed has its payment in billing.
THEOREM Recorded == Spec => []ProcessedIsRecorded
BY Invariant, PTL DEF IInv

\* A delivery is only answered as a duplicate when a genuine one with its
\* request id was stored by another notification.
THEOREM Duplicates == Spec => []DuplicateWasAccepted
<1>1. IInv => DuplicateWasAccepted
  BY DEF IInv, AllKnow, Knows, DuplicateWasAccepted, Runs
<1> QED
  BY <1>1, Invariant, PTL

\* An event has no final status only while a run of it is under way, or after a fault
\* has ended one, and in PROCESSING only if that run had claimed it.
THEOREM Stuck == Spec => []OpenOnlyByFault
BY Invariant, PTL DEF IInv

\* No step changes an event that failed validation.
THEOREM Inert == Spec => UntrustedIsInert
<1>1. IInv /\ [Next]_vars =>
          [\A n \in Notifications : event[n].status # "ABSENT" /\ ~event[n].valid =>
                                        event'[n] = event[n]]_vars
  BY StepLeavesUntrusted DEF Stored
<1> QED
  BY <1>1, Invariant, PTL DEF Spec, UntrustedIsInert

\* No stale report takes an approval in billing back.
THEOREM Survives == Spec => ApprovalSurvives
<1>1. IInv /\ [Next]_vars =>
          [\A p \in Payments : record[p] = "APPROVED" => record'[p] = "APPROVED"]_vars
  BY StepKeepsApproval
<1> QED
  BY <1>1, Invariant, PTL DEF Spec, ApprovalSurvives

\* However deliveries, retries and faults overlap, the pipeline books payments as
\* billing promises: one at a time, and never back.
THEOREM Books == Spec => ImplementsBooking
<1>1. Init => Booking!BookingInit
  BY DEF Init, Booking!BookingInit
<1>2. IInv /\ [Next]_vars => [Booking!BookingNext]_record
  BY StepBooks
<1> QED
  BY <1>1, <1>2, Invariant, PTL DEF Spec, ImplementsBooking, Booking!BookingSpec
=============================================================================
