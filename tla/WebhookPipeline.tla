--------------------------- MODULE WebhookPipeline ---------------------------
(***************************************************************************)
(* Mercado Pago notifications, from the HTTP request to the effect on      *)
(* billing (src/src/integrations): a delivery is validated, looked up,     *)
(* stored as a webhook event and processed later in the same process;      *)
(* operators reprocess events by hand.  Every await is a point where       *)
(* another delivery, another run of the same event, a change at the        *)
(* provider or the death of the process can come between.  Nothing here    *)
(* holds a lock or a transaction: updates of an event are plain writes.    *)
(*                                                                         *)
(* A notification creates at most one event and schedules at most one run  *)
(* of it; both are named after the notification.  A retry is one call of   *)
(* the reprocess operation, and its run is named after it.  What billing   *)
(* does with a fetched payment is one step here: ChargePayments opens it.  *)
(***************************************************************************)
EXTENDS Integers

CONSTANTS
    Notifications,  \* HTTP deliveries of the provider, each used once
    Retries,        \* reprocess calls of operators, each used once
    Deliveries,     \* values of x-request-id: redeliveries share one
    Payments,       \* payment ids of the provider
    MaxFaults,      \* bound: crashes and lost writes
    None            \* no event, no delivery, no payment

ASSUME NoneIsNothing ==
    None \notin Notifications \cup Retries \cup Deliveries \cup Payments
ASSUME RunsHaveDistinctNames == Notifications \cap Retries = {}
ASSUME FaultsAreBounded == MaxFaults \in Nat

Runs == Notifications \cup Retries

VARIABLES
    event,      \* event[n]: the IntegrationWebhookEvent created by n
    pc,         \* pc[x]: how far notification or retry x has got
    job,        \* job[x]: its arguments and what it has read
    remote,     \* remote[p]: the state of payment p at the provider
    charge,     \* charge[p]: the charge that payment p refers to
    record,     \* record[p]: status of the PaymentRecord of p in billing
    clock,      \* orders receivedAt
    faults,     \* crashes and lost writes so far
    lost        \* history: events whose runs faults have ended

vars == <<event, pc, job, remote, charge, record, clock, faults, lost>>

EventStatuses == {"ABSENT", "RECEIVED", "PROCESSING", "PROCESSED", "IGNORED", "FAILED"}

\* processingError, where recoverability depends on it.
Reasons == {"none", "invalid_signature", "notification_not_supported",
            "charge_not_found", "charge_not_linked_to_mercado_pago",
            "payment_not_supported", "error"}

Event == [status : EventStatuses, valid : BOOLEAN, reason : Reasons,
          delivery : Deliveries \cup {None}, payment : Payments \cup {None},
          supported : BOOLEAN, reprocessCount : Nat, receivedAt : Nat]

NoEvent == [status |-> "ABSENT", valid |-> FALSE, reason |-> "none", delivery |-> None,
            payment |-> None, supported |-> FALSE, reprocessCount |-> 0, receivedAt |-> 0]

\* received is the event a notification is about to store, found what the run
\* has fetched from the provider, outcome what it is about to write.
Job == [event : Notifications \cup {None}, received : Event,
        found : {"none", "pending", "approved", "refunded"},
        outcome : Reasons \cup {"processed", "duplicate"}]

NoJob == [event |-> None, received |-> NoEvent, found |-> "none", outcome |-> "none"]

\* The event of a run that a fault has ended, and whether it had been claimed.
Losses == [event : Notifications, claimed : BOOLEAN]

ControlPoints == {"idle", "rejected", "validated", "unseen", "allowed", "scheduled",
                  "loaded", "claimed", "fetched", "settled", "done"}

Init ==
    /\ event = [n \in Notifications |-> NoEvent]
    /\ pc = [x \in Runs |-> "idle"]
    /\ job = [x \in Runs |-> NoJob]
    /\ remote = [p \in Payments |-> "none"]
    /\ charge = [p \in Payments |-> "absent"]
    /\ record = [p \in Payments |-> "NONE"]
    /\ clock = 0
    /\ faults = 0
    /\ lost = {}

-----------------------------------------------------------------------------
(***************************************************************************)
(* Outside this pipeline: the provider settles or refunds payments, and    *)
(* billing creates charges and attaches them to Mercado Pago.              *)
(***************************************************************************)
ProviderMoves(p) ==
    /\ \/ remote[p] = "none" /\ remote' = [remote EXCEPT ![p] = "pending"]
       \/ remote[p] \in {"none", "pending"} /\ remote' = [remote EXCEPT ![p] = "approved"]
       \/ remote[p] = "approved" /\ remote' = [remote EXCEPT ![p] = "refunded"]
    /\ UNCHANGED <<event, pc, job, charge, record, clock, faults, lost>>

ChargeMoves(p) ==
    /\ \/ charge[p] = "absent" /\ charge' = [charge EXCEPT ![p] = "unlinked"]
       \/ charge[p] = "unlinked" /\ charge' = [charge EXCEPT ![p] = "linked"]
    /\ UNCHANGED <<event, pc, job, remote, record, clock, faults, lost>>

-----------------------------------------------------------------------------
(***************************************************************************)
(* Receiving a delivery.                                                   *)
(***************************************************************************)
Goto(x, point) == pc' = [pc EXCEPT ![x] = point]

End(x, outcome) ==
    /\ Goto(x, "done")
    /\ job' = [job EXCEPT ![x] = [NoJob EXCEPT !.outcome = outcome]]

\* The time is taken and the signature checked before the first write.
ReceiveWebhook(n, d, p, valid, supported) ==
    /\ pc[n] = "idle"
    /\ Goto(n, IF valid THEN "validated" ELSE "rejected")
    /\ clock' = clock + 1
    /\ job' = [job EXCEPT ![n].received =
          [status |-> IF valid THEN "RECEIVED" ELSE "IGNORED", valid |-> valid,
           reason |-> IF valid THEN "none" ELSE "invalid_signature",
           delivery |-> d, payment |-> p, supported |-> supported,
           reprocessCount |-> 0, receivedAt |-> clock + 1]]
    /\ UNCHANGED <<event, remote, charge, record, faults, lost>>

RejectInvalidWebhook(n) ==
    /\ pc[n] = "rejected"
    /\ event' = [event EXCEPT ![n] = job[n].received]
    /\ End(n, "none")
    /\ UNCHANGED <<remote, charge, record, clock, faults, lost>>

Known(m, d) == event[m].status # "ABSENT" /\ event[m].delivery = d

\* Mutant of AlreadyAccepted: whether the event was trusted is not looked at.
AlreadyAcceptedUntrusted(d) ==
    \E m \in Notifications :
        /\ Known(m, d)
        /\ \A k \in Notifications : Known(k, d) => event[k].receivedAt <= event[m].receivedAt
        /\ event[m].status # "FAILED"

\* The latest event of the delivery is valid and has not failed.
AlreadyAccepted(d) ==
    \E m \in Notifications :
        /\ Known(m, d)
        /\ \A k \in Notifications : Known(k, d) => event[k].receivedAt <= event[m].receivedAt
        /\ event[m].valid
        /\ event[m].status # "FAILED"

FindDuplicate(n) ==
    /\ pc[n] = "validated"
    /\ \/ /\ AlreadyAccepted(job[n].received.delivery)
          /\ Goto(n, "done")
          /\ job' = [job EXCEPT ![n].outcome = "duplicate"]
       \/ /\ ~AlreadyAccepted(job[n].received.delivery)
          /\ Goto(n, "unseen")
          /\ UNCHANGED job
    /\ UNCHANGED <<event, remote, charge, record, clock, faults, lost>>

\* setImmediate: the run waits in the memory of the process.
CreateWebhookEvent(n) ==
    /\ pc[n] = "unseen"
    /\ event' = [event EXCEPT ![n] = job[n].received]
    /\ Goto(n, "scheduled")
    /\ job' = [job EXCEPT ![n] = [NoJob EXCEPT !.event = n]]
    /\ UNCHANGED <<remote, charge, record, clock, faults, lost>>

-----------------------------------------------------------------------------
(***************************************************************************)
(* Reprocessing, on demand of an operator.                                 *)
(***************************************************************************)
RecoverableReasons == {"charge_not_found", "charge_not_linked_to_mercado_pago"}

\* Mutant of Recoverable: what the event was validated as is not looked at.
RecoverableUntrusted(e) ==
    \/ e.status \in {"RECEIVED", "FAILED"}
    \/ e.status = "IGNORED"

Recoverable(e) ==
    /\ e.valid
    /\ \/ e.status \in {"RECEIVED", "FAILED"}
       \/ e.status = "IGNORED" /\ e.reason \in RecoverableReasons

RequestReprocess(q, n) ==
    /\ pc[q] = "idle"
    /\ event[n].status # "ABSENT"
    /\ Recoverable(event[n])
    /\ Goto(q, "allowed")
    /\ job' = [job EXCEPT ![q].event = n]
    /\ UNCHANGED <<event, remote, charge, record, clock, faults, lost>>

MarkReprocessed(q) ==
    LET n == job[q].event
    IN  /\ pc[q] = "allowed"
        /\ event' = [event EXCEPT ![n].reprocessCount = event[n].reprocessCount + 1]
        /\ Goto(q, "scheduled")
        /\ UNCHANGED <<job, remote, charge, record, clock, faults, lost>>

-----------------------------------------------------------------------------
(***************************************************************************)
(* A run.  Retries force it, so that a finished event is run again.        *)
(***************************************************************************)
Forced(x) == x \in Retries

Refused(x) ==
    LET e == event[job[x].event]
    IN  \/ ~e.valid
        \/ ~Forced(x) /\ e.status \in {"PROCESSED", "IGNORED"}

LoadEvent(x) ==
    /\ pc[x] = "scheduled"
    /\ UNCHANGED <<event, remote, charge, record, clock, faults, lost>>
    /\ \/ Refused(x) /\ End(x, "none")
       \/ ~Refused(x) /\ Goto(x, "loaded") /\ UNCHANGED job

Write(n, status, reason) ==
    event' = [event EXCEPT ![n].status = status, ![n].reason = reason]

\* Notifications that are not about a payment go straight to their outcome.
Claim(x) ==
    LET n == job[x].event
    IN  /\ pc[x] = "loaded"
        /\ Write(n, "PROCESSING", "none")
        /\ \/ event[n].supported /\ Goto(x, "claimed") /\ UNCHANGED job
           \/ /\ ~event[n].supported
              /\ Goto(x, "settled")
              /\ job' = [job EXCEPT ![x].outcome = "notification_not_supported"]
        /\ UNCHANGED <<remote, charge, record, clock, faults, lost>>

Raise(x) ==
    /\ Goto(x, "settled")
    /\ job' = [job EXCEPT ![x].outcome = "error"]

\* What the provider says now; it is applied later.  No credentials, no answer
\* or no such payment raise.
GetPaymentById(x) ==
    LET p == event[job[x].event].payment
    IN  /\ pc[x] = "claimed"
        /\ UNCHANGED <<event, remote, charge, record, clock, faults, lost>>
        /\ \/ Raise(x)
           \/ /\ remote[p] # "none"
              /\ Goto(x, "fetched")
              /\ job' = [job EXCEPT ![x].found = remote[p]]

\* Mutant of Regresses: a late report overwrites what was approved.
RegressesNever(p, found) == FALSE /\ found = record[p]

Regresses(p, found) == record[p] = "APPROVED" /\ found # "approved"

\* Billing ignores the payment, or raises before or after its commit (the audit
\* entry is written after it), or updates the record.
ObservePayment(x) ==
    LET p == event[job[x].event].payment
        found == job[x].found
        Ignore(reason) == /\ Goto(x, "settled")
                          /\ job' = [job EXCEPT ![x].outcome = reason]
                          /\ UNCHANGED record
    IN  /\ pc[x] = "fetched"
        /\ UNCHANGED <<event, remote, charge, clock, faults, lost>>
        /\ \/ charge[p] = "absent" /\ Ignore("charge_not_found")
           \/ charge[p] = "unlinked" /\ Ignore("charge_not_linked_to_mercado_pago")
           \/ charge[p] = "linked" /\ found = "refunded" /\ Ignore("payment_not_supported")
           \/ Raise(x) /\ UNCHANGED record
           \/ /\ charge[p] = "linked"
              /\ found \in {"pending", "approved"}
              /\ ~Regresses(p, found)
              /\ record' = [record EXCEPT ![p] =
                               IF found = "approved" THEN "APPROVED" ELSE "PENDING"]
              /\ \/ Raise(x)
                 \/ Goto(x, "settled") /\ job' = [job EXCEPT ![x].outcome = "processed"]

\* Mutant of FinalStatus: an ignored payment counts as processed.
FinalStatusLenient(outcome) == IF outcome = "error" THEN "FAILED" ELSE "PROCESSED"

\* Mutant of FinalStatus: the outcome is stored as it comes.
FinalStatusVerbatim(outcome) == outcome

FinalStatus(outcome) ==
    CASE outcome = "processed" -> "PROCESSED"
      [] outcome = "error"     -> "FAILED"
      [] OTHER                 -> "IGNORED"

\* Mutant of FinishRun: a run that raised leaves its event as it is.
FinishRunSilently(x) ==
    LET outcome == job[x].outcome
    IN  /\ pc[x] = "settled"
        /\ \/ outcome = "error" /\ UNCHANGED event
           \/ outcome # "error" /\ Write(job[x].event, FinalStatus(outcome), "none")
        /\ End(x, "none")
        /\ UNCHANGED <<remote, charge, record, clock, faults, lost>>

\* The last write of a run, whatever other runs have written meanwhile.
FinishRun(x) ==
    LET outcome == job[x].outcome
    IN  /\ pc[x] = "settled"
        /\ Write(job[x].event, FinalStatus(outcome),
                 IF outcome = "processed" THEN "none" ELSE outcome)
        /\ End(x, "none")
        /\ UNCHANGED <<remote, charge, record, clock, faults, lost>>

-----------------------------------------------------------------------------
(***************************************************************************)
(* Faults.                                                                 *)
(***************************************************************************)
Busy(x) == pc[x] \notin {"idle", "done"}

\* Run x has claimed event n and has still to write its outcome.
WorksOn(x, n) == job[x].event = n /\ pc[x] \in {"claimed", "fetched", "settled"}

\* The runs of event n that are scheduled or under way.
Unfinished(n) ==
    {x \in Runs : WorksOn(x, n) \/ (job[x].event = n /\ pc[x] \in {"scheduled", "loaded"})}

\* History: the runs among xs that end here before they have finished.
Loses(xs) ==
    lost' = lost \cup {[event |-> n, claimed |-> \E x \in xs : WorksOn(x, n)] :
                          n \in {m \in Notifications : xs \cap Unfinished(m) # {}}}

\* The database refuses a statement of a delivery or of a retry, which answers
\* with an error.  A retry has no second chance at its last write: the update is
\* returned without await inside the try block, so its catch does not see it fail.
LoseWrite(x) ==
    /\ \/ pc[x] \in {"rejected", "validated", "unseen", "allowed"}
       \/ x \in Retries /\ pc[x] \in {"scheduled", "loaded", "settled"}
    /\ faults < MaxFaults
    /\ faults' = faults + 1
    /\ Loses({x})
    /\ End(x, "none")
    /\ UNCHANGED <<event, remote, charge, record, clock>>

\* The process restarts, of itself or because a scheduled run, which nobody
\* awaits, has rejected: what it held in memory is gone, scheduled runs too.
Crash ==
    /\ faults < MaxFaults
    /\ faults' = faults + 1
    /\ \E x \in Runs : Busy(x)
    /\ Loses(Runs)
    /\ pc' = [x \in Runs |-> IF Busy(x) THEN "done" ELSE pc[x]]
    /\ job' = [x \in Runs |-> IF Busy(x) THEN NoJob ELSE job[x]]
    /\ UNCHANGED <<event, remote, charge, record, clock>>

-----------------------------------------------------------------------------
Receive(n) ==
    \E d \in Deliveries, p \in Payments, valid, supported \in BOOLEAN :
        ReceiveWebhook(n, d, p, valid, supported)

Progress(x) ==
    \/ /\ x \in Notifications
       /\ RejectInvalidWebhook(x) \/ FindDuplicate(x) \/ CreateWebhookEvent(x)
    \/ x \in Retries /\ MarkReprocessed(x)
    \/ LoadEvent(x)
    \/ Claim(x)
    \/ GetPaymentById(x)
    \/ ObservePayment(x)
    \/ FinishRun(x)

Next ==
    \/ \E n \in Notifications : Receive(n)
    \/ \E q \in Retries, n \in Notifications : RequestReprocess(q, n)
    \/ \E x \in Runs : Progress(x) \/ LoseWrite(x)
    \/ Crash
    \/ \E p \in Payments : ProviderMoves(p) \/ ChargeMoves(p)

Spec == Init /\ [][Next]_vars

\* As long as a callback is ready the event loop runs one, and awaited calls return.
\* New deliveries, retries, the provider and faults are under no fairness.
FairSpec == Spec /\ WF_vars(\E x \in Runs : Progress(x))

-----------------------------------------------------------------------------
(***************************************************************************)
(* Properties.                                                             *)
(***************************************************************************)
TypeOK ==
    /\ event \in [Notifications -> Event]
    /\ pc \in [Runs -> ControlPoints]
    /\ job \in [Runs -> Job]
    /\ remote \in [Payments -> {"none", "pending", "approved", "refunded"}]
    /\ charge \in [Payments -> {"absent", "unlinked", "linked"}]
    /\ record \in [Payments -> {"NONE", "PENDING", "APPROVED"}]
    /\ clock \in Nat
    /\ faults \in 0..MaxFaults
    /\ lost \subseteq Losses

Final(n) == event[n].status \in {"PROCESSED", "IGNORED", "FAILED"}

\* An event that is marked as processed has its payment recorded in billing,
\* whichever of its runs wrote the mark last and whenever the process died.
ProcessedIsRecorded ==
    \A n \in Notifications :
        event[n].status = "PROCESSED" => record[event[n].payment] # "NONE"

\* A delivery is answered as a duplicate only if a genuine delivery with the
\* same request id was stored: a forged one cannot swallow it.
DuplicateWasAccepted ==
    \A n \in Notifications :
        job[n].outcome = "duplicate" =>
            \E m \in Notifications \ {n} :
                /\ event[m].valid
                /\ event[m].delivery = job[n].received.delivery

\* An event that was accepted and has no final status has a run under way, or a fault
\* has ended a run of this very event, and after its claim if the event is in
\* PROCESSING: errors, runs that overlap and claim again, and faults that strike
\* elsewhere leave none behind, and a retry after a crash finishes what it claims.
OpenOnlyByFault ==
    \A n \in Notifications :
        event[n].status \in {"RECEIVED", "PROCESSING"} =>
            LET claimed == event[n].status = "PROCESSING"
            IN  \/ \E x \in Unfinished(n) : claimed => WorksOn(x, n)
                \/ \E l \in lost : l.event = n /\ (claimed => l.claimed)

\* An event that failed validation never changes: no retry, no run and no
\* later delivery with its request id touches it.
UntrustedIsInert ==
    [][\A n \in Notifications :
          event[n].status # "ABSENT" /\ ~event[n].valid => event'[n] = event[n]]_vars

\* What a fetch has found can be stale when it is applied; the approval it
\* meets in billing survives nevertheless.
ApprovalSurvives ==
    [][\A p \in Payments : record[p] = "APPROVED" => record'[p] = "APPROVED"]_vars

\* Billing's half of the promise: whatever is redelivered, retried, overlapping or
\* applied late, payments are booked one at a time and never go back.
Booking == INSTANCE PaymentBooking WITH stage <- record

ImplementsBooking == Booking!BookingSpec

\* An event for which a run is scheduled, by its delivery or by a retry, also after a
\* crash, comes to a final status, or is left alone after a fault has ended a run of it.
ScheduledIsHandled ==
    \A n \in Notifications :
        (\E x \in Runs : pc[x] = "scheduled" /\ job[x].event = n) ~>
            \/ Final(n)
            \/ Unfinished(n) = {} /\ \E l \in lost : l.event = n

-----------------------------------------------------------------------------
(***************************************************************************)
(* What documents and tests say, and the code does not keep.               *)
(***************************************************************************)
\* 'returns quickly when the delivery was already accepted before': a delivery
\* is stored a second time only if what was stored before has failed.
AcceptedOnce ==
    [][\A n, m \in Notifications :
          /\ event[n].status = "ABSENT"
          /\ event'[n].status = "RECEIVED"
          /\ event[m].status # "ABSENT"
          /\ event[m].valid
          /\ event[m].delivery = event'[n].delivery
          => event[m].status = "FAILED"]_vars
=============================================================================
