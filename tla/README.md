# bjj-ops-api: a TLA+ model of its concurrent core

bjj-ops-api is the backend of a multi-tenant system for jiu-jitsu academies: a
NestJS process (any number of them) in front of one PostgreSQL database, which
it reaches through Prisma, with Mercado Pago as the only external service. This
directory holds specifications translated from its source, the TLC runs that
check them and the TLAPS proofs about them. Paths below are relative to the
root of the repository.

## Inventory

Every request is one asynchronous call: access control, reads, checks in a
*policy*, a write in a *repository*, an audit row. State lives in the database
only; the process keeps none but the calls in flight. Three kinds of write exist:

- *critical* writes: `prisma.$transaction(..., Serializable)` whose first
  statement takes `pg_advisory_xact_lock`. The snapshot is taken by that first
  statement, so before the wait for the lock: who waited acts on an old snapshot
  and aborts when it writes, or depends on, what has changed. Nothing retries.
- *interactive* transactions at the default READ COMMITTED, without lock:
  invitations and the replacement of a member's roles or scopes.
- *plain* writes: single statements without lock or condition, most of them
  after a check on an earlier read.

| Part | State | Operations | What is hard | What makes it correct |
|---|---|---|---|---|
| billing: charges, payments | `BillingCharge`, `PaymentRecord` | record manual payment, reconcile or observe a provider payment | racing payments, stale snapshots, repeated reports, checks before the transaction | balance = sum of approved records; status agrees with it; a provider payment is booked once; settled stays settled |
| billing: plans, memberships, status | `BillingPlan`, `StudentMembership`, `BranchBillingPolicy` | create, update, freeze; derive the financial status | update without the lock of create; derived dates | at most one open membership per student; the derived status of DD-031 |
| integrations: connections, preferences | `IntegrationConnection`, `ExternalEntityLink` | create, update, activate; create or reuse a preference | no transaction at all across five steps and one HTTP call | one active connection per branch; racing requests converge on one link (DD-032) |
| integrations: webhooks | `IntegrationWebhookEvent` | receive, process, retry | duplicates, forgeries, crashes, overlapping runs, stale fetches | processed means recorded; untrusted stays inert; accepted is handled (DD-033) |
| promotions | `PromotionRequest`, `PromotionEvaluation` | propose, evaluate, approve, reject | racing reviewers, rank corrections, rule boundaries | one request under review; ranks climb the federation's ladder (DD-021, DD-022) |
| students | `Student` | create, update | rank written without lock or rule | rank follows approved history |
| classes | `ClassSchedule`, `ClassSession` | create, generate, move, cancel, reinstate | decisions on a status read before the transaction | no overlap in a branch or for an instructor (DD-014) |
| attendance | `AttendanceRecord` | record | cancellation while recording | attendance only of sessions that take place (DD-015) |
| users, memberships, organizations | `OrganizationMembership`, `MembershipRoleAssignment`, `MembershipBranchScope` | bootstrap, invite, replace roles, replace scopes | delete-then-insert at READ COMMITTED, without a lock | a membership holds what was asked for last |
| access control, auth | `User`, the claims of a token | log in, admit or refuse a call | claims are as old as the login | nobody grants above their own rank |
| branches, public branches, audit, infrastructure | rows of their own | single-row writes, listings | — | — |

Components interact by calling each other's services in one process: webhooks
call billing (`observe-mercado-pago-payment-webhook`), billing calls integrations
(`create-mercado-pago-billing-preference`), attendance asks billing for
restrictions, and all of them write the audit.

## Modules

| Module | Models | Instance | Proofs |
|---|---|---|---|
| `ChargeLedger` | what billing promises: an atomic ledger of charges | — | in `ChargePaymentsProofs` |
| `PaymentBooking` | what billing promises the pipeline: payments are booked one at a time and never go back | — | in `WebhookPipelineProofs` and `ChargePaymentsProofs` |
| `ChargePayments` | manual payments and reconciliation as concurrent requests | `MCChargePayments` | `ChargePaymentsProofs` |
| `WebhookPipeline` | events from receipt to final status | `MCWebhookPipeline` | `WebhookPipelineProofs` |
| `RankLadder` | what promotions promise: ranks climb one rung at a time | — | in `PromotionWorkflowProofs` |
| `PromotionRanks` | belts, stripes and the rules of a request, as operators | — | in `PromotionWorkflowProofs` |
| `PromotionWorkflow` | proposals, evaluations and reviews as concurrent calls | `MCPromotionWorkflow` | `PromotionWorkflowProofs` |
| `PreferenceRegister` | what checkout promises: registers that are written once | — | in `CheckoutPreferencesProofs` |
| `CheckoutPreferences` | preference requests and connection calls | `MCCheckoutPreferences` | `CheckoutPreferencesProofs` |
| `ClassSessions` | schedules, generation, creation and updates of sessions | `MCClassSessions` | `ClassSessionsProofs` |
| `StudentMemberships` | the memberships of a student, beside plans and policy | `MCStudentMemberships` | `StudentMembershipsProofs` |
| `FinancialStatus` | overdue charges and the financial status, as operators | — | in `AttendanceRecordingProofs` |
| `AttendanceRecording` | attendance against billing, policy and cancellation | `MCAttendanceRecording` | `AttendanceRecordingProofs` |
| `OrganizationMemberships` | invitations, replacements of roles and of scopes | `MCOrganizationMemberships` | `OrganizationMembershipsProofs` |

`AttendanceRecording` composes `FinancialStatus` with the session of a class and
the charges of `ChargePayments`, each reduced to what a recording reads of it.

Conventions they share:

- A call is an identifier that is used once, with a program counter `pc` and
  what it has read (`job`, `call`); one action per statement that touches the
  database, per HTTP call, or per uninterrupted stretch between two of them.
- Calls are those that access control lets through. A refused call leaves no
  trace, so that refusals without other effect are either not taken, or end the
  call.
- Money is a small integer, a name is a model value. Mutated forms of a
  definition stand just before it, with the comment "Mutant of ...": each is a
  plausible mistake that the runs must notice, and is used by nothing else.
- PostgreSQL is external: `view` is the snapshot a transaction reads, `Fresh`
  the condition under which a Serializable transaction may commit. A spurious
  abort, a timeout and the death of the process are the `Abandon`, `Crash` or
  abort actions, which may strike anywhere.

### Payments

`CheckManual`, `CheckMercadoPago`, `BeginTransaction`,
`AcquireChargePaymentLock`, `RecordStudentPayment` and
`ReconcileMercadoPagoPayment` follow
`record-manual-student-payment.use-case.ts`,
`observe-mercado-pago-payment-webhook.use-case.ts` and the transactions at
`billing.repository.ts:971` and `:1216`. `ChargeLedger` has one action per
commit and no requests; `ImplementsLedger` says that `ChargePayments` implements
it under the identity on charges and records. No code cancels, voids or marks a
charge overdue, so these statuses do not occur.

### Webhooks

A `Notification` is received, judged, looked up, stored and scheduled
(`receive-mercado-pago-webhook.use-case.ts`); a run, scheduled or forced by a
retry, loads the event, marks it, fetches the payment, lets billing observe it
and writes the outcome (`process-mercado-pago-webhook-event.use-case.ts`).
Billing is reduced to whether the payment has a record and whether it is
approved, and a booking to one step. `PaymentBooking` is the seam: the pipeline
implements it with `record` as it is (`ImplementsBooking`, a property of the run),
and `ChargePayments` implements the same promise with its transactions
(`ChargePayments!ImplementsBooking`, a theorem), where the stage of a payment of a
charge is read off the records under its reference (`StageOf`).

`faults` counts crashes and lost writes, up to `MaxFaults`. The history variable
`lost` remembers of which events they have ended a run, and whether that run had
claimed its event. `OpenOnlyByFault` and `ScheduledIsHandled` except these events
and no others: a fault excuses neither another event nor a run that begins later.

### Promotions

`PromotionRanks` translates the catalogue and the checks of
`promotions.policy.ts`; `RankLadder` states the rungs independently of them.
Dates are years, a student has a birth year or none. `UpdateStudent` is the
student API's lock-free rank correction, at most `MaxCorrections` times.
`overtaken` is a history variable, the approvals whose student's rank was rewritten
after they had checked it and before their snapshot: the one window in which a
correction is overwritten unseen. `RankFollowsHistory` excepts these approvals;
`ImplementsLadder` speaks of the time before the first correction, after which a
student may stand anywhere.

### Preferences and connections

A request goes through eligibility, the single active connection, the stored
link, the provider, the unique index and the charge's reference. Operators'
calls read, count and write in separate steps and overlap with each other and
with the requests; the branch starts without connections or with an active one.
Of the statuses of a connection only ACTIVE is ever compared: INACTIVE stands for
ERROR and DISCONNECTED too. As two activations can miss each other (the run
`connection_twice_active`), `OneActiveConnection` does not hold. What counting
achieves nevertheless is `ActivationMissesOnlyLaterOnes`: a connection joins active
ones only if each of them became active after the joining call had counted. The
history variable `unseen` remembers these for each call.
`PreferenceRegister` says what all of this amounts to: a register per connection
and charge that the first request to store its preference writes, once, and that
every request hands out. `ImplementsRegister` maps it to the stored links
(`Chosen`), the references of ours that charges have (`Refers`) and the answers
(`Handed`).

### Classes

Every write of sessions in `classes.repository.ts` is one Serializable
transaction behind the lock of its branch and of its instructors, and the model
makes it one step; the reads before it are steps of their own where something
may change in between: `ReadSession` for an update, `ReadSchedules` for a
generation. An update carries the row it has seen, the merged row and the fields
that the client named, because the transaction decides on the merged row and
writes only what was named. `overtaken` is a history variable: the sessions of
which an update wrote a row that had changed since it was read.
Instants are numbers of one time zone; daylight saving is not modelled.

### Student memberships

A creation (`ReadForCreation` … `CreateStudentMembership`) checks plan, dates and
freeze, then begins a Serializable transaction, waits for the lock of the student
and writes if its snapshot shows no open membership. An update
(`update-student-membership.use-case.ts`) takes no lock: it reads the current
membership, merges the change into it (`Merged`) and later writes the whole
merged row, the plan excepted (`Written`). Creations do not see it coming: only
Serializable transactions conflict with each other. `overtaken` is a history
variable, the rows an update wrote after they had changed under it.

### Attendance and financial status

A call reads the session, then the policy, then the charges of its students, and
only then begins the Serializable transaction that reads the session again
(`record-session-attendance.use-case.ts`, `attendance.repository.ts`). Payments,
new charges, the policy, the calendar and the session change between any two of
these steps. Two history variables say what a call met: `unrestricted`, the
students who at some time of it were not restricted, and `torn`, the calls that
read a policy which had changed when they read the charges. `FinancialStatus`
translates the SQL conditions of listings and the derivation of DD-031; the
property `StatusAsDecided` states the decision anew, from what is owed and due.

### Organization memberships

A replacement is two statements: `DeleteRows` finds the rows that are committed
when it starts, `InsertRows` inserts and commits, beside whatever another
replacement has committed in between. A unique index refuses equal values only.
`granted` remembers what was asked for last, `meanwhile` what other replacements
have inserted since a call's deletion, and `beside` what the last replacement of
a membership's rows had met of it: `GrantedAsAsked` allows a membership these
values besides those that were asked for, and no others. Calls carry the claims
of a MESTRE; what other roles may not do is access control's and only takes
calls away.

## Runs

| Run | Question | Bounds |
|---|---|---|
| `payments_race` | do balance, status and records agree after every race, is every request answered, do the requests implement the ledger? | 2 requests, 1 charge of 2, payments of 0 to 3, 1 provider payment |
| `webhook_pipeline` | do events and billing agree, whatever overlaps or fails, is a booking ever undone, and is every scheduled event handled? | 2 deliveries, 1 retry, 1 fault |
| `webhook_twice` | is a delivery accepted once? (no) | 2 deliveries |
| `promotion_race` | one review, one decision, do ranks follow approvals and climb the ladder? | 1 student of every rank the student API lets in and every age around the limit, 2 proposals, 2 reviewers, 2 evaluators, 1 correction |
| `promotion_transition` | can a kid of the adult age change track? (no) | 1 request |
| `checkout_race` | are preferences write-once registers on which racing requests converge, can what they hand out be paid, and which connections can an activation miss? | 2 requests, 2 overlapping calls of operators, 2 connections |
| `connection_twice_active` | one active connection? (no) | 2 overlapping calls |
| `class_sessions` | are live sessions apart, one a schedule and date? | 2 sessions, 2 branches, 2 instructors, 1 schedule, 2 days of 2 hours, 1 update, 1 generation |
| `class_overlap` | are they whatever updates overlap? (no) | 2 sessions, 3 updates |
| `student_memberships` | one open membership, and coherent rows? | 4 calls, 2 memberships, 1 plan, 2 days, freeze limit 1 or none |
| `attendance` | is nobody recorded who was restricted throughout, and is the status the decided one? | 1 student, 2 charges, 2 calls, 3 days, due on 0, 1 or 6, grace 0 or 1 |
| `organization_memberships` | does a membership hold what was asked for last, and what besides? | 3 calls, 2 members, 2 branches, 4 sets of roles |

Why these bounds: most hazards need two calls on one row. One charge, event or
link is enough where the code touches no second one; two are used where it could
confuse them. Amounts of 0 to 3 against a charge of 2 give nothing, below, equal
(twice 1) and above. Sessions of `class_sessions` last one hour (`MaxLength`), so
that two of them fit on a day. `student_memberships` takes four calls because the
exception of its property does: a creation, an update that reads, a close, a
second creation, after which the update reopens the first row (without
`\ overtaken` the run finds this). In `attendance` the due date 6 lies beyond the
window of five days on day 0 and within it on day 1. One delivery id suffices in
the webhook runs: a notification with another one does what a notification does
that looked up before the first was stored, which the runs contain. Where a race
is small (two requests of `payments_race`, one update of `class_sessions`) the
proofs make up for it: they hold for any number of calls. `CHECK_DEADLOCK FALSE`
appears because all calls may be used up.

Two calls of operators suffice in `checkout_race`: one that counts and one that
activates in between; a third connection or call adds nothing that the theorem
`OnlyLaterMissed`, which holds for any number, does not cover.

Fairness: `payments_race` assumes weak fairness of each call's own steps,
`webhook_pipeline` weak fairness of the steps of all runs together, which is
less and enough, for a run has finitely many. The event loop runs callbacks that
are ready, awaited statements and HTTP calls return or fail (the provider client
has a timeout, Prisma transactions have one too, and a transaction that ends
releases its lock). Arrivals, retries, operators and the provider are under no
fairness, and no fault is assumed to stop by itself: `ScheduledIsHandled`
excepts the events of which a fault has ended a run, for the code does leave
these in PROCESSING. No other component promises that something happens: their
calls end with the request that made them.

## Proofs

All for every value of the constants, by TLAPS. Every safety property of the
passing runs is proved. None that speaks of what calls do is inductive as it
stands: whether a write preserves it depends on what the writing call has read
before. Each module therefore strengthens its invariant with what a call still
knows at each of its points.

- `ChargePaymentsProofs`: `TypeCorrect`, `Conserved`, `StatusCorrect`,
  `ReconciledOnce`, `OverpaidByHand`, `Settled`, `ApprovedFinal`,
  `ManualSettles`, `Implements`, `Books`. A request that holds the lock and
  whose snapshot is fresh sees the charge and the records as they are; snapshots
  never contain what the present lacks (records are not removed, balances not
  lowered); what the check before the transaction has seen still bounds what is
  owed. `Implements` is the refinement: each commit is one step of
  `ChargeLedger`, all other steps stutter. `Conserved` goes by counting: the
  invariant `Counted` says that a balance is the number of units of money of the
  approved records, a unit being a pair of a record and a number up to its
  amount, so that credits are disjoint unions and no sum is unfolded. That the
  sum of the library is that number is one induction, over the strict subsets of
  a finite set, by taking a smallest counterexample. `Books` is the second
  refinement: a step writes one record at most, a record keeps its charge and
  its reference (`Booked`), and no other stage can change.
- `WebhookPipelineProofs`: `TypeCorrect`, `Recorded`, `Duplicates`, `Stuck`,
  `Inert`, `Survives`, `Books`. `Knows`: of a stored event only the status ever
  changes, so that its validity, delivery and payment are as a run has read
  them, however old the read; a run that has decided on "processed" has left a
  record, and records are never removed. `Stuck` needs besides that a run that
  works on an event stays one until it writes an outcome or is lost (`Open`).
  `Books` refines `PaymentBooking`: the only step that touches a record is a run
  that applies what it found, and one that would take an approval back is
  refused.
- `PromotionWorkflowProofs`: `TypeCorrect`, `OnePending`, `Decided`,
  `RankFollows`, `Climbs`, `RulesAreRungs`, `TransitionIsShut`, `NeverDemoted`.
  `Compared`: while the request of an approval is pending, the rank it compared
  still stands, for the only other way to move it is an approval of another
  request of the student, which would then be a second pending one; or the
  student API has rewritten it since, either before the snapshot (`overtaken`),
  or after it, so that the version of the row has passed the one in the snapshot
  and the approval cannot commit. `Climbs` is the refinement of `RankLadder`: a
  rank that passed the rules of a request stands one place further in the
  sequence of rungs. `RulesAreRungs` adds the converse, for every rank, age and
  date: the checks spread over the policy and the ladder, which was written
  without looking at them, admit the same ranks, wherever the age fits both
  tracks. As no age fits two tracks on one date, `TransitionIsShut` follows:
  what the run `promotion_transition` shows of one kid holds of everybody whose
  birth date is known. `NeverDemoted` orders ranks by track, belt and stripes
  (`Higher`, an order by `HigherIsOrder`) and shows that every rung ascends.
- `CheckoutPreferencesProofs`: `TypeCorrect`, `Registers`, `Converge`, `Stored`,
  `Observable`, `OnlyLaterMissed`. The unique index makes links write-once; no
  request takes back the reference of a charge to a stored preference, and a
  charge that a request read as referring to one still does. `OnlyLaterMissed`
  assumes nothing about how connection calls overlap: whatever is active when a
  call is about to activate another connection is in what became active since
  its count (`AllSeen`), because the count found nothing else and every write
  tells the calls that have counted. `Registers` refines `PreferenceRegister`;
  it needs besides that a preference is stored under one connection and charge
  only (`StoredOnce`): who is about to store one has made it and stored none.
- `ClassSessionsProofs`: `TypeCorrect`, `SessionsApart`, `OnePerDate`, `Coherent`.
  The merged row of a pending update agrees with the row it has seen wherever
  the client named no change, so that an update which finds that row writes
  exactly what its transaction has checked; candidates of a generation are told
  apart by schedule and date. Nothing is assumed about how calls overlap; what
  overlap can break is confined to `overtaken`.
- `StudentMembershipsProofs`: `TypeCorrect`, `RowsCoherent`, `OneOpen`. A call
  about to write holds a coherent row; an update has read its row when it was
  open, so that it reopens a membership only where it overtakes a close. A
  creation commits on a snapshot without open memberships after which none was
  created.
- `AttendanceRecordingProofs`: `TypeCorrect`, `StatusDecided`, `Listed`,
  `AttendanceJustified`. No other status than PENDING, PARTIALLY_PAID and PAID is
  stored, and what is paid owes nothing, which makes the two conditions of
  listings and the rule of the decisions agree; who has passed the check of a
  call is in its history, or its two reads are torn.
- `OrganizationMembershipsProofs`: `TypeCorrect`, `AsAsked`. What a pending call
  asks for has passed the checks, and what it has deleted belongs to what it
  replaces: an insertion removes nothing that another membership, or the other
  kind of rows, relies on. The rows that an insertion leaves were inserted after its
  deletion (`LeftIsNew`), so that they are in `meanwhile`.

Assumptions are those the modules name: dates and amounts are numbers, null values
are no names, requests and connection calls are different calls.

Only model-checked: `EveryRequestAnswered` and `ScheduledIsHandled`, which are
liveness properties under fairness and out of the prover's reach.

## What the code does not keep

Shown by runs that expect a violation: `webhook_twice`, `promotion_transition`,
`connection_twice_active`, `class_overlap` (see "findings" in PROJECT.json).
Seen while modelling and not kept as runs:

- A webhook event stays in PROCESSING for ever when the process dies during a
  run or the last update is refused (`OpenOnlyByFault` shows that nothing else
  does it); no retry and no redelivery may touch it then.
- A retry admitted while an event was RECEIVED can take a PROCESSED event back
  to PROCESSING or FAILED.
- A promotion's evaluation can be rewritten after the decision, and a
  recommendation withdrawn, or a rank corrected, between an approver's check and
  the transaction does not stop the approval.
- Clearing the configuration of a connection that another call is activating
  leaves it active without credentials.
- Overlapping updates of a schedule can invert its window, after which every
  generation for its branch is refused; a canceled session moved onto the date of
  a live one of its schedule makes updates of the live one fail.
- An update of a membership that overtakes its close reopens it beside a new one;
  the context of a student and the listing of the branch then choose differently.
- The freeze limit is compared with one freeze, not with those of a year, and two
  updates of a branch's policy can lose each other's limit
  (`update-branch-billing-policy.use-case.ts:43`). Nothing ends a freeze by
  itself. A membership of a deactivated plan can be neither updated nor canceled,
  one that starts in the future only with an explicit end.
- A branch's summary ignores the start of its range: `pendingChargesCount` gives
  `dueDate` a second time (`billing.repository.ts:1797` against `:1738`). A charge
  over nothing is listed as OVERDUE although nobody is.
- A change of policy between the two reads of a recording can admit a student
  who was restricted all the time. Charges of another branch restrict nobody.
- Overlapping replacements of scopes or roles leave the union of what they asked
  for (`GrantedAsAsked` shows that nothing older stays). A head coach is checked
  when he is appointed and stays when his scopes go. The last MESTRE may replace
  his own role. Invited memberships are never activated. Two bootstraps may both
  succeed.
- Audit rows are written after the commit: a refused audit insert answers with
  an error although the work is done.

## Not modelled

- Access control and login: pure functions of a token's claims and of a request;
  modules describe the calls that are let through.
- Personal data of students, prices, discounts, titles, notes, capacities, sums of
  summaries, computed promotion signals: no modelled decision depends on them.
- Branches, public branches, organizations' status, audit, sync jobs, entity links
  other than those of charges: single-row writes, some after a check of other
  rows, and no invariant over several rows.
- The provider client, encryption, configuration, HTTP, validation pipes, process
  start: pure I/O. Their answers are nondeterministic choices of the modules.
- The review of possible duplicate payments: a report that changes nothing.
- Time zones and daylight saving: days and instants are numbers.
- Modules without behaviour: analytics, competitions, shop, notifications.
- `src/src/generated`, the Prisma client and three quarters of all lines of
  TypeScript: generated, and present in the modules as the statements it issues.

## Plan

The plan of the first version is carried out: all components whose calls can
interleave have a module, a run and proofs. What could follow:

1. A composition of `WebhookPipeline` with `ChargePayments` in one state space. The
   two meet in `PaymentBooking` now, which says what a booking does; a composition
   would add when it happens between the steps of a run.
2. Sync jobs and organization-wide connections, if they gain a second step.
3. Access control, if claims gain a lifetime or a revocation.
