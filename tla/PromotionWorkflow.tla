-------------------------- MODULE PromotionWorkflow --------------------------
(***************************************************************************)
(* Promotions as concurrent requests run them (src/src/promotions): a      *)
(* request is proposed, evaluated, and approved or rejected; an approval   *)
(* writes the student's rank in the same transaction.  The student API     *)
(* (src/src/students) may rewrite a rank at any time.                      *)
(*                                                                         *)
(* Proposals and reviews check what they have read outside any transaction *)
(* and then run one Serializable transaction under an advisory lock on the *)
(* student.  As in ChargePayments the snapshot is taken before the wait.   *)
(* The update of an evaluation is a plain write after a plain read.        *)
(*                                                                         *)
(* Requests that are refused before they write leave no trace, and callers *)
(* are those the policy lets through: both are left out.  Approvals name   *)
(* any effective date.                                                     *)
(***************************************************************************)
EXTENDS PromotionRanks

CONSTANTS
    Students,
    Promotions,         \* promotion requests, each with the call that creates it
    Reviews,            \* calls of approve and reject, each used once
    Evaluations,        \* calls of the evaluation update, each used once
    InitialStudents,    \* student rows to start from
    RewrittenRanks,     \* ranks that the student API writes
    Dates,              \* years in which promotions are requested or take effect
    MaxCorrections,     \* bound: ranks rewritten through the student API
    None                \* no student, no promotion

ASSUME NoneIsNobody == None \notin Students \cup Promotions
ASSUME CallsHaveDistinctNames ==
    /\ Promotions \cap Reviews = {}
    /\ Promotions \cap Evaluations = {}
    /\ Reviews \cap Evaluations = {}
ASSUME DatesAreYears == Dates \subseteq Nat
ASSUME CorrectionsAreBounded == MaxCorrections \in Nat

Calls == Promotions \cup Reviews \cup Evaluations

VARIABLES
    student,        \* student[s]: the Student row
    promotion,      \* promotion[p]: the PromotionRequest row
    recommendation, \* recommendation[p]: what its PromotionEvaluation recommends
    pc,             \* pc[x]: how far call x has got
    call,           \* call[x]: its arguments, and what it will write
    view,           \* view[x]: what its transaction's snapshot shows
    corrections,    \* ranks rewritten through the student API so far
    overtaken       \* history: approvals whose student the student API has rewritten
                    \* between their check and their snapshot

vars == <<student, promotion, recommendation, pc, call, view, corrections, overtaken>>

(***************************************************************************)
(* Rows.  since is the later of startedBjjAt and joinedOrganizationAt; ver *)
(* is the version PostgreSQL gives a row at each write.                    *)
(***************************************************************************)
Student == [born : Nat \cup {NoDate}, rank : Rank, since : Nat, ver : Nat]

ASSUME StudentsAreRows == InitialStudents \subseteq Student
ASSUME RewrittenAreRanks == RewrittenRanks \subseteq Rank

Statuses == {"ABSENT", "PENDING_REVIEW", "APPROVED", "REJECTED"}
Recommendations == {"none", "supports", "opposes"}

Target == [belt : Belts \cup {NoBelt}, stripes : Nat \cup {NoStripes},
           type : {"BELT", "STRIPE"}]

NoRank == [track |-> "ADULT", belt |-> NoBelt, stripes |-> 0]
NoTarget == [belt |-> NoBelt, stripes |-> NoStripes, type |-> "STRIPE"]

\* snapshot: the rank at the time of the proposal.
Promotion == [student : Students \cup {None}, status : Statuses, snapshot : Rank,
              target : Target]
NoPromotion == [student |-> None, status |-> "ABSENT", snapshot |-> NoRank,
                target |-> NoTarget]

Call == [promotion : Promotion,
         kind : {"none", "propose", "approve", "reject", "evaluate"},
         of : Promotions \cup {None}, writes : Recommendations]
NoCall == [promotion |-> NoPromotion, kind |-> "none", of |-> None,
           writes |-> "none"]

\* A proposal looks for other requests of the student, a review at its own.
Snapshot == [ver : Nat, status : Statuses, requests : SUBSET Promotions]
NoSnapshot == [ver |-> 0, status |-> "ABSENT", requests |-> {}]

Init ==
    /\ student \in [Students -> InitialStudents]
    /\ promotion = [p \in Promotions |-> NoPromotion]
    /\ recommendation = [p \in Promotions |-> "none"]
    /\ pc = [x \in Calls |-> "idle"]
    /\ call = [x \in Calls |-> NoCall]
    /\ view = [x \in Calls |-> NoSnapshot]
    /\ corrections = 0
    /\ overtaken = {}

-----------------------------------------------------------------------------
RequestsOf(s) == {p \in Promotions : promotion[p].student = s}
PendingOf(s) == {p \in RequestsOf(s) : promotion[p].status = "PENDING_REVIEW"}

Goto(x, point) == pc' = [pc EXCEPT ![x] = point]

End(x) ==
    /\ Goto(x, "done")
    /\ call' = [call EXCEPT ![x] = NoCall]
    /\ view' = [view EXCEPT ![x] = NoSnapshot]
    /\ overtaken' = overtaken \ {x}

\* The student API checks neither belt nor track, and takes no lock.
UpdateStudent(s, rank) ==
    /\ corrections < MaxCorrections
    /\ corrections' = corrections + 1
    /\ student' = [student EXCEPT ![s].rank = rank, ![s].ver = student[s].ver + 1]
    /\ overtaken' = overtaken \cup {x \in Reviews : /\ pc[x] = "checked"
                                                   /\ call[x].kind = "approve"
                                                   /\ call[x].promotion.student = s}
    /\ UNCHANGED <<promotion, recommendation, pc, call, view>>

-----------------------------------------------------------------------------
(***************************************************************************)
(* Before the transaction.                                                 *)
(***************************************************************************)
ReadForProposal(p, s, target, date) ==
    /\ pc[p] = "idle"
    /\ ValidRequest(student[s].rank, student[s].born, target.type, target.belt,
                    target.stripes, date)
    /\ Goto(p, "read")
    /\ call' = [call EXCEPT ![p] =
          [NoCall EXCEPT !.kind = "propose", !.of = p,
                         !.promotion = [student |-> s, status |-> "PENDING_REVIEW",
                                        snapshot |-> student[s].rank,
                                        target |-> target]]]
    /\ UNCHANGED <<student, promotion, recommendation, view, corrections, overtaken>>

CheckNoPendingPromotion(p) ==
    /\ pc[p] = "read"
    /\ UNCHANGED <<student, promotion, recommendation, corrections>>
    /\ \/ PendingOf(call[p].promotion.student) = {} /\ Goto(p, "checked")
                                                    /\ UNCHANGED <<call, view, overtaken>>
       \/ PendingOf(call[p].promotion.student) # {} /\ End(p)

\* Mutant of SupportsApproval: the student may have moved on since the proposal.
SupportsApprovalLoosely(p, date) ==
    LET row == student[promotion[p].student]
        target == promotion[p].target
    IN  /\ promotion[p].status = "PENDING_REVIEW"
        /\ recommendation[p] = "supports"
        /\ date >= row.since
        /\ ValidRequest(promotion[p].snapshot, row.born, target.type, target.belt,
                        target.stripes, date)

\* What an approval checks of the rows it has read.
SupportsApproval(p, date) ==
    LET row == student[promotion[p].student]
        target == promotion[p].target
    IN  /\ promotion[p].status = "PENDING_REVIEW"
        /\ recommendation[p] = "supports"
        /\ promotion[p].snapshot = row.rank
        /\ date >= row.since
        /\ ValidRequest(row.rank, row.born, target.type, target.belt, target.stripes, date)

ReadForApproval(x, p, date) ==
    /\ pc[x] = "idle"
    /\ SupportsApproval(p, date)
    /\ Goto(x, "checked")
    /\ call' = [call EXCEPT ![x] = [NoCall EXCEPT !.kind = "approve", !.of = p,
                                                  !.promotion = promotion[p]]]
    /\ UNCHANGED <<student, promotion, recommendation, view, corrections, overtaken>>

ReadForRejection(x, p) ==
    /\ pc[x] = "idle"
    /\ promotion[p].status = "PENDING_REVIEW"
    /\ Goto(x, "checked")
    /\ call' = [call EXCEPT ![x] = [NoCall EXCEPT !.kind = "reject", !.of = p,
                                                  !.promotion = promotion[p]]]
    /\ UNCHANGED <<student, promotion, recommendation, view, corrections, overtaken>>

ReadForEvaluation(e, p, advice) ==
    /\ pc[e] = "idle"
    /\ promotion[p].status = "PENDING_REVIEW"
    /\ Goto(e, "checked")
    /\ call' = [call EXCEPT ![e] = [NoCall EXCEPT !.kind = "evaluate", !.of = p,
                                                  !.writes = advice]]
    /\ UNCHANGED <<student, promotion, recommendation, view, corrections, overtaken>>

UpsertPromotionEvaluation(e) ==
    /\ pc[e] = "checked"
    /\ call[e].kind = "evaluate"
    /\ recommendation' = [recommendation EXCEPT ![call[e].of] = call[e].writes]
    /\ End(e)
    /\ UNCHANGED <<student, promotion, corrections>>

-----------------------------------------------------------------------------
(***************************************************************************)
(* The transaction.                                                        *)
(***************************************************************************)
SnapshotOf(c) ==
    [ver |-> IF c.kind = "approve" THEN student[c.promotion.student].ver ELSE 0,
     status |-> promotion[c.of].status,
     requests |-> IF c.kind = "propose" THEN RequestsOf(c.promotion.student) ELSE {}]

\* Mutant of Fresh: no write conflict is detected, as under a weaker isolation.
FreshUnchecked(x) == view[x] \in Snapshot

\* Nothing the transaction has read, and no row it writes, was written since its
\* snapshot.
Fresh(x) == view[x] = SnapshotOf(call[x])

BeginTransaction(x) ==
    /\ pc[x] = "checked"
    /\ call[x].kind \in {"propose", "approve", "reject"}
    /\ Goto(x, "waiting")
    /\ view' = [view EXCEPT ![x] = SnapshotOf(call[x])]
    /\ UNCHANGED <<student, promotion, recommendation, call, corrections, overtaken>>

AcquirePromotionStudentLock(x) ==
    /\ pc[x] = "waiting"
    /\ \A y \in Calls : pc[y] = "locked" =>
           call[y].promotion.student # call[x].promotion.student
    /\ Goto(x, "locked")
    /\ UNCHANGED <<student, promotion, recommendation, call, view, corrections, overtaken>>

\* Mutant of ProposalCommits: pending requests are not looked for again.
ProposalCommitsBlindly(p) == view[p].ver = 0

ProposalCommits(p) ==
    /\ Fresh(p)
    /\ \A q \in view[p].requests : promotion[q].status # "PENDING_REVIEW"

CreatePromotionRequest(p) ==
    /\ pc[p] = "locked"
    /\ call[p].kind = "propose"
    /\ ProposalCommits(p)
    /\ promotion' = [promotion EXCEPT ![p] = call[p].promotion]
    /\ End(p)
    /\ UNCHANGED <<student, recommendation, corrections>>

\* Mutant of ReviewCommits: the status is not read again under the lock.
ReviewCommitsAnyStatus(x) == view[x].ver = SnapshotOf(call[x]).ver

ReviewCommits(x) == Fresh(x) /\ view[x].status = "PENDING_REVIEW"

\* Mutant of ApprovePromotion: the student is updated in another transaction,
\* which is lost.
ApprovePromotionOnly(x) ==
    /\ pc[x] = "locked"
    /\ call[x].kind = "approve"
    /\ ReviewCommits(x)
    /\ promotion' = [promotion EXCEPT ![call[x].of].status = "APPROVED"]
    /\ End(x)
    /\ UNCHANGED <<student, recommendation, corrections>>

\* A stripe leaves the belt of the row alone, whatever it is by now.
ApprovePromotion(x) ==
    LET s == call[x].promotion.student
        target == call[x].promotion.target
    IN  /\ pc[x] = "locked"
        /\ call[x].kind = "approve"
        /\ ReviewCommits(x)
        /\ student' = [student EXCEPT
               ![s].rank = PromotedRank(student[s].rank, target.type, target.belt,
                                        target.stripes),
               ![s].ver = student[s].ver + 1]
        /\ promotion' = [promotion EXCEPT ![call[x].of].status = "APPROVED"]
        /\ End(x)
        /\ UNCHANGED <<recommendation, corrections>>

RejectPromotion(x) ==
    /\ pc[x] = "locked"
    /\ call[x].kind = "reject"
    /\ ReviewCommits(x)
    /\ promotion' = [promotion EXCEPT ![call[x].of].status = "REJECTED"]
    /\ End(x)
    /\ UNCHANGED <<student, recommendation, corrections>>

RollBack(x) ==
    /\ pc[x] = "locked"
    /\ \/ call[x].kind = "propose" /\ ~ProposalCommits(x)
       \/ call[x].kind \in {"approve", "reject"} /\ ~ReviewCommits(x)
    /\ End(x)
    /\ UNCHANGED <<student, promotion, recommendation, corrections>>

\* The process dies, or the transaction times out or is aborted spuriously.
Abandon(x) ==
    /\ pc[x] \in {"read", "checked", "waiting", "locked"}
    /\ End(x)
    /\ UNCHANGED <<student, promotion, recommendation, corrections>>

-----------------------------------------------------------------------------
\* Targets that a client may send: the DTO allows ten stripes.
Targets ==
    [belt : Belts, stripes : {NoStripes}, type : {"BELT"}]
        \cup [belt : {NoBelt}, stripes : 0..10, type : {"STRIPE"}]

Next ==
    \/ \E p \in Promotions, s \in Students, t \in Targets, d \in Dates :
          ReadForProposal(p, s, t, d)
    \/ \E x \in Reviews, p \in Promotions :
          ReadForRejection(x, p) \/ \E d \in Dates : ReadForApproval(x, p, d)
    \/ \E e \in Evaluations, p \in Promotions, r \in Recommendations :
          ReadForEvaluation(e, p, r)
    \/ \E p \in Promotions : CheckNoPendingPromotion(p) \/ CreatePromotionRequest(p)
    \/ \E e \in Evaluations : UpsertPromotionEvaluation(e)
    \/ \E x \in Reviews : ApprovePromotion(x) \/ RejectPromotion(x)
    \/ \E x \in Promotions \cup Reviews :
          BeginTransaction(x) \/ AcquirePromotionStudentLock(x) \/ RollBack(x)
    \/ \E x \in Calls : Abandon(x)
    \/ \E s \in Students, rank \in RewrittenRanks : UpdateStudent(s, rank)

Spec == Init /\ [][Next]_vars

-----------------------------------------------------------------------------
(***************************************************************************)
(* Properties.                                                             *)
(***************************************************************************)
TypeOK ==
    /\ student \in [Students -> Student]
    /\ promotion \in [Promotions -> Promotion]
    /\ recommendation \in [Promotions -> Recommendations]
    /\ pc \in [Calls -> {"idle", "read", "checked", "waiting", "locked", "done"}]
    /\ call \in [Calls -> Call]
    /\ view \in [Calls -> Snapshot]
    /\ corrections \in 0..MaxCorrections
    /\ overtaken \subseteq Reviews

\* A student never has two requests under review, although proposals look for
\* one before their transactions and may wait for the lock on an old snapshot.
OnePendingPerStudent ==
    \A s \in Students : \A p, q \in PendingOf(s) : p = q

\* Of the reviewers who race on a request, and on the same student, one decides:
\* what is decided stays so, and a decision is never taken back or repeated.
DecidedOnce ==
    [][\A p \in Promotions :
          promotion[p].status \in {"APPROVED", "REJECTED"} => promotion'[p] = promotion[p]]_vars

\* Approved history and current rank move together: an approval adds the belt or
\* stripe of its target, to the rank the request was proposed for, although it
\* checked the rank before its transaction, and nothing but approvals and the
\* student API moves a rank.  Only a rank that the student API rewrites between
\* that check and the snapshot is overwritten unseen; a change of it before the
\* check or after the snapshot stops the approval.
RankFollowsHistory ==
    [][\A s \in Students :
          LET approved == {p \in RequestsOf(s) : /\ promotion[p].status # "APPROVED"
                                                 /\ promotion'[p].status = "APPROVED"}
          IN  /\ approved = {} /\ corrections' = corrections =>
                    student'[s].rank = student[s].rank
              /\ \A p \in approved :
                    /\ student'[s].rank = PromotedRank(student[s].rank, promotion[p].target.type,
                                                       promotion[p].target.belt,
                                                       promotion[p].target.stripes)
                    /\ \/ student[s].rank = promotion[p].snapshot
                       \/ \E x \in overtaken : call[x].of = p /\ pc'[x] # pc[x]]_vars

\* Whatever requests race, ranks climb the federation's ladder one rung at a time.
Ladder == INSTANCE RankLadder WITH rank <- [s \in Students |-> student[s].rank],
                                   rewritten <- corrections > 0

ImplementsLadder == Ladder!LadderSpec

-----------------------------------------------------------------------------
(***************************************************************************)
(* What the code's messages say, and the code does not keep.               *)
(***************************************************************************)
\* 'KIDS to ADULT transition must start at ADULT_WHITE': a kid who is old enough
\* for the adult track can be proposed for its first belt.
TransitionIsOpen ==
    \A s \in Students, d \in Dates :
        LET row == student[s]
        IN  /\ row.rank.track = "KIDS"
            /\ RankStateOK(row.rank)
            /\ row.born # NoDate
            /\ d - row.born >= AdultTrackMinAge
            => ValidRequest(row.rank, row.born, "BELT", "ADULT_WHITE", NoStripes, d)
=============================================================================
