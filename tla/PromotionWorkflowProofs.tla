----------------------- MODULE PromotionWorkflowProofs -----------------------
(***************************************************************************)
(* Proofs about PromotionWorkflow for every number of students, requests   *)
(* and concurrent calls.                                                   *)
(***************************************************************************)
EXTENDS PromotionWorkflow, TLAPS

\* What an approval has checked of the request and of the rank it was made for.
Justified(request) ==
    \E born, date :
        ValidRequest(request.snapshot, born, request.target.type, request.target.belt,
                     request.target.stripes, date)

SameRequest(request, row) ==
    /\ request.student = row.student
    /\ request.snapshot = row.snapshot
    /\ request.target = row.target

\* What a call knows of the rows: those of requests stand once they exist, but
\* for their status.
CallKnows(c) ==
    /\ c.kind # "none" => c.of \in Promotions
    /\ c.kind = "propose" =>
          c.promotion.status = "PENDING_REVIEW" /\ c.promotion.student \in Students
    /\ c.kind \in {"approve", "reject"} =>
          /\ promotion[c.of].status # "ABSENT"
          /\ SameRequest(c.promotion, promotion[c.of])
    /\ c.kind = "approve" => Justified(c.promotion)

CallsKnow == \A x \in Calls : CallKnows(call[x])

\* As long as the request of an approval is pending no other approval has moved the
\* rank that it has compared: the student API may have, and is noticed if it has
\* since the snapshot.
Compared(x) ==
    call[x].kind = "approve" =>
        /\ pc[x] # "checked" => view[x].ver <= student[call[x].promotion.student].ver
        /\ x \notin overtaken /\ promotion[call[x].of].status = "PENDING_REVIEW" =>
              \/ student[call[x].promotion.student].rank = call[x].promotion.snapshot
              \/ /\ pc[x] # "checked"
                 /\ view[x].ver < student[call[x].promotion.student].ver

RanksAreCompared == \A x \in Reviews : Compared(x)

NoneIsOvertaken == corrections = 0 => overtaken = {}

RequestsAreProposed ==
    \A p \in Promotions :
        /\ pc[p] # "done" => promotion[p].status = "ABSENT"
        /\ promotion[p].status # "ABSENT" => promotion[p].student \in Students

IInv ==
    /\ TypeOK
    /\ CallsKnow
    /\ RanksAreCompared
    /\ NoneIsOvertaken
    /\ RequestsAreProposed
    /\ OnePendingPerStudent

-----------------------------------------------------------------------------
(***************************************************************************)
(* What the operators do.                                                  *)
(***************************************************************************)
LEMMA NothingTyped ==
    /\ NoPromotion \in Promotion
    /\ NoCall \in Call
    /\ NoSnapshot \in Snapshot
BY DEF NoPromotion, Promotion, NoCall, Call, NoSnapshot, Snapshot, NoRank, Rank, NoTarget,
       Target, Tracks, Statuses, Recommendations

LEMMA NothingKnown == CallKnows(NoCall)
BY DEF CallKnows, NoCall

LEMMA EndTyped ==
    ASSUME TypeOK, NEW x \in Calls, End(x)
    PROVE  /\ pc' \in [Calls -> {"idle", "read", "checked", "waiting", "locked", "done"}]
           /\ call' \in [Calls -> Call]
           /\ view' \in [Calls -> Snapshot]
           /\ pc'[x] = "done"
           /\ call'[x] = NoCall
           /\ \A y \in Calls \ {x} :
                 pc'[y] = pc[y] /\ call'[y] = call[y] /\ view'[y] = view[y]
           /\ overtaken' = overtaken \ {x}
BY NothingTyped DEF TypeOK, End, Goto

\* A request that is valid for a rank leads to a rank.
LEMMA PromotedTyped ==
    ASSUME NEW rank \in Rank, NEW request \in Promotion, request.snapshot \in Rank,
           Justified(request)
    PROVE  PromotedRank(rank, request.target.type, request.target.belt,
                        request.target.stripes) \in Rank
<1> DEFINE target == request.target
<1>1. target \in Target
  BY DEF Promotion
<1>2. PICK born, date : ValidRequest(request.snapshot, born, target.type, target.belt,
                                     target.stripes, date)
  BY DEF Justified
<1>3. CASE target.type = "BELT"
  <2>1. target.belt \in Belts
    BY <1>1, <1>2, <1>3 DEF ValidRequest, ValidBeltTarget, Target
  <2>2. TrackOf(target.belt) \in Tracks
    BY DEF TrackOf, Tracks
  <2> QED
    BY <1>3, <2>1, <2>2 DEF PromotedRank, Rank
<1>4. CASE target.type # "BELT"
  <2>1. target.stripes \in Nat
    BY <1>1, <1>2, <1>4 DEF ValidRequest, ValidStripeTarget, Target, Rank, NoStripes
  <2> QED
    BY <1>4, <2>1 DEF PromotedRank, Rank
<1> QED
  BY <1>3, <1>4

-----------------------------------------------------------------------------
(***************************************************************************)
(* The inductive invariant.                                                *)
(***************************************************************************)
LEMMA InvInit == Init => IInv
<1> SUFFICES ASSUME Init PROVE IInv
  OBVIOUS
<1>1. TypeOK
  BY NothingTyped, StudentsAreRows, CorrectionsAreBounded DEF Init, TypeOK, Recommendations
<1>2. CallsKnow
  BY NothingKnown DEF Init, CallsKnow
<1>3. RanksAreCompared /\ NoneIsOvertaken
  BY DEF Init, RanksAreCompared, Compared, NoneIsOvertaken, NoCall, Calls
<1>4. RequestsAreProposed /\ OnePendingPerStudent
  BY DEF Init, RequestsAreProposed, OnePendingPerStudent, PendingOf, RequestsOf, NoPromotion
<1> QED
  BY <1>1, <1>2, <1>3, <1>4 DEF IInv

\* Steps that move one call and leave the rows alone.
LEMMA QuietPreserves ==
    ASSUME IInv, TypeOK', NEW x \in Calls, UNCHANGED <<student, promotion, corrections>>,
           \A y \in Calls \ {x} : /\ pc'[y] = pc[y]
                                  /\ call'[y] = call[y]
                                  /\ view'[y] = view[y],
           overtaken' \subseteq overtaken,
           overtaken \subseteq overtaken' \cup {x},
           CallKnows(call'[x]), x \in Reviews => Compared(x)',
           pc'[x] # "done" => pc[x] # "done"
    PROVE  IInv'
<1>1. CallsKnow'
  <2> SUFFICES ASSUME NEW y \in Calls PROVE CallKnows(call'[y])
    BY DEF CallsKnow, CallKnows
  <2> QED
    BY DEF IInv, CallsKnow
<1>2. RanksAreCompared'
  <2> SUFFICES ASSUME NEW y \in Reviews, y # x PROVE Compared(y)'
    BY DEF RanksAreCompared
  <2>1. Compared(y) /\ y \in Calls
    BY DEF IInv, RanksAreCompared, Calls
  <2>2. /\ pc'[y] = pc[y] /\ call'[y] = call[y] /\ view'[y] = view[y]
        /\ y \in overtaken' <=> y \in overtaken
    BY <2>1
  <2> QED
    BY <2>1, <2>2 DEF Compared
<1>3. NoneIsOvertaken'
  BY DEF IInv, NoneIsOvertaken
<1>4. RequestsAreProposed'
  BY DEF IInv, RequestsAreProposed, Calls
<1>5. OnePendingPerStudent'
  BY DEF IInv, OnePendingPerStudent, PendingOf, RequestsOf
<1> QED
  BY <1>1, <1>2, <1>3, <1>4, <1>5 DEF IInv

LEMMA EndPreserves ==
    ASSUME IInv, NEW x \in Calls, End(x), UNCHANGED <<student, promotion, corrections>>,
           recommendation' \in [Promotions -> Recommendations]
    PROVE  IInv'
<1>1. TypeOK'
  BY EndTyped DEF IInv, TypeOK
<1>2. CallKnows(call'[x])
  BY EndTyped, NothingKnown DEF IInv
<1>3. Compared(x)'
  BY EndTyped DEF IInv, Compared, NoCall
<1> QED
  BY <1>1, <1>2, <1>3, EndTyped, QuietPreserves DEF IInv

LEMMA StartPreserves ==
    ASSUME IInv, NEW x \in Calls, NEW c \in Call, NEW point \in {"read", "checked"},
           pc[x] = "idle", Goto(x, point), call' = [call EXCEPT ![x] = c], CallKnows(c),
           c.kind = "approve" =>
              /\ point = "checked"
              /\ student[c.promotion.student].rank = c.promotion.snapshot,
           UNCHANGED <<student, promotion, recommendation, view, corrections, overtaken>>
    PROVE  IInv'
<1>1. TypeOK'
  BY DEF IInv, TypeOK, Goto
<1>2. /\ call'[x] = c
      /\ pc'[x] = point
      /\ \A y \in Calls \ {x} : pc'[y] = pc[y] /\ call'[y] = call[y]
  BY DEF IInv, TypeOK, Goto
<1>3. Compared(x)'
  BY <1>2 DEF Compared
<1> QED
  BY <1>1, <1>2, <1>3, QuietPreserves

LEMMA ReadForProposalPreserves ==
    ASSUME IInv, NEW p \in Promotions, NEW s \in Students, NEW target \in Targets,
           NEW date \in Dates, ReadForProposal(p, s, target, date)
    PROVE  IInv'
<1> DEFINE request == [student |-> s, status |-> "PENDING_REVIEW",
                       snapshot |-> student[s].rank, target |-> target]
           c1 == [NoCall EXCEPT !.kind = "propose"]
           c2 == [c1 EXCEPT !.of = p]
           c == [c2 EXCEPT !.promotion = request]
<1>1. target \in Target
  BY DEF Targets, Target, NoBelt, NoStripes
<1>2. request \in Promotion
  BY <1>1 DEF IInv, TypeOK, Student, Promotion, Statuses
<1>3. c \in Call /\ c.kind = "propose" /\ c.of = p /\ c.promotion = request
  BY <1>2, NothingTyped DEF NoCall, Call
<1>4. CallKnows(c)
  <2> HIDE DEF c
  <2> QED
    BY <1>3 DEF CallKnows
<1>5. call' = [call EXCEPT ![p] = c]
  BY DEF ReadForProposal
<1> HIDE DEF c
<1> QED
  BY <1>3, <1>4, <1>5, StartPreserves DEF ReadForProposal, Calls

LEMMA ReadForApprovalPreserves ==
    ASSUME IInv, NEW x \in Reviews, NEW p \in Promotions, NEW date \in Dates,
           ReadForApproval(x, p, date)
    PROVE  IInv'
<1> DEFINE c1 == [NoCall EXCEPT !.kind = "approve"]
           c2 == [c1 EXCEPT !.of = p]
           c == [c2 EXCEPT !.promotion = promotion[p]]
<1>1. /\ c \in Call
      /\ c.kind = "approve"
      /\ c.of = p
      /\ c.promotion = promotion[p]
  BY NothingTyped DEF IInv, TypeOK, NoCall, Call
<1>2. /\ promotion[p].status = "PENDING_REVIEW"
      /\ promotion[p].snapshot = student[promotion[p].student].rank
      /\ Justified(promotion[p])
  BY DEF ReadForApproval, SupportsApproval, Justified
<1>3. call' = [call EXCEPT ![x] = c]
  BY DEF ReadForApproval
<1> HIDE DEF c
<1>4. CallKnows(c)
  BY <1>1, <1>2 DEF CallKnows, SameRequest
<1>5. student[c.promotion.student].rank = c.promotion.snapshot
  BY <1>1, <1>2
<1> QED
  BY <1>1, <1>3, <1>4, <1>5, StartPreserves DEF ReadForApproval, Calls

LEMMA ReadForRejectionPreserves ==
    ASSUME IInv, NEW x \in Reviews, NEW p \in Promotions, ReadForRejection(x, p)
    PROVE  IInv'
<1> DEFINE c1 == [NoCall EXCEPT !.kind = "reject"]
           c2 == [c1 EXCEPT !.of = p]
           c == [c2 EXCEPT !.promotion = promotion[p]]
<1>1. /\ c \in Call
      /\ c.kind = "reject"
      /\ c.of = p
      /\ c.promotion = promotion[p]
  BY NothingTyped DEF IInv, TypeOK, NoCall, Call
<1>2. promotion[p].status = "PENDING_REVIEW" /\ call' = [call EXCEPT ![x] = c]
  BY DEF ReadForRejection
<1> HIDE DEF c
<1>3. CallKnows(c)
  BY <1>1, <1>2 DEF CallKnows, SameRequest
<1> QED
  BY <1>1, <1>2, <1>3, StartPreserves DEF ReadForRejection, Calls

LEMMA ReadForEvaluationPreserves ==
    ASSUME IInv, NEW e \in Evaluations, NEW p \in Promotions, NEW advice \in Recommendations,
           ReadForEvaluation(e, p, advice)
    PROVE  IInv'
<1> DEFINE c1 == [NoCall EXCEPT !.kind = "evaluate"]
           c2 == [c1 EXCEPT !.of = p]
           c == [c2 EXCEPT !.writes = advice]
<1>1. c \in Call /\ c.kind = "evaluate" /\ c.of = p
  BY NothingTyped DEF NoCall, Call
<1>2. call' = [call EXCEPT ![e] = c]
  BY DEF ReadForEvaluation
<1> HIDE DEF c
<1>3. CallKnows(c)
  BY <1>1 DEF CallKnows
<1> QED
  BY <1>1, <1>2, <1>3, StartPreserves DEF ReadForEvaluation, Calls

LEMMA CheckNoPendingPromotionPreserves ==
    ASSUME IInv, NEW p \in Promotions, CheckNoPendingPromotion(p)
    PROVE  IInv'
<1>1. CASE End(p)
  BY <1>1, EndPreserves DEF CheckNoPendingPromotion, Calls, IInv, TypeOK
<1>2. CASE Goto(p, "checked") /\ UNCHANGED <<call, view, overtaken>>
  <2>1. TypeOK'
    BY <1>2 DEF CheckNoPendingPromotion, IInv, TypeOK, Goto
  <2>2. /\ \A y \in Calls \ {p} : pc'[y] = pc[y] /\ call'[y] = call[y]
        /\ pc[p] # "done"
        /\ CallKnows(call'[p])
    BY <1>2 DEF CheckNoPendingPromotion, IInv, TypeOK, CallsKnow, Calls, Goto
  <2>3. p \notin Reviews
    BY CallsHaveDistinctNames
  <2> QED
    BY <1>2, <2>1, <2>2, <2>3, QuietPreserves DEF CheckNoPendingPromotion, Calls
<1> QED
  BY <1>1, <1>2 DEF CheckNoPendingPromotion

LEMMA UpsertPromotionEvaluationPreserves ==
    ASSUME IInv, NEW e \in Evaluations, UpsertPromotionEvaluation(e)
    PROVE  IInv'
<1>1. recommendation' \in [Promotions -> Recommendations]
  BY DEF UpsertPromotionEvaluation, IInv, TypeOK, Call, Calls
<1> QED
  BY <1>1, EndPreserves DEF UpsertPromotionEvaluation, Calls

LEMMA SnapshotTyped ==
    ASSUME IInv, NEW c \in Call, c.kind \in {"propose", "approve", "reject"},
           c.of \in Promotions, CallKnows(c)
    PROVE  SnapshotOf(c) \in Snapshot
<1>1. promotion[c.of].status \in Statuses
  BY DEF IInv, TypeOK, Promotion
<1>2. RequestsOf(c.promotion.student) \in SUBSET Promotions
  BY DEF RequestsOf
<1>3. (IF c.kind = "approve" THEN student[c.promotion.student].ver ELSE 0) \in Nat
  <2>1. CASE c.kind = "approve"
    <3>1. c.promotion.student \in Students
      BY <2>1 DEF CallKnows, SameRequest, IInv, RequestsAreProposed
    <3> QED
      BY <3>1 DEF IInv, TypeOK, Student
  <2> QED
    BY <2>1
<1> QED
  BY <1>1, <1>2, <1>3 DEF SnapshotOf, Snapshot

LEMMA BeginTransactionPreserves ==
    ASSUME IInv, NEW x \in Promotions \cup Reviews, BeginTransaction(x)
    PROVE  IInv'
<1>1. call[x] \in Call /\ CallKnows(call[x]) /\ x \in Calls
  BY DEF IInv, TypeOK, CallsKnow, Calls
<1>2. call[x].of \in Promotions
  BY <1>1 DEF BeginTransaction, CallKnows
<1>3. SnapshotOf(call[x]) \in Snapshot
  BY <1>1, <1>2, SnapshotTyped DEF BeginTransaction
<1>4. TypeOK'
  BY <1>3, <1>1 DEF BeginTransaction, IInv, TypeOK, Goto
<1>5. /\ \A y \in Calls \ {x} :
            pc'[y] = pc[y] /\ call'[y] = call[y] /\ view'[y] = view[y]
      /\ pc[x] # "done"
      /\ CallKnows(call'[x])
  BY <1>1 DEF BeginTransaction, IInv, TypeOK, Goto
<1>6. ASSUME x \in Reviews PROVE Compared(x)'
  <2>1. SUFFICES ASSUME call[x].kind = "approve" PROVE Compared(x)'
    BY DEF BeginTransaction, Compared
  <2>2. view'[x].ver = student[call[x].promotion.student].ver
    BY <1>1, <2>1 DEF BeginTransaction, SnapshotOf, IInv, TypeOK
  <2>3. view'[x].ver \in Nat
    BY <1>1, <1>4 DEF IInv, TypeOK, Snapshot
  <2>4. Compared(x) /\ pc[x] = "checked"
    BY <1>6 DEF IInv, RanksAreCompared, BeginTransaction
  <2> QED
    BY <2>2, <2>3, <2>4 DEF BeginTransaction, Compared
<1> QED
  BY <1>1, <1>4, <1>5, <1>6, QuietPreserves DEF BeginTransaction

LEMMA AcquirePromotionStudentLockPreserves ==
    ASSUME IInv, NEW x \in Promotions \cup Reviews, AcquirePromotionStudentLock(x)
    PROVE  IInv'
<1>1. TypeOK'
  BY DEF AcquirePromotionStudentLock, IInv, TypeOK, Goto, Calls
<1>2. /\ \A y \in Calls \ {x} : pc'[y] = pc[y] /\ call'[y] = call[y]
      /\ pc[x] = "waiting" /\ pc'[x] = "locked"
      /\ CallKnows(call'[x])
      /\ x \in Calls
  BY DEF AcquirePromotionStudentLock, IInv, TypeOK, CallsKnow, Goto, Calls
<1>3. ASSUME x \in Reviews PROVE Compared(x)'
  <2>1. Compared(x)
    BY <1>3 DEF IInv, RanksAreCompared
  <2> QED
    BY <1>2, <2>1 DEF AcquirePromotionStudentLock, Compared
<1> QED
  BY <1>1, <1>2, <1>3, QuietPreserves DEF AcquirePromotionStudentLock

\* The request that is created was not there, and no other of its student is
\* pending: no call that reviews a request reviews this one.
LEMMA CreatePromotionRequestPreserves ==
    ASSUME IInv, NEW p \in Promotions, CreatePromotionRequest(p)
    PROVE  IInv'
<1> DEFINE request == call[p].promotion
<1>1. /\ p \in Calls
      /\ request \in Promotion
      /\ request.status = "PENDING_REVIEW"
      /\ request.student \in Students
      /\ promotion[p].status = "ABSENT"
  BY DEF CreatePromotionRequest, IInv, TypeOK, CallsKnow, CallKnows, Calls, Call,
         RequestsAreProposed
<1>2. /\ promotion'[p] = request
      /\ \A q \in Promotions \ {p} : promotion'[q] = promotion[q]
  BY DEF CreatePromotionRequest, IInv, TypeOK
<1>3. \A q \in Promotions : promotion[q].student = request.student =>
          promotion[q].status # "PENDING_REVIEW"
  BY DEF CreatePromotionRequest, ProposalCommits, Fresh, SnapshotOf, RequestsOf
<1>4. TypeOK'
  BY <1>1, EndTyped DEF CreatePromotionRequest, IInv, TypeOK
<1>5. CallsKnow'
  <2> SUFFICES ASSUME NEW y \in Calls PROVE CallKnows(call[y])' 
    BY DEF CallsKnow
  <2>1. CASE y = p
    BY <2>1, <1>1, EndTyped DEF CreatePromotionRequest, IInv, CallKnows, NoCall
  <2>2. CASE y # p
    <3>1. call'[y] = call[y] /\ CallKnows(call[y])
      BY <2>2, <1>1, EndTyped DEF CreatePromotionRequest, IInv, CallsKnow
    <3>2. call[y].kind \in {"approve", "reject"} =>
              promotion'[call[y].of] = promotion[call[y].of]
      BY <3>1, <1>1, <1>2 DEF CallKnows
    <3> QED
      BY <3>1, <3>2 DEF CallKnows, CreatePromotionRequest
  <2> QED
    BY <2>1, <2>2
<1>6. RanksAreCompared'
  <2> SUFFICES ASSUME NEW y \in Reviews PROVE Compared(y)'
    BY DEF RanksAreCompared
  <2>1. y \in Calls /\ y # p
    BY CallsHaveDistinctNames DEF Calls
  <2>2. /\ pc'[y] = pc[y] /\ call'[y] = call[y] /\ view'[y] = view[y]
        /\ y \in overtaken' <=> y \in overtaken
        /\ CallKnows(call[y]) /\ Compared(y)
    BY <2>1, <1>1, EndTyped DEF CreatePromotionRequest, IInv, CallsKnow, RanksAreCompared
  <2>3. call[y].kind = "approve" => promotion'[call[y].of] = promotion[call[y].of]
    BY <2>2, <1>1, <1>2 DEF CallKnows
  <2> QED
    BY <2>2, <2>3 DEF Compared, CreatePromotionRequest
<1>7. NoneIsOvertaken'
  BY <1>1, EndTyped DEF CreatePromotionRequest, IInv, NoneIsOvertaken
<1>8. RequestsAreProposed'
  BY <1>1, <1>2, EndTyped DEF CreatePromotionRequest, IInv, RequestsAreProposed, Calls
<1>9. OnePendingPerStudent'
  BY <1>1, <1>2, <1>3 DEF IInv, OnePendingPerStudent, PendingOf, RequestsOf
<1> QED
  BY <1>4, <1>5, <1>6, <1>7, <1>8, <1>9 DEF IInv

\* What an approval knows when it commits.
LEMMA ApprovalKnows ==
    ASSUME IInv, NEW x \in Reviews, ApprovePromotion(x)
    PROVE  /\ x \in Calls
           /\ call[x] \in Call
           /\ call[x].of \in Promotions
           /\ promotion[call[x].of].status = "PENDING_REVIEW"
           /\ call[x].promotion.student \in Students
           /\ SameRequest(call[x].promotion, promotion[call[x].of])
           /\ Justified(call[x].promotion)
           /\ x \notin overtaken =>
                 student[call[x].promotion.student].rank = call[x].promotion.snapshot
           /\ corrections = 0 => x \notin overtaken
<1>1. x \in Calls /\ call[x] \in Call /\ CallKnows(call[x]) /\ call[x].kind = "approve"
  BY DEF ApprovePromotion, IInv, TypeOK, CallsKnow, Calls
<1>2. promotion[call[x].of].status = "PENDING_REVIEW"
  BY DEF ApprovePromotion, ReviewCommits, Fresh, SnapshotOf
<1>3. call[x].promotion.student \in Students
  BY <1>1 DEF CallKnows, SameRequest, IInv, RequestsAreProposed
<1>4. view[x].ver = student[call[x].promotion.student].ver
  BY <1>1 DEF ApprovePromotion, ReviewCommits, Fresh, SnapshotOf
<1>5. student[call[x].promotion.student].ver \in Nat
  BY <1>3 DEF IInv, TypeOK, Student
<1>6. x \notin overtaken =>
          student[call[x].promotion.student].rank = call[x].promotion.snapshot
  BY <1>1, <1>2, <1>4, <1>5 DEF IInv, RanksAreCompared, Compared
<1>7. corrections = 0 => x \notin overtaken
  BY DEF IInv, NoneIsOvertaken
<1> QED
  BY <1>1, <1>2, <1>3, <1>6, <1>7 DEF CallKnows

\* What a decision does to the calls that still review: the request it decides is
\* no longer pending, and every other pending request is another student's.
LEMMA DecisionKnown ==
    ASSUME IInv, NEW x \in Reviews, End(x), NEW d \in Promotions,
           promotion[d].status = "PENDING_REVIEW",
           NEW outcome \in {"APPROVED", "REJECTED"},
           promotion' = [promotion EXCEPT ![d].status = outcome],
           corrections' = corrections,
           \A s \in Students : s # promotion[d].student => student'[s] = student[s],
           \A s \in Students : student[s].ver <= student'[s].ver,
           TypeOK'
    PROVE  IInv'
<1>1. x \in Calls
  BY DEF Calls
<1>2. /\ promotion'[d].status = outcome
      /\ SameRequest(promotion'[d], promotion[d])
      /\ \A q \in Promotions \ {d} : promotion'[q] = promotion[q]
  BY DEF IInv, TypeOK, Promotion, SameRequest
<1>3. ASSUME NEW y \in Calls, call[y].kind \in {"approve", "reject"}
      PROVE  /\ call[y].of \in Promotions
             /\ promotion[call[y].of].status # "ABSENT"
             /\ SameRequest(call[y].promotion, promotion[call[y].of])
             /\ promotion[call[y].of].student \in Students
  BY <1>3 DEF IInv, CallsKnow, CallKnows, RequestsAreProposed
<1>4. CallsKnow'
  <2> SUFFICES ASSUME NEW y \in Calls PROVE CallKnows(call[y])'
    BY DEF CallsKnow
  <2>1. CASE y = x
    BY <2>1, <1>1, EndTyped DEF IInv, CallKnows, NoCall
  <2>2. CASE y # x
    <3>1. call'[y] = call[y] /\ CallKnows(call[y])
      BY <2>2, <1>1, EndTyped DEF IInv, CallsKnow
    <3>2. CASE call[y].kind \in {"approve", "reject"}
      <4>1. /\ promotion'[call[y].of].status # "ABSENT"
            /\ SameRequest(call[y].promotion, promotion'[call[y].of])
        BY <3>2, <1>2, <1>3 DEF SameRequest
      <4> QED
        BY <3>1, <3>2, <4>1 DEF CallKnows
    <3>3. CASE call[y].kind \notin {"approve", "reject"}
      BY <3>1, <3>3 DEF CallKnows
    <3> QED
      BY <3>2, <3>3
  <2> QED
    BY <2>1, <2>2
<1>5. RanksAreCompared'
  <2> SUFFICES ASSUME NEW y \in Reviews PROVE Compared(y)'
    BY DEF RanksAreCompared
  <2>1. y \in Calls
    BY DEF Calls
  <2>2. CASE y = x
    BY <2>2, <1>1, EndTyped DEF IInv, Compared, NoCall
  <2>3. CASE y # x
    <3>1. /\ pc'[y] = pc[y] /\ call'[y] = call[y] /\ view'[y] = view[y]
          /\ y \in overtaken' <=> y \in overtaken
          /\ Compared(y)
      BY <2>1, <2>3, <1>1, EndTyped DEF IInv, RanksAreCompared
    <3> SUFFICES ASSUME call[y].kind = "approve" PROVE Compared(y)'
      BY <3>1 DEF Compared
    <3> DEFINE s == call[y].promotion.student
    <3>2. s \in Students /\ s = promotion[call[y].of].student
      BY <2>1, <1>3 DEF SameRequest
    <3>3. /\ student[s].ver \in Nat /\ student'[s].ver \in Nat
          /\ student[s].ver <= student'[s].ver
      BY <3>2 DEF IInv, TypeOK, Student
    <3>4. pc[y] # "checked" => view[y].ver <= student'[s].ver
      <4>1. view[y].ver \in Nat
        BY <2>1 DEF IInv, TypeOK, Snapshot
      <4> QED
        BY <3>1, <3>3, <4>1 DEF Compared
    <3>5. ASSUME promotion'[call[y].of].status = "PENDING_REVIEW"
          PROVE  promotion[call[y].of].status = "PENDING_REVIEW" /\ student'[s] = student[s]
      <4>1. call[y].of # d /\ promotion[call[y].of].status = "PENDING_REVIEW"
        BY <2>1, <3>5, <1>2, <1>3
      <4>2. promotion[d].student \in Students
        BY DEF IInv, RequestsAreProposed
      <4>3. s # promotion[d].student
        BY <2>1, <3>2, <4>1, <4>2, <1>3 DEF IInv, OnePendingPerStudent, PendingOf, RequestsOf
      <4> QED
        BY <3>2, <4>1, <4>3
    <3> QED
      BY <3>1, <3>4, <3>5 DEF Compared
  <2> QED
    BY <2>2, <2>3
<1>6. NoneIsOvertaken'
  BY <1>1, EndTyped DEF IInv, NoneIsOvertaken
<1>7. RequestsAreProposed'
  <2> SUFFICES ASSUME NEW p \in Promotions
               PROVE  /\ pc'[p] # "done" => promotion'[p].status = "ABSENT"
                      /\ promotion'[p].status # "ABSENT" => promotion'[p].student \in Students
    BY DEF RequestsAreProposed
  <2>1. pc'[p] = pc[p]
    BY <1>1, EndTyped, CallsHaveDistinctNames DEF IInv, Calls
  <2>2. /\ pc[p] # "done" => promotion[p].status = "ABSENT"
        /\ promotion[p].status # "ABSENT" => promotion[p].student \in Students
    BY DEF IInv, RequestsAreProposed
  <2> QED
    BY <2>1, <2>2, <1>2 DEF SameRequest
<1>8. OnePendingPerStudent'
  BY <1>2 DEF IInv, OnePendingPerStudent, PendingOf, RequestsOf, SameRequest
<1> QED
  BY <1>4, <1>5, <1>6, <1>7, <1>8 DEF IInv

LEMMA ApprovePromotionPreserves ==
    ASSUME IInv, NEW x \in Reviews, ApprovePromotion(x)
    PROVE  IInv'
<1> DEFINE d == call[x].of
           s == call[x].promotion.student
           target == call[x].promotion.target
           rank == PromotedRank(student[s].rank, target.type, target.belt, target.stripes)
<1>1. /\ d \in Promotions
      /\ promotion[d].status = "PENDING_REVIEW"
      /\ s \in Students
      /\ promotion[d].student = s
  BY ApprovalKnows DEF SameRequest
<1>2. rank \in Rank
  <2>1. call[x].promotion \in Promotion /\ Justified(call[x].promotion)
    BY ApprovalKnows DEF Call
  <2>2. student[s].rank \in Rank /\ call[x].promotion.snapshot \in Rank
    BY <1>1, <2>1 DEF IInv, TypeOK, Student, Promotion
  <2> QED
    BY <2>1, <2>2, PromotedTyped
<1>3. /\ student' = [student EXCEPT ![s].rank = rank, ![s].ver = student[s].ver + 1]
      /\ promotion' = [promotion EXCEPT ![d].status = "APPROVED"]
      /\ End(x)
      /\ UNCHANGED <<recommendation, corrections>>
  BY DEF ApprovePromotion
<1> HIDE DEF rank
<1>4. TypeOK'
  <2>1. student' \in [Students -> Student]
    BY <1>1, <1>2, <1>3 DEF IInv, TypeOK, Student
  <2>2. promotion' \in [Promotions -> Promotion]
    BY <1>1, <1>3 DEF IInv, TypeOK, Promotion, Statuses
  <2> QED
    BY <1>3, <2>1, <2>2, EndTyped DEF IInv, TypeOK, Calls
<1>5. \A t \in Students : /\ t # s => student'[t] = student[t]
                          /\ student[t].ver <= student'[t].ver
  BY <1>1, <1>3 DEF IInv, TypeOK, Student
<1> QED
  BY <1>1, <1>3, <1>4, <1>5, DecisionKnown

LEMMA RejectPromotionPreserves ==
    ASSUME IInv, NEW x \in Reviews, RejectPromotion(x)
    PROVE  IInv'
<1> DEFINE d == call[x].of
<1>1. d \in Promotions /\ promotion[d].status = "PENDING_REVIEW"
  BY DEF RejectPromotion, ReviewCommits, Fresh, SnapshotOf, IInv, TypeOK, CallsKnow,
         CallKnows, Calls
<1>2. TypeOK'
  <2>1. promotion' \in [Promotions -> Promotion]
    BY <1>1 DEF RejectPromotion, IInv, TypeOK, Promotion, Statuses
  <2> QED
    BY <2>1, EndTyped DEF RejectPromotion, IInv, TypeOK, Calls
<1>3. \A s \in Students : student'[s] = student[s] /\ student[s].ver <= student'[s].ver
  BY DEF RejectPromotion, IInv, TypeOK, Student
<1> QED
  BY <1>1, <1>2, <1>3, DecisionKnown DEF RejectPromotion

LEMMA RollBackPreserves ==
    ASSUME IInv, NEW x \in Calls, RollBack(x) \/ Abandon(x)
    PROVE  IInv'
BY EndPreserves DEF RollBack, Abandon, IInv, TypeOK

LEMMA UpdateStudentPreserves ==
    ASSUME IInv, NEW s \in Students, NEW rank \in RewrittenRanks, UpdateStudent(s, rank)
    PROVE  IInv'
<1>1. corrections' \in 1..MaxCorrections
  BY CorrectionsAreBounded DEF UpdateStudent, IInv, TypeOK
<1>2. student' \in [Students -> Student]
  BY RewrittenAreRanks DEF UpdateStudent, IInv, TypeOK, Student
<1>3. TypeOK'
  BY <1>1, <1>2 DEF UpdateStudent, IInv, TypeOK
<1>4. CallsKnow'
  BY DEF UpdateStudent, IInv, CallsKnow, CallKnows
<1>5. RanksAreCompared'
  <2> SUFFICES ASSUME NEW y \in Reviews, call[y].kind = "approve" PROVE Compared(y)'
    BY DEF RanksAreCompared, Compared, UpdateStudent
  <2> DEFINE of == call[y].promotion.student
  <2>1. y \in Calls /\ Compared(y)
    BY DEF IInv, RanksAreCompared, Calls
  <2>2. CASE of = s
    <3>1. /\ student'[s].ver = student[s].ver + 1
          /\ student[s].ver \in Nat /\ view[y].ver \in Nat
      BY <2>1 DEF UpdateStudent, IInv, TypeOK, Student, Snapshot
    <3>2. CASE pc[y] = "checked"
      BY <2>2, <3>2 DEF UpdateStudent, Compared
    <3>3. CASE pc[y] # "checked"
      <4>1. view[y].ver <= student[s].ver
        BY <2>1, <2>2, <3>3 DEF Compared
      <4>2. view[y].ver <= student'[s].ver /\ view[y].ver < student'[s].ver
        BY <3>1, <4>1
      <4> QED
        BY <2>2, <3>3, <4>2 DEF UpdateStudent, Compared
    <3> QED
      BY <3>2, <3>3
  <2>3. CASE of # s
    <3>1. student'[of] = student[of]
      <4>1. student' = [student EXCEPT ![s].rank = rank, ![s].ver = student[s].ver + 1]
        BY DEF UpdateStudent
      <4>2. student \in [Students -> Student] /\ of \in Students
        BY <2>1 DEF IInv, TypeOK, CallsKnow, CallKnows, SameRequest, RequestsAreProposed
      <4> QED
        BY <2>3, <4>1, <4>2
    <3>2. y \in overtaken' <=> y \in overtaken
      BY <2>3 DEF UpdateStudent
    <3> QED
      BY <2>1, <3>1, <3>2 DEF UpdateStudent, Compared
  <2> QED
    BY <2>2, <2>3
<1>6. NoneIsOvertaken'
  BY <1>1 DEF NoneIsOvertaken
<1>7. RequestsAreProposed' /\ OnePendingPerStudent'
  BY DEF UpdateStudent, IInv, RequestsAreProposed, OnePendingPerStudent, PendingOf, RequestsOf
<1> QED
  BY <1>3, <1>4, <1>5, <1>6, <1>7 DEF IInv

LEMMA StutterPreserves == ASSUME IInv, UNCHANGED vars PROVE IInv'
<1>1. CallsKnow' /\ RanksAreCompared' /\ NoneIsOvertaken'
  BY DEF vars, IInv, CallsKnow, CallKnows, RanksAreCompared, Compared, NoneIsOvertaken
<1>2. TypeOK' /\ RequestsAreProposed' /\ OnePendingPerStudent'
  BY DEF vars, IInv, TypeOK, RequestsAreProposed, OnePendingPerStudent, PendingOf, RequestsOf
<1> QED
  BY <1>1, <1>2 DEF IInv

LEMMA InvNext == IInv /\ [Next]_vars => IInv'
<1> SUFFICES ASSUME IInv, [Next]_vars PROVE IInv'
  OBVIOUS
<1>1. ASSUME NEW p \in Promotions, NEW s \in Students, NEW t \in Targets, NEW d \in Dates,
             ReadForProposal(p, s, t, d)
      PROVE  IInv'
  BY <1>1, ReadForProposalPreserves
<1>2. ASSUME NEW x \in Reviews, NEW p \in Promotions, ReadForRejection(x, p)
      PROVE  IInv'
  BY <1>2, ReadForRejectionPreserves
<1>3. ASSUME NEW x \in Reviews, NEW p \in Promotions, NEW d \in Dates,
             ReadForApproval(x, p, d)
      PROVE  IInv'
  BY <1>3, ReadForApprovalPreserves
<1>4. ASSUME NEW e \in Evaluations, NEW p \in Promotions, NEW r \in Recommendations,
             ReadForEvaluation(e, p, r)
      PROVE  IInv'
  BY <1>4, ReadForEvaluationPreserves
<1>5. ASSUME NEW p \in Promotions, CheckNoPendingPromotion(p) PROVE IInv'
  BY <1>5, CheckNoPendingPromotionPreserves
<1>6. ASSUME NEW p \in Promotions, CreatePromotionRequest(p) PROVE IInv'
  BY <1>6, CreatePromotionRequestPreserves
<1>7. ASSUME NEW e \in Evaluations, UpsertPromotionEvaluation(e) PROVE IInv'
  BY <1>7, UpsertPromotionEvaluationPreserves
<1>8. ASSUME NEW x \in Reviews, ApprovePromotion(x) PROVE IInv'
  BY <1>8, ApprovePromotionPreserves
<1>9. ASSUME NEW x \in Reviews, RejectPromotion(x) PROVE IInv'
  BY <1>9, RejectPromotionPreserves
<1>10. ASSUME NEW x \in Promotions \cup Reviews, BeginTransaction(x) PROVE IInv'
  BY <1>10, BeginTransactionPreserves
<1>11. ASSUME NEW x \in Promotions \cup Reviews, AcquirePromotionStudentLock(x) PROVE IInv'
  BY <1>11, AcquirePromotionStudentLockPreserves
<1>12. ASSUME NEW x \in Calls, RollBack(x) \/ Abandon(x) PROVE IInv'
  BY <1>12, RollBackPreserves
<1>13. ASSUME NEW s \in Students, NEW rank \in RewrittenRanks, UpdateStudent(s, rank)
       PROVE  IInv'
  BY <1>13, UpdateStudentPreserves
<1>14. CASE UNCHANGED vars
  BY <1>14, StutterPreserves
<1> QED
  BY <1>1, <1>2, <1>3, <1>4, <1>5, <1>6, <1>7, <1>8, <1>9, <1>10, <1>11, <1>12, <1>13,
     <1>14 DEF Next, Calls

LEMMA Invariant == Spec => []IInv
<1>1. Init => IInv
  BY InvInit
<1>2. IInv /\ [Next]_vars => IInv'
  BY InvNext
<1> QED
  BY <1>1, <1>2, PTL DEF Spec

-----------------------------------------------------------------------------
(***************************************************************************)
(* What a step does to decided requests and to ranks.                      *)
(***************************************************************************)
LEMMA StepDecides ==
    ASSUME IInv, [Next]_vars, NEW p \in Promotions,
           promotion[p].status \in {"APPROVED", "REJECTED"}
    PROVE  promotion'[p] = promotion[p]
<1>1. ASSUME NEW q \in Promotions, CreatePromotionRequest(q)
      PROVE  promotion'[p] = promotion[p]
  BY <1>1 DEF CreatePromotionRequest, IInv, TypeOK, RequestsAreProposed
<1>2. ASSUME NEW x \in Reviews, ApprovePromotion(x)
      PROVE  promotion'[p] = promotion[p]
  BY <1>2, ApprovalKnows DEF ApprovePromotion, IInv, TypeOK
<1>3. ASSUME NEW x \in Reviews, RejectPromotion(x)
      PROVE  promotion'[p] = promotion[p]
  <2>1. promotion[call[x].of].status = "PENDING_REVIEW"
    BY <1>3 DEF RejectPromotion, ReviewCommits, Fresh, SnapshotOf
  <2> QED
    BY <1>3, <2>1 DEF RejectPromotion, IInv, TypeOK
<1>4. CASE promotion' = promotion
  BY <1>4
<1> QED
  BY <1>1, <1>2, <1>3, <1>4 DEF Next, vars, ReadForProposal, ReadForRejection,
     ReadForApproval, ReadForEvaluation, CheckNoPendingPromotion,
     UpsertPromotionEvaluation, BeginTransaction, AcquirePromotionStudentLock, RollBack,
     Abandon, UpdateStudent

\* Approvals, the student API, and the rest.
LEMMA StepRanks ==
    ASSUME IInv, [Next]_vars
    PROVE  \/ \E x \in Reviews : ApprovePromotion(x)
           \/ /\ corrections' # corrections
              /\ corrections' # 0
              /\ promotion' = promotion
           \/ /\ student' = student
              /\ corrections' = corrections
              /\ \A p \in Promotions :
                    promotion[p].status # "APPROVED" => promotion'[p].status # "APPROVED"
<1> DEFINE Quiet == /\ student' = student
                    /\ corrections' = corrections
                    /\ \A p \in Promotions : promotion[p].status # "APPROVED" =>
                                                 promotion'[p].status # "APPROVED"
<1>1. ASSUME NEW q \in Promotions, CreatePromotionRequest(q)
      PROVE  Quiet
  BY <1>1 DEF CreatePromotionRequest, IInv, TypeOK, CallsKnow, CallKnows, Calls
<1>2. ASSUME NEW x \in Reviews, RejectPromotion(x)
      PROVE  Quiet
  BY <1>2 DEF RejectPromotion, IInv, TypeOK, Promotion
<1>3. ASSUME NEW s \in Students, NEW rank \in RewrittenRanks, UpdateStudent(s, rank)
      PROVE  corrections' # corrections /\ corrections' # 0 /\ promotion' = promotion
  BY <1>3, CorrectionsAreBounded DEF UpdateStudent, IInv, TypeOK
<1>4. ASSUME UNCHANGED <<student, promotion, corrections>> PROVE Quiet
  BY <1>4
<1> HIDE DEF Quiet
<1>5. \/ \E x \in Reviews : ApprovePromotion(x)
      \/ corrections' # corrections /\ corrections' # 0 /\ promotion' = promotion
      \/ Quiet
  BY <1>1, <1>2, <1>3, <1>4 DEF Next, vars, ReadForProposal, ReadForRejection,
     ReadForApproval, ReadForEvaluation, CheckNoPendingPromotion,
     UpsertPromotionEvaluation, BeginTransaction, AcquirePromotionStudentLock, RollBack,
     Abandon
<1> QED
  BY <1>5 DEF Quiet

\* What an approval does: one request, one student.
LEMMA ApprovalMoves ==
    ASSUME IInv, NEW x \in Reviews, ApprovePromotion(x)
    PROVE  \E d \in Promotions :
              LET s == promotion[d].student
              IN  /\ s \in Students
                  /\ promotion[d].status = "PENDING_REVIEW"
                  /\ Justified(promotion[d])
                  /\ promotion' = [promotion EXCEPT ![d].status = "APPROVED"]
                  /\ call[x].of = d
                  /\ x \notin overtaken => student[s].rank = promotion[d].snapshot
                  /\ corrections = 0 => x \notin overtaken
                  /\ student'[s].rank =
                        PromotedRank(student[s].rank, promotion[d].target.type,
                                     promotion[d].target.belt, promotion[d].target.stripes)
                  /\ \A t \in Students : t # s => student'[t] = student[t]
                  /\ DOMAIN student' = Students
<1> DEFINE d == call[x].of
           s == call[x].promotion.student
           target == call[x].promotion.target
           rank == PromotedRank(student[s].rank, target.type, target.belt, target.stripes)
<1>1. /\ d \in Promotions
      /\ promotion[d].status = "PENDING_REVIEW"
      /\ s \in Students
      /\ promotion[d].student = s
      /\ promotion[d].snapshot = call[x].promotion.snapshot
      /\ promotion[d].target = target
      /\ Justified(call[x].promotion)
      /\ x \notin overtaken => student[s].rank = promotion[d].snapshot
      /\ corrections = 0 => x \notin overtaken
  BY ApprovalKnows DEF SameRequest
<1>2. /\ student' = [student EXCEPT ![s].rank = rank, ![s].ver = student[s].ver + 1]
      /\ promotion' = [promotion EXCEPT ![d].status = "APPROVED"]
  BY DEF ApprovePromotion
<1>3. Justified(promotion[d])
  BY <1>1 DEF Justified
<1> HIDE DEF rank
<1>4. /\ student'[s].rank = rank
      /\ \A t \in Students : t # s => student'[t] = student[t]
      /\ DOMAIN student' = Students
  BY <1>1, <1>2 DEF IInv, TypeOK, Student
<1>5. rank = PromotedRank(student[promotion[d].student].rank, promotion[d].target.type,
                          promotion[d].target.belt, promotion[d].target.stripes)
  BY <1>1 DEF rank
<1>6. \A t \in Students : t # promotion[d].student => student'[t] = student[t]
  BY <1>1, <1>4
<1>7. call[x].of = d
  OBVIOUS
<1> HIDE DEF d, s, target
<1> QED
  BY <1>1, <1>2, <1>3, <1>4, <1>5, <1>6, <1>7

\* Until a rank is rewritten by hand every approval finds the rank it has compared.
LEMMA ApprovalClimbs ==
    ASSUME IInv, NEW x \in Reviews, ApprovePromotion(x), corrections' = 0
    PROVE  \E d \in Promotions :
              LET s == promotion[d].student
              IN  /\ s \in Students
                  /\ Justified(promotion[d])
                  /\ student[s].rank = promotion[d].snapshot
                  /\ student'[s].rank =
                        PromotedRank(promotion[d].snapshot, promotion[d].target.type,
                                     promotion[d].target.belt, promotion[d].target.stripes)
                  /\ \A t \in Students : t # s => student'[t] = student[t]
<1>1. corrections = 0
  BY DEF ApprovePromotion
<1> QED
  BY <1>1, ApprovalMoves

LEMMA StepFollows ==
    ASSUME IInv, [Next]_vars, NEW s \in Students
    PROVE  LET approved == {p \in RequestsOf(s) : /\ promotion[p].status # "APPROVED"
                                                  /\ promotion'[p].status = "APPROVED"}
           IN  /\ approved = {} /\ corrections' = corrections =>
                     student'[s].rank = student[s].rank
               /\ \A p \in approved :
                     /\ student'[s].rank =
                           PromotedRank(student[s].rank, promotion[p].target.type,
                                        promotion[p].target.belt, promotion[p].target.stripes)
                     /\ \/ student[s].rank = promotion[p].snapshot
                        \/ \E x \in overtaken : call[x].of = p /\ pc'[x] # pc[x]
<1> DEFINE Approved(p) == /\ promotion[p].status # "APPROVED"
                          /\ promotion'[p].status = "APPROVED"
           approved == {p \in RequestsOf(s) : Approved(p)}
           Moved(p) == /\ student'[s].rank =
                             PromotedRank(student[s].rank, promotion[p].target.type,
                                          promotion[p].target.belt, promotion[p].target.stripes)
                       /\ \/ student[s].rank = promotion[p].snapshot
                          \/ \E x \in overtaken : call[x].of = p /\ pc'[x] # pc[x]
<1>1. ASSUME NEW x \in Reviews, ApprovePromotion(x)
      PROVE  /\ approved = {} => student'[s].rank = student[s].rank
             /\ \A p \in approved : Moved(p)
  <2>1. pc[x] = "locked" /\ pc'[x] = "done"
    BY <1>1, EndTyped DEF ApprovePromotion, IInv, Calls
  <2> HIDE DEF Moved
  <2>2. PICK d \in Promotions :
              /\ promotion[d].status = "PENDING_REVIEW"
              /\ promotion' = [promotion EXCEPT ![d].status = "APPROVED"]
              /\ call[x].of = d
              /\ x \notin overtaken =>
                    student[promotion[d].student].rank = promotion[d].snapshot
              /\ student'[promotion[d].student].rank =
                    PromotedRank(student[promotion[d].student].rank, promotion[d].target.type,
                                 promotion[d].target.belt, promotion[d].target.stripes)
              /\ \A t \in Students : t # promotion[d].student => student'[t] = student[t]
    BY <1>1, ApprovalMoves
  <2>3. \A p \in Promotions : Approved(p) <=> p = d
    BY <2>2 DEF IInv, TypeOK, Promotion
  <2> HIDE DEF Approved
  <2>4. CASE s = promotion[d].student
    <3>1. approved = {d}
      BY <2>3, <2>4 DEF RequestsOf
    <3>2. Moved(d)
      <4>1. CASE x \in overtaken
        BY <2>1, <2>2, <2>4, <4>1 DEF Moved
      <4>2. CASE x \notin overtaken
        BY <2>2, <2>4, <4>2 DEF Moved
      <4> QED
        BY <4>1, <4>2
    <3> QED
      BY <3>1, <3>2
  <2>5. CASE s # promotion[d].student
    <3>1. approved = {}
      BY <2>3, <2>5 DEF RequestsOf
    <3>2. student'[s].rank = student[s].rank
      BY <2>2, <2>5
    <3> QED
      BY <3>1, <3>2
  <2> QED
    BY <2>4, <2>5
<1>2. CASE /\ student' = student
           /\ \A p \in Promotions :
                 promotion[p].status # "APPROVED" => promotion'[p].status # "APPROVED"
  BY <1>2 DEF RequestsOf
<1>3. CASE corrections' # corrections /\ promotion' = promotion
  BY <1>3 DEF RequestsOf
<1> QED
  BY <1>1, <1>2, <1>3, StepRanks

-----------------------------------------------------------------------------
(***************************************************************************)
(* The ladder.                                                             *)
(***************************************************************************)
LEMMA LadderNames ==
    /\ Ladder!Belts = Belts
    /\ Ladder!Rank = Rank
    /\ Ladder!Tracks = Tracks
    /\ Ladder!BeltsOf = BeltsOf
    /\ Ladder!NoBelt = NoBelt
BY DEF Ladder!Belts, Belts, Ladder!KidsBeltSet, KidsBeltSet, Ladder!AdultBeltSet,
       AdultBeltSet, Ladder!KidsBelts, KidsBelts, Ladder!AdultBelts, AdultBelts,
       Ladder!Rank, Rank, Ladder!Tracks, Tracks, Ladder!BeltsOf, BeltsOf, Ladder!NoBelt,
       NoBelt

\* The catalog's order is the place in the track's sequence.
LEMMA OrderIsPlace ==
    ASSUME NEW belt \in Belts
    PROVE  /\ TrackOf(belt) \in Tracks
           /\ Order(belt) \in 1..Len(BeltsOf[TrackOf(belt)])
           /\ BeltsOf[TrackOf(belt)][Order(belt)] = belt
<1>1. TrackOf(belt) \in Tracks
  BY DEF TrackOf, Tracks
<1>2. \E i \in 1..Len(BeltsOf[TrackOf(belt)]) : BeltsOf[TrackOf(belt)][i] = belt
  <2>1. Len(KidsBelts) = 13 /\ Len(AdultBelts) = 5
    BY DEF KidsBelts, AdultBelts
  <2>2. CASE belt \in KidsBeltSet
    <3>1. BeltsOf[TrackOf(belt)] = KidsBelts
      BY <2>2 DEF TrackOf, BeltsOf
    <3> QED
      BY <2>1, <2>2, <3>1 DEF KidsBeltSet
  <2>3. CASE belt \notin KidsBeltSet
    <3>1. BeltsOf[TrackOf(belt)] = AdultBelts /\ belt \in AdultBeltSet
      BY <2>3 DEF TrackOf, BeltsOf, Belts
    <3> QED
      BY <2>1, <3>1 DEF AdultBeltSet
  <2> QED
    BY <2>2, <2>3
<1>3. Order(belt) \in 1..Len(BeltsOf[TrackOf(belt)])
         /\ BeltsOf[TrackOf(belt)][Order(belt)] = belt
  BY <1>2 DEF Order
<1> QED
  BY <1>1, <1>3

\* A valid request leads to the next rung, whatever the birth date and the day.
LEMMA ValidClimbs ==
    ASSUME NEW rank \in Rank, NEW target \in Target, NEW born, NEW date,
           ValidRequest(rank, born, target.type, target.belt, target.stripes, date)
    PROVE  LET to == PromotedRank(rank, target.type, target.belt, target.stripes)
           IN  Ladder!StripeRung(rank, to) \/ Ladder!BeltRung(rank, to)
<1> DEFINE to == PromotedRank(rank, target.type, target.belt, target.stripes)
<1>1. CASE target.type = "STRIPE"
  <2>1. /\ rank.belt \in Belts \ {"ADULT_BLACK"}
        /\ rank.stripes < 4
        /\ target.stripes = rank.stripes + 1
    BY <1>1 DEF ValidRequest, ValidStripeTarget, MaxStripes, Rank
  <2>2. to = [track |-> rank.track, belt |-> rank.belt, stripes |-> rank.stripes + 1]
    BY <1>1, <2>1 DEF PromotedRank, Rank
  <2> QED
    BY <2>1, <2>2, LadderNames DEF Ladder!StripeRung, Ladder!Wearing
<1>2. CASE target.type = "BELT"
  <2>1. /\ target.belt \in Belts
        /\ ValidBeltTarget(rank, born, target.belt, target.stripes, date)
        /\ RankStateOK(rank)
    BY <1>2 DEF ValidRequest, ValidBeltTarget, Target
  <2>2. to = [track |-> TrackOf(target.belt), belt |-> target.belt, stripes |-> 0]
    BY <1>2 DEF PromotedRank
  <2> SUFFICES Ladder!BeltRung(rank, to)
    OBVIOUS
  <2> HIDE DEF to
  <2>3. CASE TrackOf(target.belt) = rank.track /\ rank.belt = NoBelt
    <3>1. target.belt = InitialBelt(rank.track)
      BY <2>1, <2>3 DEF ValidBeltTarget, Tracks
    <3>2. rank.track \in Tracks /\ rank = [track |-> rank.track, belt |-> NoBelt, stripes |-> 0]
      BY <2>1, <2>3 DEF RankStateOK, Rank
    <3>3. InitialBelt(rank.track) = BeltsOf[rank.track][1]
      BY <3>2 DEF InitialBelt, BeltsOf, Tracks, KidsBelts, AdultBelts
    <3> QED
      BY <2>2, <2>3, <3>1, <3>2, <3>3, LadderNames
      DEF Ladder!BeltRung, Ladder!Unbelted, Ladder!Wearing
  <2>4. CASE TrackOf(target.belt) = rank.track /\ rank.belt # NoBelt
    <3>1. \/ IsNextBelt(rank.belt, target.belt)
          \/ rank.track = "KIDS" /\ TrackOf(target.belt) = "ADULT"
      BY <2>1, <2>4 DEF ValidBeltTarget
    <3>2. IsNextBelt(rank.belt, target.belt)
      BY <3>1, <2>4
    <3>3. rank.belt \in Belts /\ rank.track \in Tracks /\ TrackOf(rank.belt) = rank.track
      BY <2>1, <2>4 DEF RankStateOK, Rank
    <3> DEFINE i == Order(rank.belt)
    <3>4. /\ i \in 1..Len(BeltsOf[rank.track])
          /\ BeltsOf[rank.track][i] = rank.belt
      BY <3>3, OrderIsPlace
    <3>5. /\ Order(target.belt) = i + 1
          /\ i + 1 \in 1..Len(BeltsOf[rank.track])
          /\ BeltsOf[rank.track][i + 1] = target.belt
      BY <2>1, <2>4, <3>2, OrderIsPlace DEF IsNextBelt
    <3> HIDE DEF i
    <3>6. Len(BeltsOf[rank.track]) \in Nat
      BY <3>3 DEF BeltsOf, Tracks, KidsBelts, AdultBelts
    <3>7. i \in 1..(Len(BeltsOf[rank.track]) - 1)
      BY <3>4, <3>5, <3>6
    <3> QED
      BY <2>2, <2>4, <3>3, <3>4, <3>5, <3>7, LadderNames
      DEF Ladder!BeltRung, Ladder!Wearing
  <2>5. CASE TrackOf(target.belt) # rank.track
    <3>1. rank.track = "KIDS" /\ TrackOf(target.belt) = "ADULT" /\ target.belt = "ADULT_WHITE"
      BY <2>1, <2>5 DEF ValidBeltTarget
    <3> QED
      BY <2>2, <3>1 DEF Ladder!BeltRung, Ladder!Wearing
  <2> QED
    BY <2>3, <2>4, <2>5
<1> QED
  BY <1>1, <1>2 DEF Target

\* A step rewrites, climbs, or leaves every rank alone.
LEMMA StepClimbs ==
    ASSUME IInv, IInv', [Next]_vars
    PROVE  \/ Ladder!LadderNext
           \/ /\ [s \in Students |-> student'[s].rank] = [s \in Students |-> student[s].rank]
              /\ (corrections' > 0) = (corrections > 0)
<1> DEFINE rank == [s \in Students |-> student[s].rank]
           next == [s \in Students |-> student'[s].rank]
<1>1. corrections \in Nat /\ corrections' \in Nat
  BY CorrectionsAreBounded DEF IInv, TypeOK
<1>2. CASE corrections' # 0
  <2>1. (corrections' > 0) = TRUE /\ DOMAIN next = Students
    BY <1>1, <1>2
  <2> QED
    BY <2>1 DEF Ladder!LadderNext, Ladder!Rewrite
<1>3. CASE corrections' = 0 /\ \E x \in Reviews : ApprovePromotion(x)
  <2>1. corrections' = corrections
    BY <1>3 DEF ApprovePromotion
  <2>2. PICK d \in Promotions :
            /\ promotion[d].student \in Students
            /\ Justified(promotion[d])
            /\ student[promotion[d].student].rank = promotion[d].snapshot
            /\ student'[promotion[d].student].rank =
                  PromotedRank(promotion[d].snapshot, promotion[d].target.type,
                               promotion[d].target.belt, promotion[d].target.stripes)
            /\ \A t \in Students : t # promotion[d].student => student'[t] = student[t]
    BY <1>3, ApprovalClimbs
  <2>3. PICK s \in Students, target \in Target :
            /\ s = promotion[d].student
            /\ target = promotion[d].target
    BY <2>2 DEF IInv, TypeOK, Promotion
  <2>4. PICK born, date : ValidRequest(student[s].rank, born, target.type, target.belt,
                                       target.stripes, date)
    BY <2>2, <2>3 DEF Justified
  <2>5. student[s].rank \in Rank
    BY DEF IInv, TypeOK, Student
  <2>6. /\ next[s] = PromotedRank(rank[s], target.type, target.belt, target.stripes)
        /\ rank[s] = student[s].rank
    BY <2>2, <2>3
  <2>7. Ladder!StripeRung(rank[s], next[s]) \/ Ladder!BeltRung(rank[s], next[s])
    BY <2>4, <2>5, <2>6, ValidClimbs
  <2>8. next = [rank EXCEPT ![s] = next[s]]
    BY <2>2, <2>3
  <2>9. (corrections' > 0) = (corrections > 0)
    BY <2>1
  <2> QED
    BY <2>7, <2>8, <2>9 DEF Ladder!LadderNext, Ladder!Climb
<1>4. CASE student' = student /\ corrections' = corrections
  BY <1>4
<1> QED
  BY <1>2, <1>3, <1>4, StepRanks

-----------------------------------------------------------------------------
(***************************************************************************)
(* The rules admit the rungs of the ladder, all of them and no others.     *)
(***************************************************************************)
\* A request that the rules accept on a date leads a student from rank to to.
Admitted(rank, born, date, to) ==
    \E target \in Target :
        /\ ValidRequest(rank, born, target.type, target.belt, target.stripes, date)
        /\ to = PromotedRank(rank, target.type, target.belt, target.stripes)

Rung(from, to) == Ladder!StripeRung(from, to) \/ Ladder!BeltRung(from, to)

LEMMA CatalogLengths == Len(KidsBelts) = 13 /\ Len(AdultBelts) = 5
BY DEF KidsBelts, AdultBelts

LEMMA TracksHaveBelts ==
    \A track \in Tracks : 1 \in 1..Len(BeltsOf[track]) /\ Len(BeltsOf[track]) \in Nat
<1>1. Len(BeltsOf["KIDS"]) = 13 /\ Len(BeltsOf["ADULT"]) = 5
  BY CatalogLengths DEF BeltsOf
<1>2. 1 \in 1..13 /\ 1 \in 1..5 /\ 13 \in Nat /\ 5 \in Nat
  OBVIOUS
<1> TAKE track \in Tracks
<1>3. CASE track = "KIDS"
  BY <1>1, <1>2, <1>3
<1>4. CASE track = "ADULT"
  BY <1>1, <1>2, <1>4
<1> QED
  BY <1>3, <1>4 DEF Tracks

LEMMA BeltsAreNamed == NoBelt \notin Belts
BY DEF Belts, KidsBeltSet, AdultBeltSet, KidsBelts, AdultBelts, NoBelt

\* The converse of OrderIsPlace: no belt stands twice in the catalog.
LEMMA PlaceIsOrder ==
    ASSUME NEW track \in Tracks, NEW i \in 1..Len(BeltsOf[track])
    PROVE  /\ BeltsOf[track][i] \in Belts
           /\ TrackOf(BeltsOf[track][i]) = track
           /\ Order(BeltsOf[track][i]) = i
<1> DEFINE belt == BeltsOf[track][i]
<1>1. \A j, k \in 1..13 : KidsBelts[j] = KidsBelts[k] => j = k
  BY SMTT(60) DEF KidsBelts
<1>2. \A j, k \in 1..5 : AdultBelts[j] = AdultBelts[k] => j = k
  BY DEF AdultBelts
<1>3. \A j \in 1..13, k \in 1..5 : KidsBelts[j] # AdultBelts[k]
  BY SMTT(60) DEF KidsBelts, AdultBelts
<1>4. belt \in Belts /\ TrackOf(belt) = track
  <2>1. CASE track = "KIDS"
    BY <2>1, CatalogLengths DEF BeltsOf, Belts, KidsBeltSet, TrackOf
  <2>2. CASE track = "ADULT"
    BY <1>3, <2>2, CatalogLengths DEF BeltsOf, Belts, KidsBeltSet, AdultBeltSet, TrackOf
  <2> QED
    BY <2>1, <2>2 DEF Tracks
<1>5. \A j \in 1..Len(BeltsOf[track]) : BeltsOf[track][j] = belt => j = i
  <2>1. CASE track = "KIDS"
    BY <1>1, <2>1, CatalogLengths DEF BeltsOf
  <2>2. CASE track = "ADULT"
    BY <1>2, <2>2, CatalogLengths DEF BeltsOf
  <2> QED
    BY <2>1, <2>2 DEF Tracks
<1>6. Order(belt) = i
  <2> HIDE DEF belt
  <2> QED
    BY <1>4, <1>5, OrderIsPlace
<1> QED
  BY <1>4, <1>6

\* What a valid request has found out about the rank and the age.
LEMMA AdmittedFits ==
    ASSUME NEW rank \in Rank, NEW to, NEW born, NEW date, Admitted(rank, born, date, to)
    PROVE  /\ RankStateOK(rank)
           /\ Rung(rank, to)
           /\ TrackFitsAge(rank.track, born, date)
           /\ TrackFitsAge(to.track, born, date)
<1>1. PICK target \in Target :
          /\ ValidRequest(rank, born, target.type, target.belt, target.stripes, date)
          /\ to = PromotedRank(rank, target.type, target.belt, target.stripes)
  BY DEF Admitted
<1>2. Rung(rank, to)
  BY <1>1, ValidClimbs DEF Rung
<1>3. RankStateOK(rank) /\ TrackFitsAge(rank.track, born, date)
  BY <1>1 DEF ValidRequest
<1>4. \/ to.track = rank.track
      \/ to.track = "ADULT" /\ TrackFitsAge("ADULT", born, date)
  <2>1. CASE target.type = "BELT"
    BY <1>1, <2>1 DEF ValidRequest, ValidBeltTarget, PromotedRank
  <2>2. CASE target.type = "STRIPE"
    BY <1>1, <2>2 DEF PromotedRank, Rank
  <2> QED
    BY <2>1, <2>2 DEF Target
<1> QED
  BY <1>2, <1>3, <1>4

LEMMA StripeRungAdmitted ==
    ASSUME NEW rank \in Rank, RankStateOK(rank), NEW to, NEW born, NEW date,
           TrackFitsAge(rank.track, born, date), Ladder!StripeRung(rank, to)
    PROVE  Admitted(rank, born, date, to)
<1> DEFINE target == [type |-> "STRIPE", belt |-> NoBelt, stripes |-> rank.stripes + 1]
<1>1. /\ rank.belt \in Belts \ {"ADULT_BLACK"}
      /\ rank.stripes < 4
      /\ rank.stripes \in Nat
      /\ to = [track |-> rank.track, belt |-> rank.belt, stripes |-> rank.stripes + 1]
  BY LadderNames DEF Ladder!StripeRung, Ladder!Wearing, Rank
<1>2. target \in Target
  BY <1>1 DEF Target
<1>3. ValidRequest(rank, born, target.type, target.belt, target.stripes, date)
  BY <1>1, BeltsAreNamed DEF ValidRequest, ValidStripeTarget, MaxStripes, NoStripes
<1>4. to = PromotedRank(rank, target.type, target.belt, target.stripes)
  BY <1>1 DEF PromotedRank, Rank
<1> HIDE DEF target
<1> QED
  BY <1>2, <1>3, <1>4 DEF Admitted

\* The three kinds of belt rungs are the three ways to a valid belt.
LEMMA BeltRungValid ==
    ASSUME NEW rank \in Rank, RankStateOK(rank), NEW to, NEW born, NEW date,
           TrackFitsAge(to.track, born, date), Ladder!BeltRung(rank, to)
    PROVE  /\ to.belt \in Belts
           /\ to = [track |-> TrackOf(to.belt), belt |-> to.belt, stripes |-> 0]
           /\ ValidBeltTarget(rank, born, to.belt, NoStripes, date)
<1> DEFINE Valid == /\ to.belt \in Belts
                    /\ to = [track |-> TrackOf(to.belt), belt |-> to.belt, stripes |-> 0]
                    /\ ValidBeltTarget(rank, born, to.belt, NoStripes, date)
<1>1. ASSUME NEW track \in Tracks, rank = [track |-> track, belt |-> NoBelt, stripes |-> 0],
             to = [track |-> track, belt |-> BeltsOf[track][1], stripes |-> 0]
      PROVE  Valid
  <2>1. 1 \in 1..Len(BeltsOf[track]) /\ BeltsOf[track][1] = InitialBelt(track)
    BY DEF BeltsOf, InitialBelt, Tracks, KidsBelts, AdultBelts
  <2>2. to.belt \in Belts /\ TrackOf(to.belt) = track /\ to.belt = InitialBelt(track)
    BY <1>1, <2>1, PlaceIsOrder
  <2> QED
    BY <1>1, <2>2, BeltsAreNamed DEF ValidBeltTarget
<1>2. ASSUME NEW track \in Tracks, NEW i \in 1..(Len(BeltsOf[track]) - 1),
             rank.track = track, rank.belt = BeltsOf[track][i],
             to = [track |-> track, belt |-> BeltsOf[track][i + 1], stripes |-> 0]
      PROVE  Valid
  <2>1. Len(BeltsOf[track]) \in Nat
    BY TracksHaveBelts
  <2>2. i \in 1..Len(BeltsOf[track]) /\ i + 1 \in 1..Len(BeltsOf[track])
    BY <2>1
  <2>3. rank.belt \in Belts /\ TrackOf(rank.belt) = track /\ Order(rank.belt) = i
    BY <1>2, <2>2, PlaceIsOrder
  <2>4. to.belt \in Belts /\ TrackOf(to.belt) = track /\ Order(to.belt) = i + 1
    BY <1>2, <2>2, PlaceIsOrder
  <2>5. IsNextBelt(rank.belt, to.belt) /\ rank.belt # to.belt
    BY <2>3, <2>4 DEF IsNextBelt
  <2> QED
    BY <1>2, <2>3, <2>4, <2>5, BeltsAreNamed DEF ValidBeltTarget
<1>3. ASSUME rank.track = "KIDS",
             to = [track |-> "ADULT", belt |-> "ADULT_WHITE", stripes |-> 0]
      PROVE  Valid
  <2>1. "ADULT_WHITE" = BeltsOf["ADULT"][1] /\ 1 \in 1..Len(BeltsOf["ADULT"])
    BY DEF BeltsOf, AdultBelts
  <2>2. "ADULT_WHITE" \in Belts /\ TrackOf("ADULT_WHITE") = "ADULT"
    BY <2>1, PlaceIsOrder DEF Tracks
  <2>3. rank.belt # "ADULT_WHITE"
    BY <1>3, <2>2, BeltsAreNamed DEF RankStateOK
  <2> QED
    BY <1>3, <2>2, <2>3, BeltsAreNamed DEF ValidBeltTarget
<1> HIDE DEF Valid
<1>4. Valid
  BY <1>1, <1>2, <1>3, LadderNames DEF Ladder!BeltRung, Ladder!Unbelted, Ladder!Wearing
<1> QED
  BY <1>4 DEF Valid

LEMMA BeltRungAdmitted ==
    ASSUME NEW rank \in Rank, RankStateOK(rank), NEW to, NEW born, NEW date,
           TrackFitsAge(rank.track, born, date), TrackFitsAge(to.track, born, date),
           Ladder!BeltRung(rank, to)
    PROVE  Admitted(rank, born, date, to)
<1> DEFINE target == [type |-> "BELT", belt |-> to.belt, stripes |-> NoStripes]
<1>1. /\ target \in Target
      /\ ValidRequest(rank, born, target.type, target.belt, target.stripes, date)
  BY BeltRungValid DEF Target, ValidRequest
<1>2. to = PromotedRank(rank, target.type, target.belt, target.stripes)
  BY BeltRungValid DEF PromotedRank
<1> HIDE DEF target
<1> QED
  BY <1>1, <1>2 DEF Admitted

-----------------------------------------------------------------------------
(***************************************************************************)
(* The order of ranks.                                                     *)
(***************************************************************************)
\* The belts of the adults follow those of the kids.
Place(rank) == (IF rank.track = "KIDS" THEN 0 ELSE 14)
                   + (IF rank.belt = NoBelt THEN 0 ELSE Order(rank.belt))

Higher(to, from) == \/ Place(to) > Place(from)
                    \/ Place(to) = Place(from) /\ to.stripes > from.stripes

\* A rank that the rules accept stands in its place.
LEMMA PlaceOfRank ==
    ASSUME NEW rank \in Rank, RankStateOK(rank)
    PROVE  /\ Place(rank) \in Nat
           /\ rank.track = "KIDS" => Place(rank) < 14
           /\ rank.belt # NoBelt => Order(rank.belt) \in 1..Len(BeltsOf[rank.track])
<1>1. ASSUME rank.belt # NoBelt
      PROVE  Order(rank.belt) \in 1..Len(BeltsOf[rank.track])
  BY <1>1, OrderIsPlace DEF Rank, RankStateOK
<1>2. Len(BeltsOf["KIDS"]) = 13 /\ Len(BeltsOf["ADULT"]) = 5
  BY CatalogLengths DEF BeltsOf
<1>3. CASE rank.track = "KIDS"
  <2>1. rank.belt # NoBelt => Order(rank.belt) \in 1..13
    BY <1>1, <1>2, <1>3
  <2>2. CASE rank.belt = NoBelt
    <3>1. Place(rank) = 0
      BY <1>3, <2>2 DEF Place
    <3> QED
      BY <2>2, <3>1
  <2>3. CASE rank.belt # NoBelt
    <3>1. Place(rank) = Order(rank.belt)
      BY <1>3, <2>1, <2>3 DEF Place
    <3> QED
      BY <1>1, <2>1, <2>3, <3>1
  <2> QED
    BY <2>2, <2>3
<1>4. CASE rank.track = "ADULT"
  <2>1. rank.belt # NoBelt => Order(rank.belt) \in 1..5
    BY <1>1, <1>2, <1>4
  <2>2. CASE rank.belt = NoBelt
    <3>1. Place(rank) = 14
      BY <1>4, <2>2 DEF Place
    <3> QED
      BY <1>4, <2>2, <3>1
  <2>3. CASE rank.belt # NoBelt
    <3>1. Place(rank) = 14 + Order(rank.belt)
      BY <1>4, <2>3 DEF Place
    <3> QED
      BY <1>1, <1>4, <2>1, <2>3, <3>1
  <2> QED
    BY <2>2, <2>3
<1> QED
  BY <1>1, <1>3, <1>4 DEF Rank, Tracks

\* What climbs by it never comes back.
LEMMA HigherIsOrder ==
    ASSUME NEW a \in Rank, NEW b \in Rank, NEW c \in Rank,
           RankStateOK(a), RankStateOK(b), RankStateOK(c)
    PROVE  /\ ~Higher(a, a)
           /\ Higher(c, b) /\ Higher(b, a) => Higher(c, a)
<1>1. Place(a) \in Nat /\ Place(b) \in Nat /\ Place(c) \in Nat
  BY PlaceOfRank
<1>2. a.stripes \in Nat /\ b.stripes \in Nat /\ c.stripes \in Nat
  BY DEF Rank
<1> QED
  BY <1>1, <1>2 DEF Higher

LEMMA RungsAscend ==
    ASSUME NEW rank \in Rank, RankStateOK(rank), NEW to, Rung(rank, to)
    PROVE  Higher(to, rank)
<1>1. CASE Ladder!StripeRung(rank, to)
  <2>1. to.track = rank.track /\ to.belt = rank.belt /\ to.stripes = rank.stripes + 1
    BY <1>1 DEF Ladder!StripeRung, Ladder!Wearing
  <2> QED
    BY <2>1 DEF Higher, Place, Rank
<1>2. ASSUME NEW track \in Tracks, rank = [track |-> track, belt |-> NoBelt, stripes |-> 0],
             to = [track |-> track, belt |-> BeltsOf[track][1], stripes |-> 0]
      PROVE  Higher(to, rank)
  <2>1. 1 \in 1..Len(BeltsOf[track])
    BY TracksHaveBelts
  <2>2. to.belt # NoBelt /\ Order(to.belt) = 1
    BY <1>2, <2>1, PlaceIsOrder, BeltsAreNamed
  <2> QED
    BY <1>2, <2>2 DEF Higher, Place
<1>3. ASSUME NEW track \in Tracks, NEW i \in 1..(Len(BeltsOf[track]) - 1),
             rank.track = track, rank.belt = BeltsOf[track][i],
             to = [track |-> track, belt |-> BeltsOf[track][i + 1], stripes |-> 0]
      PROVE  Higher(to, rank)
  <2>1. Len(BeltsOf[track]) \in Nat
    BY TracksHaveBelts
  <2>2. i \in 1..Len(BeltsOf[track]) /\ i + 1 \in 1..Len(BeltsOf[track])
    BY <2>1
  <2>3. rank.belt # NoBelt /\ Order(rank.belt) = i
    BY <1>3, <2>2, PlaceIsOrder, BeltsAreNamed
  <2>4. to.belt # NoBelt /\ Order(to.belt) = i + 1
    BY <1>3, <2>2, PlaceIsOrder, BeltsAreNamed
  <2> QED
    BY <1>3, <2>3, <2>4 DEF Higher, Place
<1>4. ASSUME rank.track = "KIDS",
             to = [track |-> "ADULT", belt |-> "ADULT_WHITE", stripes |-> 0]
      PROVE  Higher(to, rank)
  <2>1. "ADULT_WHITE" = BeltsOf["ADULT"][1] /\ 1 \in 1..Len(BeltsOf["ADULT"])
    BY DEF BeltsOf, AdultBelts
  <2>2. "ADULT_WHITE" \in Belts /\ Order("ADULT_WHITE") = 1
    BY <2>1, PlaceIsOrder DEF Tracks
  <2>3. Place(to) = 15
    BY <1>4, <2>2, BeltsAreNamed DEF Place
  <2>4. Place(rank) \in Nat /\ Place(rank) < 14
    BY <1>4, PlaceOfRank
  <2> QED
    BY <2>3, <2>4 DEF Higher
<1> QED
  BY <1>1, <1>2, <1>3, <1>4, LadderNames
  DEF Rung, Ladder!BeltRung, Ladder!Unbelted, Ladder!Wearing

LEMMA StepAscends ==
    ASSUME IInv, [Next]_vars, corrections' = 0, NEW s \in Students
    PROVE  \/ student'[s].rank = student[s].rank
           \/ Higher(student'[s].rank, student[s].rank)
<1>1. CASE \E x \in Reviews : ApprovePromotion(x)
  <2>1. PICK d \in Promotions :
            /\ Justified(promotion[d])
            /\ student[promotion[d].student].rank = promotion[d].snapshot
            /\ student'[promotion[d].student].rank =
                  PromotedRank(promotion[d].snapshot, promotion[d].target.type,
                               promotion[d].target.belt, promotion[d].target.stripes)
            /\ \A t \in Students : t # promotion[d].student => student'[t] = student[t]
    BY <1>1, ApprovalClimbs
  <2>2. CASE s = promotion[d].student
    <3>1. student[s].rank \in Rank /\ promotion[d].target \in Target
      BY DEF IInv, TypeOK, Student, Promotion
    <3>2. PICK born, date : Admitted(student[s].rank, born, date, student'[s].rank)
      BY <2>1, <2>2, <3>1 DEF Justified, Admitted
    <3> QED
      BY <3>1, <3>2, AdmittedFits, RungsAscend
  <2> QED
    BY <2>1, <2>2
<1>2. CASE student' = student
  BY <1>2
<1> QED
  BY <1>1, <1>2, StepRanks

-----------------------------------------------------------------------------
(***************************************************************************)
(* The theorems.                                                           *)
(***************************************************************************)
\* Every reachable state has the shape that the tables and the calls give it: in
\* particular an approval writes a rank, never a belt or a stripe that a target
\* leaves open.
THEOREM TypeCorrect == Spec => []TypeOK
BY Invariant, PTL DEF IInv

\* However many proposals race, and whatever they read before they waited for the
\* lock, no student has two requests under review.
THEOREM OnePending == Spec => []OnePendingPerStudent
BY Invariant, PTL DEF IInv

\* However many reviewers race on a request, one of them decides it, once.
THEOREM Decided == Spec => DecidedOnce
<1>1. IInv /\ [Next]_vars =>
          [\A p \in Promotions : promotion[p].status \in {"APPROVED", "REJECTED"} =>
                                     promotion'[p] = promotion[p]]_vars
  BY StepDecides
<1> QED
  BY <1>1, Invariant, PTL DEF Spec, DecidedOnce

\* Ranks and the history of approvals move together: the rank an approval compared
\* before its transaction is still the student's when it commits, because a request
\* it could have raced with would have been a second pending one, unless the
\* student API has rewritten it between that comparison and the snapshot.
THEOREM RankFollows == Spec => RankFollowsHistory
<1>1. IInv /\ [Next]_vars =>
        [\A s \in Students :
          LET approved == {p \in RequestsOf(s) : /\ promotion[p].status # "APPROVED"
                                                 /\ promotion'[p].status = "APPROVED"}
          IN  /\ approved = {} /\ corrections' = corrections =>
                    student'[s].rank = student[s].rank
              /\ \A p \in approved :
                    /\ student'[s].rank = PromotedRank(student[s].rank, promotion[p].target.type,
                                                       promotion[p].target.belt,
                                                       promotion[p].target.stripes)
                    /\ \/ student[s].rank = promotion[p].snapshot
                       \/ \E x \in overtaken : call[x].of = p /\ pc'[x] # pc[x]]_vars
  BY StepFollows
<1> QED
  BY <1>1, Invariant, PTL DEF Spec, RankFollowsHistory

\* Whatever requests race and whatever calls are abandoned, every step of the
\* workflow is a climb of one rung by one student, or leaves all ranks alone,
\* until a rank is rewritten by hand.
THEOREM Climbs == Spec => ImplementsLadder
<1>1. Init => Ladder!LadderInit
  <2> SUFFICES ASSUME Init PROVE Ladder!LadderInit
    OBVIOUS
  <2>1. \A s \in Students : student[s].rank \in Rank
    BY StudentsAreRows DEF Init, Student
  <2>2. (corrections > 0) = FALSE
    BY DEF Init
  <2> QED
    BY <2>1, <2>2, LadderNames DEF Ladder!LadderInit
<1>2. IInv /\ IInv' /\ [Next]_vars =>
          [Ladder!LadderNext]_<<[s \in Students |-> student[s].rank], corrections > 0>>
  BY StepClimbs
<1> QED
  BY <1>1, <1>2, Invariant, PTL DEF Spec, ImplementsLadder, Ladder!LadderSpec

\* The rules are the ladder: a student can be proposed for exactly the ranks one
\* rung above a consistent rank, provided that the age fits the track of either.
THEOREM RulesAreRungs ==
    ASSUME NEW rank \in Rank, NEW to, NEW born, NEW date
    PROVE  Admitted(rank, born, date, to) <=>
               /\ RankStateOK(rank)
               /\ Rung(rank, to)
               /\ TrackFitsAge(rank.track, born, date)
               /\ TrackFitsAge(to.track, born, date)
BY AdmittedFits, StripeRungAdmitted, BeltRungAdmitted DEF Rung

\* The finding of TransitionIsOpen for every rank, age and date: with a known birth
\* date no request the rules accept leads to another track.
THEOREM TransitionIsShut ==
    ASSUME NEW rank \in Rank, NEW to, NEW born \in Nat, NEW date \in Nat,
           Admitted(rank, born, date, to)
    PROVE  to.track = rank.track
<1>1. /\ Rung(rank, to)
      /\ TrackFitsAge(rank.track, born, date)
      /\ TrackFitsAge(to.track, born, date)
  BY AdmittedFits
<1>2. \/ to.track = rank.track
      \/ rank.track = "KIDS" /\ to.track = "ADULT"
  BY <1>1 DEF Rung, Ladder!StripeRung, Ladder!BeltRung, Ladder!Wearing, Ladder!Unbelted
<1> QED
  BY <1>1, <1>2 DEF TrackFitsAge, NoDate, AdultTrackMinAge

\* Whatever requests race, a student who leaves a rank through a promotion never
\* comes back to it: until a rank is rewritten by hand, ranks only rise in the
\* order of belts and stripes (HigherIsOrder).
THEOREM NeverDemoted ==
    Spec => [][corrections' = 0 =>
                  \A s \in Students : \/ student'[s].rank = student[s].rank
                                      \/ Higher(student'[s].rank, student[s].rank)]_vars
<1>1. IInv /\ [Next]_vars =>
        [corrections' = 0 =>
            \A s \in Students : \/ student'[s].rank = student[s].rank
                                \/ Higher(student'[s].rank, student[s].rank)]_vars
  BY StepAscends
<1> QED
  BY <1>1, Invariant, PTL DEF Spec
=============================================================================
