------------------------------ MODULE RankLadder ------------------------------
(***************************************************************************)
(* What the promotion workflow promises about the ranks of students: until *)
(* a rank is rewritten by hand, ranks change only by climbing one rung of  *)
(* the federation's ladder, one student at a time.  The rungs are read off *)
(* the two sequences of belts, independently of the checks that the        *)
(* workflow makes.                                                         *)
(***************************************************************************)
EXTENDS PromotionRanks

CONSTANT Students

VARIABLES
    rank,           \* rank[s]: track, belt and stripes of student s
    rewritten       \* a rank was rewritten by hand

Unbelted(track) == [track |-> track, belt |-> NoBelt, stripes |-> 0]
Wearing(track, belt, stripes) == [track |-> track, belt |-> belt, stripes |-> stripes]

\* One more stripe, at most four, and none on a black belt.
StripeRung(from, to) ==
    /\ from.belt \in Belts \ {"ADULT_BLACK"}
    /\ from.stripes < 4
    /\ to = Wearing(from.track, from.belt, from.stripes + 1)

\* The first belt of a track, the next belt of the track, or the white belt of
\* the adults, whatever the belt a kid wears.
BeltRung(from, to) ==
    \/ \E track \in Tracks :
          /\ from = Unbelted(track)
          /\ to = Wearing(track, BeltsOf[track][1], 0)
    \/ \E track \in Tracks : \E i \in 1..(Len(BeltsOf[track]) - 1) :
          /\ from.track = track
          /\ from.belt = BeltsOf[track][i]
          /\ to = Wearing(track, BeltsOf[track][i + 1], 0)
    \/ /\ from.track = "KIDS"
       /\ to = Wearing("ADULT", "ADULT_WHITE", 0)

LadderInit ==
    /\ rank \in [Students -> Rank]
    /\ rewritten = FALSE

Climb(s) ==
    /\ StripeRung(rank[s], rank'[s]) \/ BeltRung(rank[s], rank'[s])
    /\ rank' = [rank EXCEPT ![s] = rank'[s]]
    /\ UNCHANGED rewritten

\* A request that was checked before a rank was rewritten may still be approved
\* after it: from then on nothing is promised.
Rewrite ==
    /\ rewritten' = TRUE
    /\ DOMAIN rank' = Students

LadderNext == Rewrite \/ \E s \in Students : Climb(s)

LadderSpec == LadderInit /\ [][LadderNext]_<<rank, rewritten>>
=============================================================================
