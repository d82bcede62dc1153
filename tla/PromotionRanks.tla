---------------------------- MODULE PromotionRanks ----------------------------
(***************************************************************************)
(* The catalog of belts and the rule that decides whether a promotion may  *)
(* be requested (src/src/promotions/domain).  A rank is what a student     *)
(* row says: track, belt and stripes.  Dates are counted in whole years,   *)
(* so that a student born in year b is d - b years old on date d.          *)
(***************************************************************************)
EXTENDS Integers, Sequences

KidsBelts == <<"KIDS_WHITE",
               "KIDS_GREY_WHITE", "KIDS_GREY", "KIDS_GREY_BLACK",
               "KIDS_YELLOW_WHITE", "KIDS_YELLOW", "KIDS_YELLOW_BLACK",
               "KIDS_ORANGE_WHITE", "KIDS_ORANGE", "KIDS_ORANGE_BLACK",
               "KIDS_GREEN_WHITE", "KIDS_GREEN", "KIDS_GREEN_BLACK">>

AdultBelts == <<"ADULT_WHITE", "ADULT_BLUE", "ADULT_PURPLE", "ADULT_BROWN",
                "ADULT_BLACK">>

Tracks == {"KIDS", "ADULT"}

BeltsOf == [KIDS |-> KidsBelts, ADULT |-> AdultBelts]

KidsBeltSet == {KidsBelts[i] : i \in 1..13}
AdultBeltSet == {AdultBelts[i] : i \in 1..5}
Belts == KidsBeltSet \cup AdultBeltSet

NoBelt == "NONE"        \* currentBelt or targetBelt is null
NoStripes == -1         \* targetStripes is undefined
NoDate == -1            \* dateOfBirth is null

AdultTrackMinAge == 16

Rank == [track : Tracks, belt : Belts \cup {NoBelt}, stripes : Nat]

TrackOf(belt) == IF belt \in KidsBeltSet THEN "KIDS" ELSE "ADULT"

\* The steps of the catalog's order column.
Order(belt) == CHOOSE i \in 1..Len(BeltsOf[TrackOf(belt)]) : BeltsOf[TrackOf(belt)][i] = belt

MaxStripes(belt) == IF belt = "ADULT_BLACK" THEN 0 ELSE 4

InitialBelt(track) == IF track = "KIDS" THEN "KIDS_WHITE" ELSE "ADULT_WHITE"

\* Mutant of IsNextBelt: any higher belt of the track will do.
IsHigherBelt(belt, target) ==
    TrackOf(target) = TrackOf(belt) /\ Order(target) > Order(belt)

IsNextBelt(belt, target) ==
    TrackOf(target) = TrackOf(belt) /\ Order(target) = Order(belt) + 1

-----------------------------------------------------------------------------
\* Students without a birth date fit both tracks.
TrackFitsAge(track, born, date) ==
    \/ born = NoDate
    \/ track = "KIDS" /\ date - born < AdultTrackMinAge
    \/ track = "ADULT" /\ date - born >= AdultTrackMinAge

\* The student API stores any combination of track, belt and stripes: this is
\* where inconsistent ones are refused.
RankStateOK(rank) ==
    \/ rank.belt = NoBelt /\ rank.stripes = 0
    \/ /\ rank.belt # NoBelt
       /\ TrackOf(rank.belt) = rank.track
       /\ rank.stripes \in 0..MaxStripes(rank.belt)

ValidBeltTarget(rank, born, belt, stripes, date) ==
    /\ belt # NoBelt
    /\ stripes = NoStripes
    /\ rank.belt # belt
    /\ \/ /\ TrackOf(belt) = rank.track
          /\ IF rank.belt = NoBelt THEN belt = InitialBelt(rank.track)
                                   ELSE IsNextBelt(rank.belt, belt)
       \/ /\ rank.track = "KIDS"
          /\ TrackOf(belt) = "ADULT"
          /\ TrackFitsAge("ADULT", born, date)
          /\ belt = "ADULT_WHITE"

ValidStripeTarget(rank, belt, stripes) ==
    /\ belt = NoBelt
    /\ stripes # NoStripes
    /\ rank.belt # NoBelt
    /\ MaxStripes(rank.belt) > 0
    /\ stripes = rank.stripes + 1
    /\ stripes <= MaxStripes(rank.belt)

ValidRequest(rank, born, type, belt, stripes, date) ==
    /\ TrackFitsAge(rank.track, born, date)
    /\ RankStateOK(rank)
    /\ \/ type = "BELT" /\ ValidBeltTarget(rank, born, belt, stripes, date)
       \/ type = "STRIPE" /\ ValidStripeTarget(rank, belt, stripes)

\* Mutant of PromotedRank: a new belt does not reset the stripes.
PromotedRankKeeping(rank, type, belt, stripes) ==
    IF type = "BELT" THEN [track |-> TrackOf(belt), belt |-> belt, stripes |-> stripes]
                     ELSE [rank EXCEPT !.stripes = stripes]

\* The rank an approval writes.
PromotedRank(rank, type, belt, stripes) ==
    IF type = "BELT" THEN [track |-> TrackOf(belt), belt |-> belt, stripes |-> 0]
                     ELSE [rank EXCEPT !.stripes = stripes]
=============================================================================
