------------------------- MODULE MCPromotionWorkflow -------------------------
(* Finite instances of PromotionWorkflow for TLC. *)
EXTENDS PromotionWorkflow, TLC

Row(track, belt, stripes, born) ==
    [born |-> born, rank |-> [track |-> track, belt |-> belt, stripes |-> stripes],
     since |-> 16, ver |-> 0]

\* Every belt on either track, with and without a birth date, near and beyond
\* the limits of stripes: whatever the student API lets in.
AllRows == {Row(t, NoBelt, n, 0) : t \in Tracks, n \in {0, 3}}
               \cup {Row(t, b, 3, 0) : t \in Tracks,
                                      b \in {"KIDS_WHITE", "KIDS_GREEN_BLACK"} \cup AdultBeltSet}
               \cup {Row(t, b, n, NoDate) : t \in Tracks, b \in Belts, n \in {4, 5}}

\* What a correction writes: a belt of the other track.
MixedRank == {[track |-> "KIDS", belt |-> "ADULT_BLUE", stripes |-> 1]}

Symmetry ==
    Permutations(Students) \cup Permutations(Promotions) \cup Permutations(Reviews)
        \cup Permutations(Evaluations)
=============================================================================
