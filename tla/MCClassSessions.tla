--------------------------- MODULE MCClassSessions ---------------------------
(* Interchangeable values of ClassSessions.                                *)
EXTENDS ClassSessions, TLC

Symmetry == Permutations(Branches) \cup Permutations(Instructors)
                \cup Permutations(Sessions) \cup Permutations(Updates)
=============================================================================
