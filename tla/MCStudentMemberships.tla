------------------------- MODULE MCStudentMemberships -------------------------
(* Finite instances of StudentMemberships for TLC. *)
EXTENDS StudentMemberships, TLC

Opened(status, from, freezeFrom) ==
    [status |-> status, from |-> from, freezeFrom |-> freezeFrom,
     plan |-> CHOOSE p \in Plans : TRUE, to |-> None, freezeTo |-> None]

\* Active, frozen and, as the API allows, closed from the start.
SomeRows == {Opened("ACTIVE", 0, None), Opened("ACTIVE", 1, None), Opened("FROZEN", 0, 0),
             Opened("ENDED", 0, None)}

Nothing == [status |-> None, from |-> None, freezeFrom |-> None, plan |-> None,
            to |-> None, freezeTo |-> None, clearFreeze |-> FALSE]

\* Notes alone; another plan; a close of today or of a given day; a freeze with
\* and without an end, its end alone, and its dates cleared; a reopening; a
\* later start.
SomeChanges ==
    {Nothing,
     [Nothing EXCEPT !.plan = CHOOSE p \in Plans : TRUE],
     [Nothing EXCEPT !.status = "ENDED"],
     [Nothing EXCEPT !.status = "ENDED", !.to = 1],
     [Nothing EXCEPT !.status = "FROZEN", !.freezeFrom = 0],
     [Nothing EXCEPT !.status = "FROZEN", !.freezeFrom = 0, !.freezeTo = 1],
     [Nothing EXCEPT !.freezeTo = 0],
     [Nothing EXCEPT !.freezeFrom = 1],
     [Nothing EXCEPT !.status = "FROZEN"],
     [Nothing EXCEPT !.clearFreeze = TRUE],
     [Nothing EXCEPT !.status = "ACTIVE"],
     [Nothing EXCEPT !.from = 1]}

Symmetry == Permutations(Calls) \cup Permutations(Plans)
=============================================================================
