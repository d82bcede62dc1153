------------------------ MODULE MCCheckoutPreferences ------------------------
(* Finite instances of CheckoutPreferences for TLC. *)
EXTENDS CheckoutPreferences, TLC

Symmetry ==
    Permutations(Charges) \cup Permutations(Connections) \cup Permutations(Requests)
        \cup Permutations(Admins)
=============================================================================
