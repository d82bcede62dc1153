---------------------- MODULE MCOrganizationMemberships ----------------------
(* Finite instances of OrganizationMemberships for TLC. *)
EXTENDS OrganizationMemberships, TLC

\* Roles of the founder, of others, several at once, and the one that is refused.
SomeRoles == {{"MESTRE"}, {"INSTRUCTOR", "STAFF"}, {"STAFF"}, {"HEAD_COACH"}}

Symmetry == Permutations(Calls) \cup Permutations(Branches)
=============================================================================
