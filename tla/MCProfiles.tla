----------------------------- MODULE MCProfiles -----------------------------
(* An instance of Profiles: two sessions, one file with one import.          *)
EXTENDS Profiles, TLC

CONSTANTS import, degree, skill

MCFoundBy == [e \in Evidence |-> import]
Symmetry == Permutations(Sessions)
=============================================================================
