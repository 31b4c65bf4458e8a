----------------------------- MODULE MCProfiles -----------------------------
(* Small instances of Profiles for TLC. *)
EXTENDS Profiles, TLC

CONSTANTS p1, p2, n1, n2

ProfileSymmetry == Permutations(Processes) \cup Permutations(Names)
=============================================================================
