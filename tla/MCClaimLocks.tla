---------------------------- MODULE MCClaimLocks ----------------------------
(* Two claims that overlap. *)
EXTENDS ClaimLocks, TLC

Symmetry == Permutations(Jobs) \cup Permutations(Workers)
=============================================================================
