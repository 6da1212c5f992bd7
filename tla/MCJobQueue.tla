----------------------------- MODULE MCJobQueue -----------------------------
(* Two jobs, claimed one at a time so that order and row locks matter. *)
EXTENDS JobQueue, TLC

Symmetry == Permutations(Jobs) \cup Permutations(Workers)
=============================================================================
