--------------------------- MODULE MCOperatorApi ---------------------------
(* Two requests of any kind and a token that expires between two moments. *)
EXTENDS OperatorApi, TLC

Symmetry == Permutations(Requests)
=============================================================================
