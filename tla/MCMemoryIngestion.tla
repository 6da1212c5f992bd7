------------------------- MODULE MCMemoryIngestion -------------------------
(* Three clients that send the bundles of MCBundles under two keys. *)
EXTENDS MemoryIngestion, MCBundles, TLC

Symmetry == Permutations(Clients)
=============================================================================
