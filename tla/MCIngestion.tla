---------------------------- MODULE MCIngestion ----------------------------
(* Two clients that send the bundles of MCBundles under two keys.  No symmetry: the run  *)
(* checks liveness.                                                                      *)
EXTENDS Ingestion, MCBundles
=============================================================================
