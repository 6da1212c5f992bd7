---------------------------- MODULE MCWorkerPool ----------------------------
(* Two workers and two jobs.  No symmetry: the run checks liveness. *)
EXTENDS WorkerPool
=============================================================================
