---------------------------- MODULE MCWorkerLoop ----------------------------
(* One process, three jobs and batches of two: jobs left to the next poll, a  *)
(* batch that is left half done, and its backoff.                             *)
EXTENDS WorkerLoop
=============================================================================
