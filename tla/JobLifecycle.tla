---------------------------- MODULE JobLifecycle ----------------------------
(***************************************************************************)
(* What the job repository promises of ONE classification job, whatever    *)
(* the number of workers, their clocks and the calls they repeat           *)
(* (docs/architecture.md, "Durable jobs").  A job waits, runs attempts one *)
(* at a time, and ends done with one result or failed; only an admin       *)
(* reopens a failed job, for one more attempt.                             *)
(***************************************************************************)
EXTENDS Integers

CONSTANT Budgets        \* the values max_attempts may have at creation

VARIABLES phase,        \* "absent", "waiting", "running", "done", "failed"
          attempt,      \* the number of attempts started so far
          budget,       \* the attempts the job may start before it must fail
          result        \* the attempt that produced the result, 0 if none

lifeVars == <<phase, attempt, budget, result>>

Init ==
  /\ phase = "absent"
  /\ attempt = 0
  /\ budget = 0
  /\ result = 0

Submit ==
  /\ phase = "absent"
  /\ phase' = "waiting"
  /\ budget' \in Budgets
  /\ UNCHANGED <<attempt, result>>

\* A new attempt: of a waiting job, or in place of an attempt given up on.
Start ==
  /\ phase \in {"waiting", "running"}
  /\ attempt < budget
  /\ phase' = "running"
  /\ attempt' = attempt + 1
  /\ UNCHANGED <<budget, result>>

Finish ==
  /\ phase = "running"
  /\ phase' = "done"
  /\ result' = attempt
  /\ UNCHANGED <<attempt, budget>>

PutBack ==
  /\ phase = "running"
  /\ attempt < budget
  /\ phase' = "waiting"
  /\ UNCHANGED <<attempt, budget, result>>

GiveUp ==
  /\ phase = "running"
  /\ phase' = "failed"
  /\ UNCHANGED <<attempt, budget, result>>

Reopen ==
  /\ phase = "failed"
  /\ phase' = "waiting"
  /\ budget' = attempt + 1
  /\ UNCHANGED <<attempt, result>>

Next == Submit \/ Start \/ Finish \/ PutBack \/ GiveUp \/ Reopen

Spec == Init /\ [][Next]_lifeVars
=============================================================================
