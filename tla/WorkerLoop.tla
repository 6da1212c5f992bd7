----------------------------- MODULE WorkerLoop -----------------------------
(***************************************************************************)
(* The process around a worker of WorkerPool: run_forever and main         *)
(* (src/incident_intel/worker.py).  It looks at its stop event, calls      *)
(* run_once, and waits: not at all after a poll that found jobs, the poll  *)
(* interval after one that found none, ever longer after polls that failed.*)
(* A signal sets the stop event; it cuts a wait short and is seen at the   *)
(* top of the loop, never inside run_once.                                 *)
(***************************************************************************)
EXTENDS WorkerPool

CONSTANTS
  PollInterval,  \* poll_interval_seconds
  Second,        \* the shortest wait after a failed poll (1.0)
  MaxWait,       \* the longest one (60.0)
  MaxFailures    \* consecutive_failures is not counted further (7)

ASSUME WaitsAssumption ==
  /\ {PollInterval, Second, MaxFailures} \subseteq Nat \ {0}
  /\ MaxWait \in Nat /\ PollInterval <= MaxWait /\ Second <= MaxWait

VARIABLES
  stop,      \* worker |-> its stop event is set
  running,   \* worker |-> it is inside run_once
  failures,  \* worker |-> consecutive_failures
  waiting,   \* worker |-> what is left of wait_seconds
  streak,    \* history: worker |-> polls failed since one succeeded, up to 2
  healthy    \* history: no call failed with a job in hand or claimed, nobody crashed with
             \*   one, and no time passed over one

loopVars == <<stop, running, failures, waiting, streak, healthy>>
allVars == <<poolVars, loopVars>>

LoopInit ==
  /\ PoolInit
  /\ stop = [w \in Workers |-> FALSE]
  /\ running = [w \in Workers |-> FALSE]
  /\ failures = [w \in Workers |-> 0]
  /\ waiting = [w \in Workers |-> 0]
  /\ streak = [w \in Workers |-> 0]
  /\ healthy = TRUE

-----------------------------------------------------------------------------
(* The end of a poll *)

Smaller(a, b) == IF a <= b THEN a ELSE b
Larger(a, b) == IF a >= b THEN a ELSE b

FirstWait == Larger(Second, PollInterval)

Backoff(n) == Smaller(MaxWait, FirstWait * 2^(n - 1))

\* Faulty: only an empty poll forgets the failures.
ReturnedIfIdle(w, wait) ==
  /\ running' = [running EXCEPT ![w] = FALSE]
  /\ failures' = [failures EXCEPT ![w] = IF wait = 0 THEN @ ELSE 0]
  /\ waiting' = [waiting EXCEPT ![w] = wait]
  /\ streak' = [streak EXCEPT ![w] = 0]
  /\ UNCHANGED stop

Returned(w, wait) ==
  /\ running' = [running EXCEPT ![w] = FALSE]
  /\ failures' = [failures EXCEPT ![w] = 0]
  /\ waiting' = [waiting EXCEPT ![w] = wait]
  /\ streak' = [streak EXCEPT ![w] = 0]
  /\ UNCHANGED stop

\* The exception that left run_once is caught: infrastructure is away.
Failed(w) ==
  LET counted == Smaller(MaxFailures, failures[w] + 1)
  IN  /\ running' = [running EXCEPT ![w] = FALSE]
      /\ failures' = [failures EXCEPT ![w] = counted]
      /\ waiting' = [waiting EXCEPT ![w] = Backoff(counted)]
      /\ streak' = [streak EXCEPT ![w] = Smaller(2, @ + 1)]
      /\ UNCHANGED stop

\* run_once goes on with the batch, or returns after its last job.
Continue(w) ==
  IF batch'[w] = <<>> THEN Returned(w, 0)
  ELSE UNCHANGED <<stop, running, failures, waiting, streak>>

-----------------------------------------------------------------------------
(* Actions *)

\* Faulty: the stop event is looked at inside run_once, too.
LeavesAtAnyMoment(w) == stop[w]

\* Faulty: only the wait looks at the stop event.
LeavesFromWait(w) == stop[w] /\ ~ running[w] /\ waiting[w] > 0

\* The top of the loop; a wait that was going on is cut short.
Leaves(w) == stop[w] /\ ~ running[w]

BeginPoll(w) ==
  /\ pc[w] = "polling" /\ ~ running[w] /\ waiting[w] = 0
  /\ ~ Leaves(w)
  /\ running' = [running EXCEPT ![w] = TRUE]
  /\ UNCHANGED <<poolVars, stop, failures, waiting, streak, healthy>>

Claimed(w, locked) ==
  /\ running[w] /\ ClaimBatch(w, locked)
  /\ IF batch'[w] = <<>> THEN Returned(w, PollInterval)
     ELSE UNCHANGED <<stop, running, failures, waiting, streak>>
  /\ UNCHANGED healthy

\* claim_jobs raised: rolled back, or committed without a word.
ClaimFailed(w) ==
  /\ running[w] /\ pc[w] = "polling"
  /\ \/ UNCHANGED poolVars
     \/ \E locked \in SUBSET Jobs : ClaimUnacknowledged(w, locked)
  /\ Failed(w)
  /\ healthy' = (healthy /\ minted' = minted)

HandledOne(w) ==
  /\ CompleteJob(w) \/ CompleteNothing(w) \/ ReportFailure(w) \/ ReportRejected(w)
  /\ Continue(w)
  /\ UNCHANGED healthy

JobRaises(w) ==
  /\ CompleteUnacknowledged(w) \/ WorkFails(w)
  /\ healthy' = FALSE
  /\ UNCHANGED <<stop, running, failures, waiting, streak>>

ReportRaises(w) ==
  /\ ReportUnacknowledged(w)
  /\ Failed(w)
  /\ healthy' = FALSE

\* SIGINT or SIGTERM, at any moment.
Signal(w) ==
  /\ pc[w] # "down" /\ ~ stop[w]
  /\ stop' = [stop EXCEPT ![w] = TRUE]
  /\ UNCHANGED <<poolVars, running, failures, waiting, streak, healthy>>

\* The process ends; the next one starts with fresh counters.
Gone(w) ==
  /\ Stop(w)
  /\ stop' = [stop EXCEPT ![w] = FALSE]
  /\ running' = [running EXCEPT ![w] = FALSE]
  /\ failures' = [failures EXCEPT ![w] = 0]
  /\ waiting' = [waiting EXCEPT ![w] = 0]
  /\ streak' = [streak EXCEPT ![w] = 0]

Exit(w) == Leaves(w) /\ Gone(w) /\ UNCHANGED healthy

Crash(w) == Gone(w) /\ healthy' = (healthy /\ batch[w] = <<>>)

LoopTimePasses ==
  /\ PoolTimePasses
  /\ waiting' = [w \in Workers |-> IF waiting[w] > 0 THEN waiting[w] - 1 ELSE 0]
  /\ healthy' = (healthy /\ \A w \in Workers : batch[w] = <<>>)
  /\ UNCHANGED <<stop, running, failures, streak>>

LoopNext ==
  \/ ClientStep /\ UNCHANGED loopVars
  \/ LoopTimePasses
  \/ \E w \in Workers :
       \/ BeginPoll(w)
       \/ \E locked \in SUBSET Jobs : Claimed(w, locked)
       \/ ClaimFailed(w)
       \/ HandledOne(w)
       \/ JobRaises(w)
       \/ ReportRaises(w)
       \/ Signal(w)
       \/ Exit(w)
       \/ Crash(w)
       \/ Restart(w) /\ UNCHANGED loopVars

\* As in PoolFairness.  A process that is stopped and started again and again comes to a
\* poll at last: the signals of its operators leave it the time.
LoopFairness ==
  /\ WF_allVars(LoopTimePasses)
  /\ \A w \in Workers :
       /\ WF_allVars(HandledOne(w) \/ JobRaises(w) \/ ReportRaises(w))
       /\ WF_allVars(Restart(w) /\ UNCHANGED loopVars)
       /\ WF_allVars(Exit(w))
       /\ SF_allVars(BeginPoll(w))
       /\ SF_allVars(Claimed(w, {}))

LoopSpec == LoopInit /\ [][LoopNext]_allVars /\ LoopFairness

-----------------------------------------------------------------------------
(* Correctness *)

\* The growing wait belongs to one outage: a process waits longer than after a first
\* failure only if its last two polls both failed (worker.py:115, 119).
BackoffForgets == \A w \in Workers : waiting[w] > FirstWait => streak[w] = 2

\* A signalled process ends, whatever it waits for or works on (worker.py:105, 156).
StopIsHeeded == \A w \in Workers : stop[w] ~> pc[w] = "down"

\* Polls that fail, waits, and stops and crashes between batches cost a job nothing: unless
\* a call fails or a lease starts to run out over a claimed job, every job is completed by
\* its first attempt.
HealthyJobsComplete ==
  \A j \in Jobs :
    outbox_jobs[j].state # "absent" ~>
      \/ ~ healthy
      \/ outbox_jobs[j].state = "completed" /\ outbox_jobs[j].attempt_count = 1
=============================================================================
