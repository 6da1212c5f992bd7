----------------------------- MODULE WorkerPool -----------------------------
(***************************************************************************)
(* Worker processes (src/incident_intel/worker.py) on the durable job      *)
(* queue.  A worker polls: run_once claims a batch, handles its jobs one   *)
(* after the other and reports each outcome with the claim token of the    *)
(* batch.  The calls of a worker to the database can fail before or after  *)
(* they commit, and a worker can die between any two calls.                *)
(*                                                                         *)
(* The waits of run_forever (poll interval, backoff) only delay the next   *)
(* poll: a worker that waits is "polling" here and polls when it likes.    *)
(* WorkerLoop adds them.                                                   *)
(***************************************************************************)
EXTENDS JobQueue, SequencesExt

VARIABLES
  pc,        \* worker |-> "polling", "working", "failing" or "down"
  batch,     \* worker |-> its claims, the one in hand first
  error,     \* worker |-> the exception being reported, Null if none
  claimAge   \* history: worker |-> time since its batch was claimed, up to Lease

workerVars == <<pc, batch, error, claimAge>>
poolVars == <<vars, workerVars>>

Held == [job : Jobs, token : Nat]

PoolTypeOK ==
  /\ TypeOK
  /\ pc \in [Workers -> {"polling", "working", "failing", "down"}]
  /\ batch \in [Workers -> Seq(Held)]
  /\ error \in [Workers -> Errors \cup {Null}]
  /\ claimAge \in [Workers -> 0..Lease]

PoolInit ==
  /\ Init
  /\ pc = [w \in Workers |-> "polling"]
  /\ batch = [w \in Workers |-> <<>>]
  /\ error = [w \in Workers |-> Null]
  /\ claimAge = [w \in Workers |-> 0]

-----------------------------------------------------------------------------
(* Leaving a job *)

InHand(w) == Head(batch[w])

\* On to the next job of the batch; after the last one run_once returns.
Advance(w) ==
  LET rest == Tail(batch[w])
  IN  /\ batch' = [batch EXCEPT ![w] = rest]
      /\ pc' = [pc EXCEPT ![w] = IF rest = <<>> THEN "polling" ELSE "working"]
      /\ error' = [error EXCEPT ![w] = Null]
      /\ claimAge' = [claimAge EXCEPT ![w] = IF rest = <<>> THEN 0 ELSE @]

\* The exception leaves run_once: the rest of the batch is dropped, still claimed.
Abandon(w, next) ==
  /\ batch' = [batch EXCEPT ![w] = <<>>]
  /\ pc' = [pc EXCEPT ![w] = next]
  /\ error' = [error EXCEPT ![w] = Null]
  /\ claimAge' = [claimAge EXCEPT ![w] = 0]

Raise(w, e) ==
  /\ pc' = [pc EXCEPT ![w] = "failing"]
  /\ error' = [error EXCEPT ![w] = e]
  /\ UNCHANGED <<batch, claimAge>>

-----------------------------------------------------------------------------
(* run_once *)

\* The rows come back in the order of the SELECT.
InOrder(claims) ==
  \A m, n \in 1..Len(claims) :
    m < n => outbox_jobs[claims[m].job].next_attempt_at
               <= outbox_jobs[claims[n].job].next_attempt_at

\* Faulty: the rows are those of the SELECT, from before the UPDATE.
TakeSelected(w, jobs) ==
  \E order \in SetToSeqs(jobs) :
    LET claims == [n \in 1..Len(order) |->
                     [job |-> order[n], token |-> outbox_jobs[order[n]].claim_token]]
    IN  /\ InOrder(claims)
        /\ batch' = [batch EXCEPT ![w] = claims]
        /\ pc' = [pc EXCEPT ![w] = IF jobs = {} THEN "polling" ELSE "working"]
        /\ UNCHANGED <<error, claimAge>>

\* The claimed rows, with the tokens UPDATE ... RETURNING gave them.
Take(w, jobs) ==
  \E order \in SetToSeqs(jobs) :
    LET claims == [n \in 1..Len(order) |->
                     [job |-> order[n], token |-> outbox_jobs'[order[n]].claim_token]]
    IN  /\ InOrder(claims)
        /\ batch' = [batch EXCEPT ![w] = claims]
        /\ pc' = [pc EXCEPT ![w] = IF jobs = {} THEN "polling" ELSE "working"]
        /\ UNCHANGED <<error, claimAge>>

ClaimBatch(w, locked) ==
  /\ pc[w] = "polling"
  /\ \E at \in Offsets : \E jobs \in Batches(at, locked) :
       ClaimJobs(w, at, jobs) /\ Take(w, jobs)

\* The commit succeeded, its acknowledgement was lost: StorageUnavailable.
ClaimUnacknowledged(w, locked) ==
  /\ pc[w] = "polling"
  /\ \E at \in Offsets : \E jobs \in Batches(at, locked) : ClaimJobs(w, at, jobs)
  /\ UNCHANGED workerVars

\* Loading and classifying succeeded; complete_classification commits.
CompleteJob(w) ==
  /\ pc[w] = "working"
  /\ CompleteClassification(InHand(w).job, InHand(w).token)
  /\ Advance(w)

\* complete_classification returns the completed row, or raises InvalidJobState.
CompleteNothing(w) ==
  /\ pc[w] = "working"
  /\ ~ MayComplete(InHand(w).job, InHand(w).token)
  /\ Advance(w)
  /\ UNCHANGED vars

CompleteUnacknowledged(w) ==
  /\ pc[w] = "working"
  /\ CompleteClassification(InHand(w).job, InHand(w).token)
  /\ \E e \in RetryableErrors : Raise(w, e)

\* get_incident, classify or complete_classification raised.
WorkFails(w) ==
  /\ pc[w] = "working"
  /\ \E e \in Errors : Raise(w, e)
  /\ UNCHANGED vars

\* Faulty: fail_job is called with whatever claim the row has now.
ReportWithCurrentToken(w) ==
  /\ pc[w] = "failing"
  /\ \E at \in Offsets :
       FailJob(InHand(w).job, minted[InHand(w).job], error[w],
               error[w] \in RetryableErrors, at)
  /\ Advance(w)

ReportFailure(w) ==
  /\ pc[w] = "failing"
  /\ \E at \in Offsets :
       FailJob(InHand(w).job, InHand(w).token, error[w], error[w] \in RetryableErrors, at)
  /\ Advance(w)

ReportRejected(w) ==
  /\ pc[w] = "failing"
  /\ ~ HoldsClaim(InHand(w).job, InHand(w).token)
  /\ Advance(w)
  /\ UNCHANGED vars

\* fail_job raised, having committed or not; nothing catches it in run_once.
ReportUnacknowledged(w) ==
  /\ pc[w] = "failing"
  /\ \/ UNCHANGED vars
     \/ \E at \in Offsets :
          FailJob(InHand(w).job, InHand(w).token, error[w], error[w] \in RetryableErrors, at)
  /\ Abandon(w, "polling")

-----------------------------------------------------------------------------
(* Processes, clients and time *)

\* Faulty: the process hands its jobs back as it dies.
StopHandingBack(w) ==
  /\ pc[w] # "down"
  /\ outbox_jobs' = [j \in Jobs |->
       IF outbox_jobs[j].claimed_by = w
       THEN [Released(outbox_jobs[j]) EXCEPT !.state = "pending"]
       ELSE outbox_jobs[j]]
  /\ Abandon(w, "down")
  /\ UNCHANGED <<classifications, minted, granted, settled>>

\* A crash at any point, or a stop signal seen between two polls.
Stop(w) ==
  /\ pc[w] # "down"
  /\ Abandon(w, "down")
  /\ UNCHANGED vars

\* The container's restart policy.
Restart(w) ==
  /\ pc[w] = "down"
  /\ pc' = [pc EXCEPT ![w] = "polling"]
  /\ UNCHANGED <<vars, batch, error, claimAge>>

PoolTimePasses ==
  /\ TimePasses
  /\ claimAge' = [w \in Workers |->
       IF batch[w] # <<>> /\ claimAge[w] < Lease THEN claimAge[w] + 1 ELSE claimAge[w]]
  /\ UNCHANGED <<pc, batch, error>>

\* The API: operators create jobs, admins retry them.
ClientStep == (Create \/ Retry) /\ UNCHANGED workerVars

-----------------------------------------------------------------------------
(* Specifications *)

HandleJob(w) ==
  \/ CompleteJob(w)
  \/ CompleteNothing(w)
  \/ CompleteUnacknowledged(w)
  \/ WorkFails(w)
  \/ ReportFailure(w)
  \/ ReportRejected(w)
  \/ ReportUnacknowledged(w)

PoolNext ==
  \/ ClientStep
  \/ PoolTimePasses
  \/ \E w \in Workers :
       \/ \E locked \in SUBSET Jobs : ClaimBatch(w, locked) \/ ClaimUnacknowledged(w, locked)
       \/ HandleJob(w)
       \/ Stop(w)
       \/ Restart(w)

\* A worker never stays inside one job, a stopped one is restarted, time goes on, and a
\* worker that polls again and again is answered at last, at a moment when no row is
\* locked: no lock outlives its transaction.
PoolFairness ==
  /\ WF_poolVars(PoolTimePasses)
  /\ \A w \in Workers : /\ WF_poolVars(HandleJob(w))
                         /\ WF_poolVars(Restart(w))
                         /\ SF_poolVars(ClaimBatch(w, {}))

PoolSpec == PoolInit /\ [][PoolNext]_poolVars /\ PoolFairness

-----------------------------------------------------------------------------
(* Correctness *)

\* No two workers ever work on the same attempt of a job, and no worker on two attempts of
\* one: batches are claimed row by row under SKIP LOCKED, and dropped before the next poll.
ExclusiveAttempts ==
  \A v, w \in Workers : \A m \in 1..Len(batch[v]), n \in 1..Len(batch[w]) :
    /\ batch[v][m] = batch[w][n] => v = w /\ m = n
    /\ v = w /\ m # n => batch[v][m].job # batch[w][n].job

\* A claim is not taken away before Lease has passed since it was committed, less what the
\* two clocks involved can be off: the claimer's reading may be MaxLag old when the claim
\* commits, the next claimer's MaxLead ahead (postgres.py:365, 373, 395).
LeaseProtects ==
  \A w \in Workers : \A n \in 1..Len(batch[w]) :
    claimAge[w] < Lease - MaxLag - MaxLead =>
      LET held == batch[w][n] IN
        minted[held.job] = held.token

\* A running attempt ends only by its holder's report, by another claim, or by expiry: only
\* the worker that has the current token in hand completes or fails the job.
OnlyHolderSettles ==
  [][\A j \in Jobs :
       settled'[j] # settled[j] =>
         \E w \in Workers :
           /\ pc[w] \in {"working", "failing"}
           /\ InHand(w) = [job |-> j, token |-> outbox_jobs[j].claim_token]
           /\ \A v \in Workers \ {w} : batch'[v] = batch[v]]_poolVars

\* The workers use the queue as its specification allows any caller to, so that all
\* JobQueue promises holds of the pool.
PoolImplementsQueue == Spec

\* Every job that is not settled is settled at last, whatever crashes, fails or is lost.
JobsSettle ==
  \A j \in Jobs :
    outbox_jobs[j].state \in {"pending", "processing", "retry_pending"}
      ~> outbox_jobs[j].state \in {"completed", "failed"}
=============================================================================
