------------------------------ MODULE JobQueue ------------------------------
(***************************************************************************)
(* The durable job queue: tables outbox_jobs and classifications and the   *)
(* operations of PostgresJobRepository (src/incident_intel/postgres.py).   *)
(* Each operation is one transaction that locks the rows it changes, so it *)
(* is one action, taken when it commits.                                   *)
(*                                                                         *)
(* The callers are unconstrained: any claim token ever handed out may be   *)
(* presented any number of times, in any order, by whoever holds it, and   *)
(* the clock a caller reads (utc_now(), or the argument `now`) may be      *)
(* early or late.  What holds here holds whatever the workers do;          *)
(* WorkerPool adds the workers.                                            *)
(*                                                                         *)
(* Timestamps are kept relative to the present: 0 is now, -3 was three     *)
(* units ago, and TimePasses moves every stored timestamp into the past.   *)
(* No clock has to be bounded.                                             *)
(***************************************************************************)
EXTENDS Integers, Sequences, FiniteSets

CONSTANTS
  Jobs,             \* job identifiers
  Workers,          \* worker identifiers
  Null,             \* SQL NULL
  MaxAttemptsArgs,  \* the values create_classification_job gets as max_attempts
  RetryableErrors,  \* errors the worker reports as retryable
  FatalErrors,      \* all others
  Lease,            \* JOB_CLAIM_LEASE
  BaseDelay,        \* the delay before a first retry ...
  DelayCap,         \* ... and the longest one (jobs.py)
  BatchSize,        \* the `limit` of claim_jobs
  MaxLag,           \* a caller's clock reading is at most this far behind the present
  MaxLead,          \*   and at most this far ahead of it
  GrantBound        \* bound: attempts granted to one job, admin retries included

Errors == RetryableErrors \cup FatalErrors

Earliest == -MaxLag

(* Clock readings, relative to the present. *)
Offsets == Earliest..MaxLead

ASSUME ConstantsAssumption ==
  /\ MaxAttemptsArgs \subseteq Nat \ {0}
  /\ Lease \in Nat /\ BaseDelay \in Nat /\ DelayCap \in Nat
  /\ BatchSize \in 1..100
  /\ MaxLag \in Nat /\ MaxLead \in Nat
  /\ GrantBound \in Nat
  /\ Null \notin Int /\ Null \notin Workers /\ Null \notin Errors \cup {"WorkerLeaseExpired"}
  /\ "WorkerLeaseExpired" \notin Errors

\* A table has finitely many rows.
ASSUME JobsAssumption == IsFiniteSet(Jobs)

VARIABLES
  outbox_jobs,      \* job |-> row; state "absent" when there is no row
  classifications,  \* job |-> claim tokens of the attempts that stored a result,
                    \*   the n-th of which has classification id n
  minted,           \* job |-> number of claim tokens handed out (uuid4: never reused)
  granted,          \* history: job |-> max_attempts asked for, plus one per admin retry
  settled           \* history: job |-> last token whose attempt was completed or failed

vars == <<outbox_jobs, classifications, minted, granted, settled>>

-----------------------------------------------------------------------------
(* Rows *)

JobState == {"pending", "processing", "retry_pending", "completed", "failed"}

JobRow ==
  [state            : JobState \cup {"absent"},
   attempt_count    : Nat,
   max_attempts     : Nat,
   next_attempt_at  : Int,
   claimed_at       : Int \cup {Null},
   claimed_by       : Workers \cup {Null},
   claim_token      : Nat \cup {Null},
   result_id        : Nat \cup {Null},
   last_error_class : Errors \cup {"WorkerLeaseExpired", Null}]

NoRow ==
  [state |-> "absent", attempt_count |-> 0, max_attempts |-> 0,
   next_attempt_at |-> 0, claimed_at |-> Null, claimed_by |-> Null,
   claim_token |-> Null, result_id |-> Null, last_error_class |-> Null]

\* Faulty: the token survives the attempt.
ReleasedButToken(row) ==
  [row EXCEPT !.claimed_at = Null, !.claimed_by = Null]

Released(row) ==
  [row EXCEPT !.claimed_at = Null, !.claimed_by = Null, !.claim_token = Null]

(* jobs.py: min(300, 10 * 2 ** min(5, max(0, attempt_count - 1))) seconds. *)
Doublings == <<1, 2, 4, 8, 16, 32>>

RetryDelay(attempt_count) ==
  LET doubled == IF attempt_count <= 1 THEN 1
                 ELSE IF attempt_count >= 6 THEN 6 ELSE attempt_count
      seconds == BaseDelay * Doublings[doubled]
  IN  IF seconds <= DelayCap THEN seconds ELSE DelayCap

-----------------------------------------------------------------------------
(* Operations *)

Init ==
  /\ outbox_jobs = [j \in Jobs |-> NoRow]
  /\ classifications = [j \in Jobs |-> <<>>]
  /\ minted = [j \in Jobs |-> 0]
  /\ granted = [j \in Jobs |-> 0]
  /\ settled = [j \in Jobs |-> 0]

\* create_classification_job: max_attempts < 1 is a ValueError, and next_attempt_at
\* is the database's now().
CreateClassificationJob(j, max_attempts) ==
  /\ outbox_jobs[j].state = "absent"
  /\ max_attempts >= 1
  /\ outbox_jobs' = [outbox_jobs EXCEPT ![j] =
       [NoRow EXCEPT !.state = "pending", !.max_attempts = max_attempts]]
  /\ granted' = [granted EXCEPT ![j] = max_attempts]
  /\ UNCHANGED <<classifications, minted, settled>>

\* Faulty: one attempt too many.
HasAttemptLeftOrNone(row) == row.attempt_count <= row.max_attempts

HasAttemptLeft(row) == row.attempt_count < row.max_attempts

\* Faulty: the lease is ignored.
StaleAtOnce(row, at) == row.state = "processing" /\ row.claimed_at <= at

\* claim_jobs at the caller's time `at`.
Stale(row, at) == row.state = "processing" /\ row.claimed_at <= at - Lease

\* Faulty: every stale claim expires.
ExpiredWithAttemptsLeft(at) == {j \in Jobs : Stale(outbox_jobs[j], at)}

\* Faulty: a claim whose last attempt died is left alone.
ExpiredNever(at) == {}

Expired(at) ==
  {j \in Jobs : Stale(outbox_jobs[j], at) /\ ~ HasAttemptLeft(outbox_jobs[j])}

Claimable(at) ==
  {j \in Jobs :
     \/ /\ outbox_jobs[j].state \in {"pending", "retry_pending"}
        /\ outbox_jobs[j].next_attempt_at <= at
     \/ Stale(outbox_jobs[j], at) /\ HasAttemptLeft(outbox_jobs[j])}

\* The batches SELECT ... ORDER BY next_attempt_at LIMIT ... FOR UPDATE SKIP LOCKED may
\* return while other transactions hold the rows in `locked`; created_at, which only
\* breaks ties of next_attempt_at, is left open.
Batches(at, locked) ==
  LET free == Claimable(at) \ locked
      size == IF Cardinality(free) <= BatchSize THEN Cardinality(free) ELSE BatchSize
  IN  {batch \in SUBSET free :
         /\ Cardinality(batch) = size
         /\ \A j \in batch, k \in free \ batch :
              outbox_jobs[j].next_attempt_at <= outbox_jobs[k].next_attempt_at}

\* Faulty: a state the CHECK constraint does not know.
ExpiredRowUnknownState(row) ==
  [Released(row) EXCEPT !.state = "expired", !.last_error_class = "WorkerLeaseExpired"]

ExpiredRow(row) ==
  [Released(row) EXCEPT !.state = "failed", !.last_error_class = "WorkerLeaseExpired"]

\* Faulty: a reclaimed attempt is not counted.
ClaimedRowUncounted(row, w, at, token) ==
  [row EXCEPT !.state = "processing",
              !.attempt_count = IF row.state = "processing" THEN @ ELSE @ + 1,
              !.claimed_at = at, !.claimed_by = w, !.claim_token = token]

ClaimedRow(row, w, at, token) ==
  [row EXCEPT !.state = "processing", !.attempt_count = @ + 1,
              !.claimed_at = at, !.claimed_by = w, !.claim_token = token]

\* Faulty: a reclaimed job keeps its token.
KeptToken(j) ==
  IF outbox_jobs[j].claim_token = Null THEN minted[j] + 1 ELSE outbox_jobs[j].claim_token

FreshToken(j) == minted[j] + 1

\* The expiry commits whether or not the batch is empty.
ClaimJobs(w, at, batch) ==
  /\ outbox_jobs' =
       [j \in Jobs |->
          IF j \in Expired(at) THEN ExpiredRow(outbox_jobs[j])
          ELSE IF j \in batch THEN ClaimedRow(outbox_jobs[j], w, at, FreshToken(j))
          ELSE outbox_jobs[j]]
  /\ minted' = [j \in Jobs |-> IF j \in batch THEN minted[j] + 1 ELSE minted[j]]
  /\ UNCHANGED <<classifications, granted, settled>>

\* Faulty: any worker that ever claimed the job may settle it.
HoldsAnyClaim(j, token) == outbox_jobs[j].state = "processing" /\ token <= minted[j]

\* The claim a caller presents is the one on the row; otherwise InvalidJobState.
HoldsClaim(j, token) ==
  /\ outbox_jobs[j].state = "processing"
  /\ outbox_jobs[j].claim_token = token

FailJob(j, token, error, retryable, at) ==
  LET row == outbox_jobs[j]
      should_retry == retryable /\ HasAttemptLeft(row)
  IN  /\ HoldsClaim(j, token)
      /\ outbox_jobs' = [outbox_jobs EXCEPT ![j] =
           [Released(row) EXCEPT
              !.state = IF should_retry THEN "retry_pending" ELSE "failed",
              !.next_attempt_at =
                 IF should_retry THEN at + RetryDelay(row.attempt_count) ELSE @,
              !.last_error_class = error]]
      /\ settled' = [settled EXCEPT ![j] = token]
      /\ UNCHANGED <<classifications, minted, granted>>

\* A call for a completed job returns its row and changes nothing, whatever the token.
MayComplete(j, token) == HoldsClaim(j, token)

CompleteClassification(j, token) ==
  /\ MayComplete(j, token)
  /\ classifications' = [classifications EXCEPT ![j] = Append(@, token)]
  /\ outbox_jobs' = [outbox_jobs EXCEPT ![j] =
       [Released(outbox_jobs[j]) EXCEPT
          !.state = "completed",
          !.result_id = Len(classifications[j]) + 1,
          !.last_error_class = Null]]
  /\ settled' = [settled EXCEPT ![j] = token]
  /\ UNCHANGED <<minted, granted>>

\* retry_job, the admin's: only a failed job, InvalidJobState otherwise.
MayRetry(row) == row.state = "failed"

RetryJob(j, at) ==
  LET row == outbox_jobs[j]
  IN  /\ MayRetry(row)
      /\ granted[j] < GrantBound
      /\ outbox_jobs' = [outbox_jobs EXCEPT ![j] =
           [Released(row) EXCEPT !.state = "retry_pending",
                                 !.max_attempts = row.attempt_count + 1,
                                 !.next_attempt_at = at]]
      /\ granted' = [granted EXCEPT ![j] = @ + 1]
      /\ UNCHANGED <<classifications, minted, settled>>

\* One unit of time.  A timestamp so old that every clock agrees it is due (or its
\* lease over) is not aged further.
Aged(time, oldest) == IF time = Null \/ time <= oldest THEN time ELSE time - 1

TimePasses ==
  /\ outbox_jobs' =
       [j \in Jobs |->
          [outbox_jobs[j] EXCEPT
             !.next_attempt_at = IF outbox_jobs[j].state = "absent" THEN @
                                 ELSE Aged(@, Earliest),
             !.claimed_at = Aged(@, Earliest - Lease)]]
  /\ UNCHANGED <<classifications, minted, granted, settled>>

-----------------------------------------------------------------------------
(* Specification *)

Create == \E j \in Jobs, m \in MaxAttemptsArgs : CreateClassificationJob(j, m)

Claim ==
  \E w \in Workers, at \in Offsets, locked \in SUBSET Jobs :
    \E batch \in Batches(at, locked) : ClaimJobs(w, at, batch)

Fail ==
  \E j \in Jobs, error \in Errors, at \in Offsets :
    \E token \in 1..minted[j] :
      FailJob(j, token, error, error \in RetryableErrors, at)

Complete ==
  \E j \in Jobs : \E token \in 1..minted[j] : CompleteClassification(j, token)

Retry == \E j \in Jobs, at \in Offsets : RetryJob(j, at)

Next == Create \/ Claim \/ Fail \/ Complete \/ Retry \/ TimePasses

Spec == Init /\ [][Next]_vars

-----------------------------------------------------------------------------
(* Correctness *)

\* Every column holds a value of its type, the CHECK constraints of the table included.
TypeOK ==
  /\ outbox_jobs \in [Jobs -> JobRow]
  /\ classifications \in [Jobs -> Seq(Nat)]
  /\ minted \in [Jobs -> Nat]
  /\ granted \in [Jobs -> Nat]
  /\ settled \in [Jobs -> Nat]

\* The columns of a row agree, whichever of five operations wrote it last: a claim is
\* recorded exactly while an attempt runs, a result exactly when the job is completed,
\* an error on every failed job and on no completed one (postgres.py:377, 413, 459, 517).
RowCoherent ==
  \A j \in Jobs :
    LET row == outbox_jobs[j]
        running == row.state = "processing"
    IN  /\ (row.claim_token # Null) <=> running
        /\ (row.claimed_at # Null) <=> running
        /\ (row.claimed_by # Null) <=> running
        /\ (row.result_id # Null) <=> (row.state = "completed")
        /\ row.state = "failed" => row.last_error_class # Null
        /\ row.state = "completed" => row.last_error_class = Null

\* No call sequence stores a second result for a job, or a result no job points to: a
\* repeated or late complete_classification inserts nothing (postgres.py:494-512).
ResultsMatchJobs ==
  \A j \in Jobs :
    IF outbox_jobs[j].state = "completed"
    THEN Len(classifications[j]) = 1 /\ outbox_jobs[j].result_id = 1
    ELSE classifications[j] = <<>>

\* A job is never started more often than max_attempts at its creation plus one for each
\* admin retry, and a job that waits has an attempt left, although only the reclaiming
\* branch of the claim looks at the budget (postgres.py:388-398, 341, 449).
BudgetRespected ==
  \A j \in Jobs :
    LET row == outbox_jobs[j]
    IN  /\ row.attempt_count = minted[j]
        /\ row.attempt_count <= row.max_attempts
        /\ row.max_attempts <= granted[j]
        /\ row.state \in {"pending", "retry_pending"} =>
             row.attempt_count < row.max_attempts

\* An outcome, success or failure, comes from the most recent attempt: while an attempt
\* runs nobody has settled it, a stored result is the last attempt's, and so is a
\* reported failure (postgres.py:447, 496: the claim token fences older workers).
OnlyLatestAttemptSettles ==
  \A j \in Jobs :
    LET row == outbox_jobs[j]
    IN  /\ settled[j] <= minted[j]
        /\ row.state = "processing" => row.claim_token = minted[j] /\ settled[j] < minted[j]
        /\ row.state = "completed" => settled[j] = minted[j] /\ classifications[j] = <<minted[j]>>
        /\ row.state = "failed" /\ row.last_error_class \in Errors => settled[j] = minted[j]

\* A job fails only for a fatal error or when its last attempt is spent: a retryable error
\* or a dead worker never costs an attempt that was still owed (postgres.py:374, 449).
FailedForCause ==
  \A j \in Jobs :
    LET row == outbox_jobs[j]
    IN  row.state = "failed" =>
          \/ row.last_error_class \in FatalErrors
          \/ row.attempt_count = row.max_attempts

\* A completed job keeps its result whatever is called afterwards: late failures, lease
\* expiry, admin retries, other claims (postgres.py:334, 372, 447, 494).
CompletedIsFinal ==
  [][\A j \in Jobs :
       outbox_jobs[j].state = "completed" =>
         /\ outbox_jobs'[j].state = "completed"
         /\ outbox_jobs'[j].result_id = outbox_jobs[j].result_id
         /\ classifications'[j] = classifications[j]]_vars

\* The rows of one job, read through this mapping, go through the abstract lifecycle.
PhaseOf ==
  [absent |-> "absent", pending |-> "waiting", retry_pending |-> "waiting",
   processing |-> "running", completed |-> "done", failed |-> "failed"]

Phase(row) == PhaseOf[row.state]

StoredResult(row, results) == IF row.result_id = Null THEN 0 ELSE results[row.result_id]

Life(j) == INSTANCE JobLifecycle WITH
  Budgets <- MaxAttemptsArgs,
  phase   <- Phase(outbox_jobs[j]),
  attempt <- outbox_jobs[j].attempt_count,
  budget  <- outbox_jobs[j].max_attempts,
  result  <- StoredResult(outbox_jobs[j], classifications[j])

\* The queue implements JobLifecycle for every job: stale and repeated calls, batches and
\* lease expiry are invisible, or are lifecycle steps.
EveryJobLives ==
  /\ \A j \in Jobs : Life(j)!Init
  /\ [][\A j \in Jobs : [Life(j)!Next]_(Life(j)!lifeVars)]_vars
=============================================================================
