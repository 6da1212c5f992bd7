--------------------------- MODULE JobQueueProofs ---------------------------
(***************************************************************************)
(* Proofs about the job queue, for any set of jobs, workers and errors,    *)
(* any lease, delays, batch size and clock error; then about its claims    *)
(* statement by statement, for any number that overlap and clock errors    *)
(* below the lease; and in the last part about the workers and the loop    *)
(* around them.                                                            *)
(***************************************************************************)
EXTENDS ClaimLocks, WorkerLoop, FiniteSetTheorems, SequenceTheorems, TLAPS

-----------------------------------------------------------------------------
(* Rows *)

\* The backoff of jobs.py is a delay: a natural number, at most DelayCap.
LEMMA RetryDelayType ==
  ASSUME NEW n \in Nat
  PROVE  RetryDelay(n) \in Nat /\ RetryDelay(n) <= DelayCap
<1> DEFINE k == IF n <= 1 THEN 1 ELSE IF n >= 6 THEN 6 ELSE n
<1> DEFINE seconds == BaseDelay * Doublings[k]
<1>1. k \in 1..6
  OBVIOUS
<1>2. Doublings[k] \in Nat
  BY <1>1 DEF Doublings
<1>3. BaseDelay \in Nat /\ DelayCap \in Nat
  BY ConstantsAssumption DEF ConstantsAssumption
<1>4. seconds \in Nat
  <2> HIDE DEF k
  <2> QED  BY <1>2, <1>3
<1> HIDE DEF seconds
<1>5. RetryDelay(n) = IF seconds <= DelayCap THEN seconds ELSE DelayCap
  BY DEF RetryDelay, seconds
<1> QED
  BY <1>3, <1>4, <1>5

\* A stored row stays a row when it is released, expired or claimed.
LEMMA ReleasedType ==
  ASSUME NEW row \in JobRow
  PROVE  Released(row) \in JobRow
BY DEF JobRow, Released

LEMMA ExpiredType ==
  ASSUME NEW row \in JobRow
  PROVE  ExpiredRow(row) \in JobRow
BY ReleasedType DEF JobRow, JobState, ExpiredRow

LEMMA ClaimedType ==
  ASSUME NEW row \in JobRow, NEW w \in Workers, NEW at \in Int, NEW token \in Nat
  PROVE  ClaimedRow(row, w, at, token) \in JobRow
<1>1. row.attempt_count + 1 \in Nat
  BY DEF JobRow
<1>2. at \in Int \cup {Null} /\ w \in Workers \cup {Null} /\ token \in Nat \cup {Null}
  OBVIOUS
<1> QED
  BY <1>1, <1>2 DEF JobRow, JobState, ClaimedRow

LEMMA AgedType ==
  ASSUME NEW oldest \in Int, NEW time \in Int \cup {Null}
  PROVE  /\ Aged(time, oldest) \in Int \cup {Null}
         /\ time \in Int => Aged(time, oldest) \in Int
         /\ Aged(time, oldest) = Null <=> time = Null
  BY ConstantsAssumption DEF Aged, ConstantsAssumption

LEMMA OffsetsType == Offsets \subseteq Int /\ Earliest \in Int /\ Earliest - Lease \in Int
  BY ConstantsAssumption DEF ConstantsAssumption, Offsets, Earliest

LEMMA NoRowType == NoRow \in JobRow
  BY DEF NoRow, JobRow

-----------------------------------------------------------------------------
(* Type correctness *)

LEMMA ClaimJobsType ==
  ASSUME TypeOK, NEW w \in Workers, NEW at \in Int, NEW chosen \in SUBSET Jobs,
         ClaimJobs(w, at, chosen)
  PROVE  TypeOK'
<1>1. minted' \in [Jobs -> Nat]
  BY DEF TypeOK, ClaimJobs
<1>2. ASSUME NEW j \in Jobs
      PROVE  /\ ExpiredRow(outbox_jobs[j]) \in JobRow
             /\ ClaimedRow(outbox_jobs[j], w, at, FreshToken(j)) \in JobRow
             /\ outbox_jobs[j] \in JobRow
  <2>1. outbox_jobs[j] \in JobRow /\ FreshToken(j) \in Nat
    BY DEF TypeOK, FreshToken
  <2> QED
    BY <2>1, ExpiredType, ClaimedType
<1>3. outbox_jobs' \in [Jobs -> JobRow]
  BY <1>2 DEF ClaimJobs
<1> QED
  BY <1>1, <1>3 DEF TypeOK, ClaimJobs

LEMMA FailJobType ==
  ASSUME TypeOK, NEW j \in Jobs, NEW token \in Nat, NEW reason \in Errors,
         NEW retryable \in BOOLEAN, NEW at \in Int,
         FailJob(j, token, reason, retryable, at)
  PROVE  TypeOK'
<1> DEFINE row == outbox_jobs[j]
           should_retry == retryable /\ HasAttemptLeft(row)
           state == IF should_retry THEN "retry_pending" ELSE "failed"
           next == IF should_retry THEN at + RetryDelay(row.attempt_count)
                   ELSE row.next_attempt_at
           new == [Released(row) EXCEPT !.state = state, !.next_attempt_at = next,
                                        !.last_error_class = reason]
<1>1. row \in JobRow /\ Released(row) \in JobRow
  BY ReleasedType DEF TypeOK
<1>2. RetryDelay(row.attempt_count) \in Nat
  BY <1>1, RetryDelayType DEF JobRow
<1>3. next \in Int
  <2>1. row.next_attempt_at \in Int
    BY <1>1 DEF JobRow
  <2> HIDE DEF row, should_retry
  <2> QED
    BY <1>2, <2>1
<1>4. state \in JobState
  BY DEF JobState
<1>5. new \in JobRow
  <2> HIDE DEF row, state, next
  <2> QED
    BY <1>1, <1>3, <1>4 DEF JobRow
<1>6. outbox_jobs' = [outbox_jobs EXCEPT ![j] = new]
  BY DEF FailJob, Released
<1>7. outbox_jobs' \in [Jobs -> JobRow]
  <2> HIDE DEF new
  <2> QED
    BY <1>5, <1>6 DEF TypeOK
<1> QED
  BY <1>7 DEF TypeOK, FailJob

LEMMA CompleteType ==
  ASSUME TypeOK, NEW j \in Jobs, NEW token \in Nat, CompleteClassification(j, token)
  PROVE  TypeOK'
<1> DEFINE id == Len(classifications[j]) + 1
           new == [Released(outbox_jobs[j]) EXCEPT
                     !.state = "completed", !.result_id = id, !.last_error_class = Null]
<1>1. Released(outbox_jobs[j]) \in JobRow
  BY ReleasedType DEF TypeOK
<1>2. classifications[j] \in Seq(Nat) /\ id \in Nat
  BY DEF TypeOK
<1>3. new \in JobRow
  <2> HIDE DEF id
  <2> QED
    BY <1>1, <1>2 DEF JobRow, JobState
<1>4. outbox_jobs' \in [Jobs -> JobRow]
  <2>1. outbox_jobs' = [outbox_jobs EXCEPT ![j] = new]
    BY DEF CompleteClassification
  <2> HIDE DEF new
  <2> QED
    BY <1>3, <2>1 DEF TypeOK
<1>5. classifications' \in [Jobs -> Seq(Nat)]
  BY <1>2 DEF TypeOK, CompleteClassification
<1> QED
  BY <1>4, <1>5 DEF TypeOK, CompleteClassification

LEMMA RetryJobType ==
  ASSUME TypeOK, NEW j \in Jobs, NEW at \in Int, RetryJob(j, at)
  PROVE  TypeOK'
<1> DEFINE max == outbox_jobs[j].attempt_count + 1
           new == [Released(outbox_jobs[j]) EXCEPT
                     !.state = "retry_pending", !.max_attempts = max,
                     !.next_attempt_at = at]
<1>1. outbox_jobs[j] \in JobRow /\ Released(outbox_jobs[j]) \in JobRow
  BY ReleasedType DEF TypeOK
<1>2. max \in Nat
  BY <1>1 DEF JobRow
<1>3. new \in JobRow
  <2> HIDE DEF max
  <2> QED
    BY <1>1, <1>2 DEF JobRow, JobState
<1>4. outbox_jobs' \in [Jobs -> JobRow]
  <2>1. outbox_jobs' = [outbox_jobs EXCEPT ![j] = new]
    BY DEF RetryJob
  <2> HIDE DEF new
  <2> QED
    BY <1>3, <2>1 DEF TypeOK
<1> QED
  BY <1>4 DEF TypeOK, RetryJob

LEMMA CreateType ==
  ASSUME TypeOK, NEW j \in Jobs, NEW m \in MaxAttemptsArgs, CreateClassificationJob(j, m)
  PROVE  TypeOK'
<1> DEFINE new == [NoRow EXCEPT !.state = "pending", !.max_attempts = m]
<1>1. m \in Nat
  BY ConstantsAssumption DEF ConstantsAssumption
<1>2. new \in JobRow
  BY <1>1, NoRowType DEF JobRow, JobState
<1>3. outbox_jobs' \in [Jobs -> JobRow]
  <2>1. outbox_jobs' = [outbox_jobs EXCEPT ![j] = new]
    BY DEF CreateClassificationJob
  <2> HIDE DEF new
  <2> QED
    BY <1>2, <2>1 DEF TypeOK
<1> QED
  BY <1>1, <1>3 DEF TypeOK, CreateClassificationJob

\* The row TimePasses leaves in the place of `row`.
AgedRow(row) ==
  [row EXCEPT !.next_attempt_at = IF row.state = "absent" THEN row.next_attempt_at
                                  ELSE Aged(row.next_attempt_at, Earliest),
              !.claimed_at = Aged(row.claimed_at, Earliest - Lease)]

LEMMA AgedRowType ==
  ASSUME NEW row \in JobRow
  PROVE  /\ AgedRow(row) \in JobRow
         /\ AgedRow(row).claimed_at = Null <=> row.claimed_at = Null
         /\ \A f \in {"state", "attempt_count", "max_attempts", "claimed_by", "claim_token",
                      "result_id", "last_error_class"} : AgedRow(row)[f] = row[f]
<1> DEFINE next == IF row.state = "absent" THEN row.next_attempt_at
                   ELSE Aged(row.next_attempt_at, Earliest)
           at == Aged(row.claimed_at, Earliest - Lease)
<1>1. row.next_attempt_at \in Int /\ row.claimed_at \in Int \cup {Null}
  BY DEF JobRow
<1>2. next \in Int
  BY <1>1, AgedType, OffsetsType
<1>3. at \in Int \cup {Null} /\ (at = Null <=> row.claimed_at = Null)
  BY <1>1, AgedType, OffsetsType
<1>4. AgedRow(row) = [row EXCEPT !.next_attempt_at = next, !.claimed_at = at]
  BY DEF AgedRow
<1> HIDE DEF next, at
<1> QED
  BY <1>2, <1>3, <1>4 DEF JobRow

LEMMA TimePassesType ==
  ASSUME TypeOK, TimePasses
  PROVE  TypeOK'
<1>1. outbox_jobs' = [j \in Jobs |-> AgedRow(outbox_jobs[j])]
  BY DEF TimePasses, AgedRow
<1>2. \A j \in Jobs : AgedRow(outbox_jobs[j]) \in JobRow
  BY AgedRowType DEF TypeOK
<1>3. outbox_jobs' \in [Jobs -> JobRow]
  BY <1>1, <1>2
<1> QED
  BY <1>3 DEF TypeOK, TimePasses

\* The batches a claim may return are sets of claimable jobs.
LEMMA BatchesClaimable ==
  ASSUME NEW at, NEW locked \in SUBSET Jobs, NEW chosen \in Batches(at, locked)
  PROVE  chosen \subseteq Claimable(at) /\ chosen \in SUBSET Jobs
BY DEF Batches, Claimable

LEMMA InitType == Init => TypeOK
  BY NoRowType DEF Init, TypeOK

LEMMA NextType == TypeOK /\ [Next]_vars => TypeOK'
<1> SUFFICES ASSUME TypeOK, [Next]_vars PROVE TypeOK'
  OBVIOUS
<1>1. CASE Create
  BY <1>1, CreateType DEF Create
<1>2. CASE Claim
  BY <1>2, ClaimJobsType, BatchesClaimable, OffsetsType DEF Claim
<1>3. CASE Fail
  <2>1. PICK j \in Jobs, reason \in Errors, at \in Offsets :
          \E token \in 1..minted[j] : FailJob(j, token, reason, reason \in RetryableErrors, at)
    BY <1>3 DEF Fail
  <2>2. PICK token \in 1..minted[j] : FailJob(j, token, reason, reason \in RetryableErrors, at)
    BY <2>1
  <2>3. token \in Nat /\ at \in Int /\ (reason \in RetryableErrors) \in BOOLEAN
    BY OffsetsType DEF TypeOK
  <2> QED
    BY <2>2, <2>3, FailJobType
<1>4. CASE Complete
  <2>1. PICK j \in Jobs : \E token \in 1..minted[j] : CompleteClassification(j, token)
    BY <1>4 DEF Complete
  <2>2. PICK token \in 1..minted[j] : CompleteClassification(j, token)
    BY <2>1
  <2>3. token \in Nat
    BY DEF TypeOK
  <2> QED
    BY <2>2, <2>3, CompleteType
<1>5. CASE Retry
  BY <1>5, RetryJobType, OffsetsType DEF Retry
<1>6. CASE TimePasses
  BY <1>6, TimePassesType
<1>7. CASE UNCHANGED vars
  BY <1>7 DEF vars, TypeOK
<1> QED
  BY <1>1, <1>2, <1>3, <1>4, <1>5, <1>6, <1>7 DEF Next

\* Every table column holds a value of its type in every reachable state, for every lease,
\* clock error and number of jobs and workers.
THEOREM TypeCorrect == Spec => []TypeOK
  BY InitType, NextType, PTL DEF Spec

-----------------------------------------------------------------------------
(* The inductive invariant, one job at a time *)

\* The safety invariants of JobQueue say about each job something of its row, its stored
\* results and its history only.  Safe is their conjunction for one job, with the fact they
\* leave out: a job that does not exist was never claimed.
Safe(row, results, tokens, grant, last) ==
  /\ row.state = "absent" => tokens = 0
  /\ (row.claim_token # Null) <=> (row.state = "processing")
  /\ (row.claimed_at # Null) <=> (row.state = "processing")
  /\ (row.claimed_by # Null) <=> (row.state = "processing")
  /\ (row.result_id # Null) <=> (row.state = "completed")
  /\ row.state = "failed" => row.last_error_class # Null
  /\ row.state = "completed" => row.last_error_class = Null
  /\ row.state = "completed" => row.result_id = 1 /\ results = <<tokens>> /\ last = tokens
  /\ row.state # "completed" => results = <<>>
  /\ row.attempt_count = tokens
  /\ row.attempt_count <= row.max_attempts
  /\ row.max_attempts <= grant
  /\ row.state \in {"pending", "retry_pending"} => row.attempt_count < row.max_attempts
  /\ last <= tokens
  /\ row.state = "processing" => row.claim_token = tokens /\ last < tokens
  /\ row.state = "failed" /\ row.last_error_class \in Errors => last = tokens
  /\ row.state = "failed" =>
       row.last_error_class \in FatalErrors \/ row.attempt_count = row.max_attempts

AllSafe ==
  \A j \in Jobs : Safe(outbox_jobs[j], classifications[j], minted[j], granted[j], settled[j])

IInv == TypeOK /\ AllSafe

LEMMA SafeImplies ==
  ASSUME IInv
  PROVE  /\ RowCoherent /\ ResultsMatchJobs /\ BudgetRespected
         /\ OnlyLatestAttemptSettles /\ FailedForCause
<1> USE DEF IInv, AllSafe, Safe
<1>1. RowCoherent
  BY DEF RowCoherent
<1>2. ResultsMatchJobs
  BY DEF ResultsMatchJobs
<1>3. BudgetRespected
  BY DEF BudgetRespected
<1>4. OnlyLatestAttemptSettles
  BY DEF OnlyLatestAttemptSettles
<1>5. FailedForCause
  BY DEF FailedForCause
<1> QED
  BY <1>1, <1>2, <1>3, <1>4, <1>5

LEMMA InitSafe == Init => AllSafe
BY ConstantsAssumption DEF Init, AllSafe, Safe, NoRow, ConstantsAssumption

\* Each way a row changes keeps it safe.
LEMMA ExpiredSafe ==
  ASSUME NEW row \in JobRow, NEW results \in Seq(Nat),
         NEW tokens \in Nat, NEW grant \in Nat, NEW last \in Nat,
         Safe(row, results, tokens, grant, last),
         row.state = "processing", ~ HasAttemptLeft(row)
  PROVE  Safe(ExpiredRow(row), results, tokens, grant, last)
<1> DEFINE new == ExpiredRow(row)
<1>1. /\ new.state = "failed" /\ new.last_error_class = "WorkerLeaseExpired"
      /\ new.claim_token = Null /\ new.claimed_at = Null /\ new.claimed_by = Null
      /\ new.result_id = row.result_id /\ new.attempt_count = row.attempt_count
      /\ new.max_attempts = row.max_attempts
  BY DEF ExpiredRow, Released, JobRow
<1>2. "WorkerLeaseExpired" \notin Errors /\ "WorkerLeaseExpired" # Null
  BY ConstantsAssumption DEF ConstantsAssumption
<1>3. row.attempt_count = row.max_attempts
  BY DEF Safe, HasAttemptLeft, JobRow
<1> HIDE DEF new
<1>4. Safe(new, results, tokens, grant, last)
  BY <1>1, <1>2, <1>3 DEF Safe
<1> QED
  BY <1>4 DEF new

LEMMA ClaimedSafe ==
  ASSUME NEW row \in JobRow, NEW results \in Seq(Nat),
         NEW tokens \in Nat, NEW grant \in Nat, NEW last \in Nat,
         Safe(row, results, tokens, grant, last),
         row.state \in {"pending", "retry_pending", "processing"}, HasAttemptLeft(row),
         NEW w \in Workers, NEW at \in Int
  PROVE  Safe(ClaimedRow(row, w, at, tokens + 1), results, tokens + 1, grant, last)
<1> DEFINE new == ClaimedRow(row, w, at, tokens + 1)
<1>1. /\ new.state = "processing" /\ new.claim_token = tokens + 1
      /\ new.claimed_at = at /\ new.claimed_by = w
      /\ new.result_id = row.result_id /\ new.attempt_count = row.attempt_count + 1
      /\ new.max_attempts = row.max_attempts
  BY DEF ClaimedRow, JobRow
<1>2. at # Null /\ w # Null /\ tokens + 1 # Null
  BY ConstantsAssumption DEF ConstantsAssumption
<1>3. row.attempt_count + 1 <= row.max_attempts
  BY DEF HasAttemptLeft, JobRow
<1> HIDE DEF new
<1>4. Safe(new, results, tokens + 1, grant, last)
  BY <1>1, <1>2, <1>3 DEF Safe, JobRow
<1> QED
  BY <1>4 DEF new

LEMMA AgedSafe ==
  ASSUME NEW row \in JobRow, NEW results, NEW tokens, NEW grant, NEW last,
         Safe(row, results, tokens, grant, last)
  PROVE  Safe(AgedRow(row), results, tokens, grant, last)
BY AgedRowType DEF Safe

\* What a report of failure and a completion leave of the row that was claimed.
LEMMA FailSafe ==
  ASSUME IInv, NEW j \in Jobs, NEW token \in Nat, NEW reason \in Errors, NEW at \in Int,
         FailJob(j, token, reason, reason \in RetryableErrors, at)
  PROVE  AllSafe'
<1> DEFINE row == outbox_jobs[j]
           should_retry == reason \in RetryableErrors /\ HasAttemptLeft(row)
           new == outbox_jobs'[j]
<1>1. /\ row \in JobRow /\ row.state = "processing" /\ row.claim_token = token
      /\ Safe(row, classifications[j], minted[j], granted[j], settled[j])
      /\ minted[j] \in Nat /\ settled[j] \in Nat
  BY DEF IInv, AllSafe, TypeOK, FailJob, HoldsClaim
<1>2. /\ new.state = IF should_retry THEN "retry_pending" ELSE "failed"
      /\ new.last_error_class = reason
      /\ new.claim_token = Null /\ new.claimed_at = Null /\ new.claimed_by = Null
      /\ new.result_id = row.result_id /\ new.attempt_count = row.attempt_count
      /\ new.max_attempts = row.max_attempts
  BY <1>1 DEF IInv, TypeOK, FailJob, Released, JobRow
<1>3. reason # Null /\ (reason \in RetryableErrors \/ reason \in FatalErrors)
  BY ConstantsAssumption DEF ConstantsAssumption, Errors
<1>4. should_retry => row.attempt_count < row.max_attempts
  BY DEF HasAttemptLeft
<1>5. ~ should_retry => reason \in FatalErrors \/ row.attempt_count = row.max_attempts
  BY <1>1, <1>3 DEF Safe, HasAttemptLeft, JobRow
<1>6. settled'[j] = minted[j]
  BY <1>1 DEF IInv, TypeOK, FailJob, Safe
<1>7. Safe(new, classifications[j], minted[j], granted[j], minted[j])
  <2> HIDE DEF new, should_retry
  <2> QED
    BY <1>1, <1>2, <1>3, <1>4, <1>5 DEF Safe
<1>8. ASSUME NEW k \in Jobs, k # j
      PROVE  outbox_jobs'[k] = outbox_jobs[k] /\ settled'[k] = settled[k]
  BY <1>8 DEF IInv, TypeOK, FailJob
<1> QED
  BY <1>6, <1>7, <1>8 DEF IInv, AllSafe, FailJob

LEMMA CompleteSafe ==
  ASSUME IInv, NEW j \in Jobs, NEW token \in Nat, CompleteClassification(j, token)
  PROVE  AllSafe'
<1> DEFINE row == outbox_jobs[j]
           new == outbox_jobs'[j]
<1>1. /\ row \in JobRow /\ row.state = "processing" /\ row.claim_token = token
      /\ Safe(row, classifications[j], minted[j], granted[j], settled[j])
      /\ minted[j] \in Nat
  BY DEF IInv, AllSafe, TypeOK, CompleteClassification, MayComplete, HoldsClaim
<1>2. classifications[j] = <<>> /\ token = minted[j]
  BY <1>1 DEF Safe
<1>3. /\ new.state = "completed" /\ new.last_error_class = Null /\ new.result_id = 1
      /\ new.claim_token = Null /\ new.claimed_at = Null /\ new.claimed_by = Null
      /\ new.attempt_count = row.attempt_count /\ new.max_attempts = row.max_attempts
  BY <1>1, <1>2 DEF IInv, TypeOK, CompleteClassification, Released, JobRow
<1>4. classifications'[j] = <<minted[j]>> /\ settled'[j] = minted[j]
  BY <1>2 DEF IInv, TypeOK, CompleteClassification
<1>5. 1 # Null
  BY ConstantsAssumption DEF ConstantsAssumption
<1>6. Safe(new, <<minted[j]>>, minted[j], granted[j], minted[j])
  <2> HIDE DEF new
  <2> QED
    BY <1>1, <1>3, <1>5 DEF Safe
<1>7. ASSUME NEW k \in Jobs, k # j
      PROVE  /\ outbox_jobs'[k] = outbox_jobs[k] /\ settled'[k] = settled[k]
             /\ classifications'[k] = classifications[k]
  BY <1>7 DEF IInv, TypeOK, CompleteClassification
<1> QED
  BY <1>4, <1>6, <1>7 DEF IInv, AllSafe, CompleteClassification

LEMMA RetrySafe ==
  ASSUME IInv, NEW j \in Jobs, NEW at \in Int, RetryJob(j, at)
  PROVE  AllSafe'
<1> DEFINE row == outbox_jobs[j]
           new == outbox_jobs'[j]
<1>1. /\ row \in JobRow /\ row.state = "failed"
      /\ Safe(row, classifications[j], minted[j], granted[j], settled[j])
      /\ minted[j] \in Nat /\ granted[j] \in Nat
  BY DEF IInv, AllSafe, TypeOK, RetryJob, MayRetry
<1>2. /\ new.state = "retry_pending" /\ new.last_error_class = row.last_error_class
      /\ new.claim_token = Null /\ new.claimed_at = Null /\ new.claimed_by = Null
      /\ new.result_id = row.result_id /\ new.attempt_count = row.attempt_count
      /\ new.max_attempts = row.attempt_count + 1
  BY <1>1 DEF IInv, TypeOK, RetryJob, Released, JobRow
<1>3. granted'[j] = granted[j] + 1
  BY DEF IInv, TypeOK, RetryJob
<1>4. Safe(new, classifications[j], minted[j], granted[j] + 1, settled[j])
  <2> HIDE DEF new
  <2> QED
    BY <1>1, <1>2 DEF Safe, JobRow
<1>5. ASSUME NEW k \in Jobs, k # j
      PROVE  outbox_jobs'[k] = outbox_jobs[k] /\ granted'[k] = granted[k]
  BY <1>5 DEF IInv, TypeOK, RetryJob
<1> QED
  BY <1>3, <1>4, <1>5 DEF IInv, AllSafe, RetryJob

LEMMA CreateSafe ==
  ASSUME IInv, NEW j \in Jobs, NEW m \in MaxAttemptsArgs, CreateClassificationJob(j, m)
  PROVE  AllSafe'
<1> DEFINE new == outbox_jobs'[j]
<1>1. m \in Nat /\ 0 < m
  BY ConstantsAssumption DEF ConstantsAssumption
<1>2. /\ outbox_jobs[j].state = "absent" /\ minted[j] \in Nat /\ settled[j] \in Nat
      /\ Safe(outbox_jobs[j], classifications[j], minted[j], granted[j], settled[j])
  BY DEF IInv, AllSafe, TypeOK, CreateClassificationJob
<1>3. minted[j] = 0 /\ settled[j] = 0 /\ classifications[j] = <<>>
  BY <1>2 DEF Safe
<1>4. new = [NoRow EXCEPT !.state = "pending", !.max_attempts = m] /\ granted'[j] = m
  BY DEF IInv, TypeOK, CreateClassificationJob
<1>5. /\ new.state = "pending" /\ new.attempt_count = 0 /\ new.max_attempts = m
      /\ new.claimed_at = Null /\ new.claimed_by = Null /\ new.claim_token = Null
      /\ new.result_id = Null
  BY <1>4 DEF NoRow
<1>6. Safe(new, <<>>, 0, m, 0)
  <2> HIDE DEF new
  <2> QED
    BY <1>1, <1>5 DEF Safe
<1>7. ASSUME NEW k \in Jobs, k # j
      PROVE  outbox_jobs'[k] = outbox_jobs[k] /\ granted'[k] = granted[k]
  BY <1>7 DEF IInv, TypeOK, CreateClassificationJob
<1> QED
  BY <1>3, <1>4, <1>6, <1>7 DEF IInv, AllSafe, CreateClassificationJob

\* A claim leaves every row expired, claimed or as it was.
LEMMA ClaimSafe ==
  ASSUME IInv, NEW w \in Workers, NEW at \in Int, NEW chosen \in SUBSET Jobs,
         chosen \subseteq Claimable(at), ClaimJobs(w, at, chosen)
  PROVE  AllSafe'
<1> SUFFICES ASSUME NEW j \in Jobs
             PROVE  Safe(outbox_jobs'[j], classifications[j], minted'[j], granted[j], settled[j])
  BY DEF AllSafe, ClaimJobs
<1>1. /\ outbox_jobs[j] \in JobRow /\ classifications[j] \in Seq(Nat)
      /\ minted[j] \in Nat /\ granted[j] \in Nat /\ settled[j] \in Nat
      /\ Safe(outbox_jobs[j], classifications[j], minted[j], granted[j], settled[j])
  BY DEF IInv, AllSafe, TypeOK
<1>2. CASE j \in Expired(at)
  <2>1. /\ outbox_jobs[j].state = "processing" /\ ~ HasAttemptLeft(outbox_jobs[j])
        /\ at - Lease \in Int
    BY <1>2, ConstantsAssumption DEF Expired, Stale, ConstantsAssumption
  <2>2. j \notin chosen
    BY <2>1 DEF Claimable
  <2>3. outbox_jobs'[j] = ExpiredRow(outbox_jobs[j]) /\ minted'[j] = minted[j]
    BY <1>2, <2>2 DEF ClaimJobs
  <2> QED
    BY <1>1, <2>1, <2>3, ExpiredSafe
<1>3. CASE j \notin Expired(at) /\ j \in chosen
  <2>1. HasAttemptLeft(outbox_jobs[j])
    <3>1. CASE outbox_jobs[j].state \in {"pending", "retry_pending"}
      BY <1>1, <3>1 DEF Safe, HasAttemptLeft
    <3>2. CASE Stale(outbox_jobs[j], at) /\ HasAttemptLeft(outbox_jobs[j])
      BY <3>2
    <3> QED
      BY <1>3, <3>1, <3>2 DEF Claimable
  <2>2. outbox_jobs[j].state \in {"pending", "retry_pending", "processing"}
    BY <1>3 DEF Claimable, Stale
  <2>3. /\ outbox_jobs'[j] = ClaimedRow(outbox_jobs[j], w, at, minted[j] + 1)
        /\ minted'[j] = minted[j] + 1
    BY <1>3 DEF ClaimJobs, FreshToken
  <2> QED
    BY <1>1, <2>1, <2>2, <2>3, ClaimedSafe
<1>4. CASE j \notin Expired(at) /\ j \notin chosen
  BY <1>1, <1>4 DEF ClaimJobs
<1> QED
  BY <1>2, <1>3, <1>4

LEMMA TimePassesSafe ==
  ASSUME IInv, TimePasses
  PROVE  AllSafe'
<1>1. outbox_jobs' = [j \in Jobs |-> AgedRow(outbox_jobs[j])]
  BY DEF TimePasses, AgedRow
<1>2. \A j \in Jobs :
        Safe(AgedRow(outbox_jobs[j]), classifications[j], minted[j], granted[j], settled[j])
  BY AgedSafe DEF IInv, AllSafe, TypeOK
<1> QED
  BY <1>1, <1>2 DEF AllSafe, TimePasses

LEMMA NextSafe == IInv /\ [Next]_vars => IInv'
<1> SUFFICES ASSUME IInv, [Next]_vars PROVE AllSafe'
  BY NextType DEF IInv
<1>1. CASE Create
  BY <1>1, CreateSafe DEF Create
<1>2. CASE Claim
  BY <1>2, ClaimSafe, BatchesClaimable, OffsetsType DEF Claim
<1>3. CASE Fail
  <2>1. PICK j \in Jobs, reason \in Errors, at \in Offsets :
          \E token \in 1..minted[j] : FailJob(j, token, reason, reason \in RetryableErrors, at)
    BY <1>3 DEF Fail
  <2> QED
    BY <2>1, FailSafe, OffsetsType DEF IInv, TypeOK
<1>4. CASE Complete
  BY <1>4, CompleteSafe DEF Complete, IInv, TypeOK
<1>5. CASE Retry
  BY <1>5, RetrySafe, OffsetsType DEF Retry
<1>6. CASE TimePasses
  BY <1>6, TimePassesSafe
<1>7. CASE UNCHANGED vars
  BY <1>7 DEF vars, IInv, AllSafe
<1> QED
  BY <1>1, <1>2, <1>3, <1>4, <1>5, <1>6, <1>7 DEF Next

\* The inductive invariant holds in every reachable state.
THEOREM Inductive == Spec => []IInv
<1>1. Init => IInv
  BY InitSafe, InitType DEF IInv
<1> QED
  BY <1>1, NextSafe, PTL DEF Spec

\* Claims, results, errors and budgets agree in every row, no job has two results or a stray
\* one, nobody starts an attempt that was not granted, outcomes come from the latest
\* attempt, and no job fails while an attempt is owed: whatever callers do, however wrong
\* their clocks are.
THEOREM QueueSafe ==
  Spec => [](/\ RowCoherent /\ ResultsMatchJobs /\ BudgetRespected
             /\ OnlyLatestAttemptSettles /\ FailedForCause)
  BY Inductive, SafeImplies, PTL

\* The columns of a row agree, whichever operation wrote it last.
THEOREM RowsAgree == Spec => []RowCoherent
  BY Inductive, SafeImplies, PTL

\* No job is started more often than it was granted, and a job that waits has an attempt left.
THEOREM BudgetKept == Spec => []BudgetRespected
  BY Inductive, SafeImplies, PTL

\* A retryable error or a dead worker never fails a job that has an attempt left.
THEOREM FailuresHaveCause == Spec => []FailedForCause
  BY Inductive, SafeImplies, PTL

-----------------------------------------------------------------------------
(* What a step does to one job *)

\* The ways a step can change the row of job j.
LEMMA StepOfJob ==
  ASSUME IInv, Next, NEW j \in Jobs
  PROVE  \/ \E m \in MaxAttemptsArgs : CreateClassificationJob(j, m)
         \/ /\ outbox_jobs[j].state = "processing" /\ ~ HasAttemptLeft(outbox_jobs[j])
            /\ outbox_jobs'[j] = ExpiredRow(outbox_jobs[j])
            /\ classifications'[j] = classifications[j]
         \/ /\ outbox_jobs[j].state \in {"pending", "retry_pending", "processing"}
            /\ HasAttemptLeft(outbox_jobs[j])
            /\ \E w \in Workers, at \in Int, token \in Nat :
                 outbox_jobs'[j] = ClaimedRow(outbox_jobs[j], w, at, token)
            /\ classifications'[j] = classifications[j]
         \/ \E token \in Nat, reason \in Errors, at \in Int :
              FailJob(j, token, reason, reason \in RetryableErrors, at)
         \/ \E token \in Nat : CompleteClassification(j, token)
         \/ \E at \in Int : RetryJob(j, at)
         \/ /\ outbox_jobs'[j] = AgedRow(outbox_jobs[j])
            /\ classifications'[j] = classifications[j]
         \/ /\ outbox_jobs'[j] = outbox_jobs[j]
            /\ classifications'[j] = classifications[j]
<1> USE OffsetsType DEF IInv, TypeOK
<1>1. CASE Create
  BY <1>1 DEF Create, CreateClassificationJob
<1>2. CASE Claim
  <2>1. PICK w \in Workers, at \in Offsets, locked \in SUBSET Jobs :
          \E chosen \in Batches(at, locked) : ClaimJobs(w, at, chosen)
    BY <1>2 DEF Claim
  <2>2. PICK chosen \in Batches(at, locked) : ClaimJobs(w, at, chosen)
    BY <2>1
  <2>3. chosen \subseteq Claimable(at)
    BY BatchesClaimable
  <2>4. CASE j \in Expired(at)
    BY <2>2, <2>4 DEF ClaimJobs, Expired, Stale
  <2>5. CASE j \notin Expired(at) /\ j \in chosen
    <3>1. outbox_jobs'[j] = ClaimedRow(outbox_jobs[j], w, at, FreshToken(j))
      BY <2>2, <2>5 DEF ClaimJobs
    <3>2. FreshToken(j) \in Nat
      BY DEF FreshToken
    <3>3. outbox_jobs[j].state \in {"pending", "retry_pending", "processing"}
      BY <2>3, <2>5 DEF Claimable, Stale
    <3>4. HasAttemptLeft(outbox_jobs[j])
      BY <2>3, <2>5 DEF Claimable, AllSafe, Safe, HasAttemptLeft
    <3> QED
      BY <2>2, <3>1, <3>2, <3>3, <3>4 DEF ClaimJobs
  <2>6. CASE j \notin Expired(at) /\ j \notin chosen
    BY <2>2, <2>6 DEF ClaimJobs
  <2> QED
    BY <2>4, <2>5, <2>6
<1>3. CASE Fail
  <2>1. PICK k \in Jobs, reason \in Errors, at \in Offsets :
          \E token \in 1..minted[k] : FailJob(k, token, reason, reason \in RetryableErrors, at)
    BY <1>3 DEF Fail
  <2>2. CASE k = j
    <3>1. PICK token \in 1..minted[j] : FailJob(j, token, reason, reason \in RetryableErrors, at)
      BY <2>1, <2>2
    <3>2. token \in Nat /\ at \in Int
      OBVIOUS
    <3> QED
      BY <3>1, <3>2
  <2>3. CASE k # j
    BY <2>1, <2>3 DEF FailJob
  <2> QED
    BY <2>2, <2>3
<1>4. CASE Complete
  <2>1. PICK k \in Jobs : \E token \in 1..minted[k] : CompleteClassification(k, token)
    BY <1>4 DEF Complete
  <2>2. CASE k = j
    BY <2>1, <2>2
  <2>3. CASE k # j
    BY <2>1, <2>3 DEF CompleteClassification
  <2> QED
    BY <2>2, <2>3
<1>5. CASE Retry
  <2>1. PICK k \in Jobs, at \in Offsets : RetryJob(k, at)
    BY <1>5 DEF Retry
  <2>2. CASE k = j
    BY <2>1, <2>2
  <2>3. CASE k # j
    BY <2>1, <2>3 DEF RetryJob
  <2> QED
    BY <2>2, <2>3
<1>6. CASE TimePasses
  BY <1>6 DEF TimePasses, AgedRow
<1> QED
  BY <1>1, <1>2, <1>3, <1>4, <1>5, <1>6 DEF Next

\* A completed job keeps its result whatever is called afterwards.
THEOREM CompletedStays == Spec => CompletedIsFinal
<1> DEFINE Keeps == \A j \in Jobs :
                      outbox_jobs[j].state = "completed" =>
                        /\ outbox_jobs'[j].state = "completed"
                        /\ outbox_jobs'[j].result_id = outbox_jobs[j].result_id
                        /\ classifications'[j] = classifications[j]
<1>1. IInv /\ [Next]_vars => [Keeps]_vars
  <2> SUFFICES ASSUME IInv, Next, NEW j \in Jobs, outbox_jobs[j].state = "completed"
               PROVE  /\ outbox_jobs'[j].state = "completed"
                      /\ outbox_jobs'[j].result_id = outbox_jobs[j].result_id
                      /\ classifications'[j] = classifications[j]
    OBVIOUS
  <2>1. outbox_jobs[j] \in JobRow
    BY DEF IInv, TypeOK
  <2>2. \/ outbox_jobs'[j] = AgedRow(outbox_jobs[j]) /\ classifications'[j] = classifications[j]
        \/ outbox_jobs'[j] = outbox_jobs[j] /\ classifications'[j] = classifications[j]
    BY StepOfJob DEF CreateClassificationJob, FailJob, CompleteClassification, MayComplete,
                     HoldsClaim, RetryJob, MayRetry
  <2> QED
    BY <2>1, <2>2, AgedRowType
<1> QED
  BY <1>1, Inductive, PTL DEF Spec, CompletedIsFinal

-----------------------------------------------------------------------------
(* Refinement *)

LEMMA LifeInit == Init => \A j \in Jobs : Life(j)!Init
  BY DEF Init, Life!Init, NoRow, Phase, PhaseOf, StoredResult

\* Rows that agree on these columns are at the same point of the lifecycle.
LEMMA SameLife ==
  ASSUME NEW j \in Jobs, outbox_jobs'[j].state = outbox_jobs[j].state,
         outbox_jobs'[j].attempt_count = outbox_jobs[j].attempt_count,
         outbox_jobs'[j].max_attempts = outbox_jobs[j].max_attempts,
         outbox_jobs'[j].result_id = outbox_jobs[j].result_id,
         classifications'[j] = classifications[j]
  PROVE  UNCHANGED Life(j)!lifeVars
BY DEF Life!lifeVars, Phase, StoredResult

LEMMA LifeStep ==
  ASSUME IInv, Next, NEW j \in Jobs
  PROVE  [Life(j)!Next]_(Life(j)!lifeVars)
<1> DEFINE row == outbox_jobs[j]
           new == outbox_jobs'[j]
<1> USE DEF Phase, PhaseOf, StoredResult
<1>1. /\ row \in JobRow
      /\ Safe(row, classifications[j], minted[j], granted[j], settled[j])
      /\ minted[j] \in Nat
  BY DEF IInv, AllSafe, TypeOK
<1>2. ASSUME NEW m \in MaxAttemptsArgs, CreateClassificationJob(j, m)
      PROVE  Life(j)!Submit
  <2>1. row.state = "absent" /\ row.attempt_count = 0 /\ row.result_id = Null
    BY <1>1, <1>2 DEF Safe, CreateClassificationJob
  <2>2. /\ new.state = "pending" /\ new.attempt_count = 0 /\ new.max_attempts = m
        /\ new.result_id = Null
    BY <1>2 DEF CreateClassificationJob, NoRow, IInv, TypeOK
  <2> QED
    BY <2>1, <2>2 DEF Life!Submit
<1>3. ASSUME row.state = "processing", new = ExpiredRow(row),
             classifications'[j] = classifications[j]
      PROVE  Life(j)!GiveUp
  <2>1. /\ new.state = "failed" /\ new.attempt_count = row.attempt_count
        /\ new.max_attempts = row.max_attempts /\ new.result_id = row.result_id
    BY <1>1, <1>3 DEF ExpiredRow, Released, JobRow
  <2> QED
    BY <1>3, <2>1 DEF Life!GiveUp
<1>4. ASSUME row.state \in {"pending", "retry_pending", "processing"}, HasAttemptLeft(row),
             NEW w \in Workers, NEW at \in Int, NEW token \in Nat,
             new = ClaimedRow(row, w, at, token), classifications'[j] = classifications[j]
      PROVE  Life(j)!Start
  <2>1. /\ new.state = "processing" /\ new.attempt_count = row.attempt_count + 1
        /\ new.max_attempts = row.max_attempts /\ new.result_id = row.result_id
    BY <1>1, <1>4 DEF ClaimedRow, JobRow
  <2> QED
    BY <1>4, <2>1 DEF Life!Start, HasAttemptLeft
<1>5. ASSUME NEW token \in Nat, NEW reason \in Errors, NEW at \in Int,
             FailJob(j, token, reason, reason \in RetryableErrors, at)
      PROVE  Life(j)!PutBack \/ Life(j)!GiveUp
  <2>1. row.state = "processing" /\ classifications'[j] = classifications[j]
    BY <1>5 DEF FailJob, HoldsClaim
  <2>2. /\ \/ new.state = "retry_pending" /\ HasAttemptLeft(row)
           \/ new.state = "failed"
        /\ new.attempt_count = row.attempt_count
        /\ new.max_attempts = row.max_attempts /\ new.result_id = row.result_id
    BY <1>1, <1>5 DEF FailJob, Released, JobRow, IInv, TypeOK
  <2> QED
    BY <2>1, <2>2 DEF Life!PutBack, Life!GiveUp, HasAttemptLeft
<1>6. ASSUME NEW token \in Nat, CompleteClassification(j, token)
      PROVE  Life(j)!Finish
  <2>1. row.state = "processing" /\ classifications[j] = <<>> /\ token = row.attempt_count
    BY <1>1, <1>6 DEF CompleteClassification, MayComplete, HoldsClaim, Safe
  <2>2. /\ new.state = "completed" /\ new.result_id = 1
        /\ new.attempt_count = row.attempt_count /\ new.max_attempts = row.max_attempts
    BY <1>1, <1>6, <2>1 DEF CompleteClassification, Released, JobRow, IInv, TypeOK
  <2>3. classifications'[j] = <<token>>
    BY <1>6, <2>1 DEF CompleteClassification, IInv, TypeOK
  <2>4. 1 # Null
    BY ConstantsAssumption DEF ConstantsAssumption
  <2> QED
    BY <2>1, <2>2, <2>3, <2>4 DEF Life!Finish
<1>7. ASSUME NEW at \in Int, RetryJob(j, at)
      PROVE  Life(j)!Reopen
  <2>1. row.state = "failed" /\ classifications'[j] = classifications[j]
    BY <1>7 DEF RetryJob, MayRetry
  <2>2. /\ new.state = "retry_pending" /\ new.attempt_count = row.attempt_count
        /\ new.max_attempts = row.attempt_count + 1 /\ new.result_id = row.result_id
    BY <1>1, <1>7 DEF RetryJob, Released, JobRow, IInv, TypeOK
  <2> QED
    BY <2>1, <2>2 DEF Life!Reopen
<1>8. ASSUME new = AgedRow(row) \/ new = row, classifications'[j] = classifications[j]
      PROVE  UNCHANGED Life(j)!lifeVars
  BY <1>1, <1>8, AgedRowType, SameLife
<1> QED
  BY StepOfJob, <1>2, <1>3, <1>4, <1>5, <1>6, <1>7, <1>8 DEF Life!Next

\* The queue implements the abstract lifecycle for every job.
THEOREM ImplementsLifecycle == Spec => EveryJobLives
<1> DEFINE Steps == \A j \in Jobs : [Life(j)!Next]_(Life(j)!lifeVars)
<1>1. IInv /\ [Next]_vars => [Steps]_vars
  BY LifeStep
<1> QED
  BY <1>1, LifeInit, Inductive, PTL DEF Spec, EveryJobLives

-----------------------------------------------------------------------------
(* claim_jobs statement by statement (ClaimLocks): the inductive invariant, one claim at a time *)

\* What ClaimHoldsItsRows says of one claim.
RowsHeld(w) ==
  /\ LockedBy(w) = claim[w].written \cup claim[w].job_ids
  /\ claim[w].written \ claim[w].job_ids \subseteq Expired(claim[w].claimed_at)
  /\ claim[w].job_ids \subseteq Claimable(claim[w].claimed_at)
  /\ Cardinality(claim[w].job_ids) <= BatchSize

\* What a claim has done so far: no row that is expired at its clock reading has escaped the
\* expiring UPDATE, and a claim that may commit has updated the rows it selected.
DoneSoFar(w) ==
  /\ claim[w].pc = "idle" => claim[w] = NoClaim
  /\ claim[w].pc = "expire" =>
       /\ claim[w].job_ids = {}
       /\ Expired(claim[w].claimed_at) \subseteq claim[w].found \cup claim[w].written
  /\ claim[w].pc \in {"update", "commit"} =>
       Expired(claim[w].claimed_at) \subseteq claim[w].written
  /\ claim[w].pc = "commit" => claim[w].job_ids \subseteq claim[w].written

LockType ==
  /\ locked_by \in [Jobs -> Workers \cup {"call", Null}]
  /\ claim \in [Workers -> Claims]

ClaimInv == IInv /\ LockType /\ \A w \in Workers : RowsHeld(w) /\ DoneSoFar(w)

LEMMA ClaimInvImplies == ClaimInv => ClaimHoldsItsRows
  BY DEF ClaimInv, LockType, RowsHeld, ClaimHoldsItsRows

LEMMA LockConstants ==
  /\ MaxLag \in Nat /\ MaxLead \in Nat /\ Lease \in Nat /\ Lease > MaxLag + MaxLead
  /\ BatchSize \in Nat /\ Earliest = -MaxLag
  /\ Null \notin Int /\ Null \notin Workers /\ "call" \notin Workers /\ "call" # Null
  BY ConstantsAssumption, LeaseAssumption, CallAssumption DEF ConstantsAssumption, Earliest

LEMMA ClaimFacts ==
  ASSUME ClaimInv, NEW w \in Workers
  PROVE  /\ claim[w] \in Claims
         /\ claim[w].pc \in {"idle", "expire", "update", "commit"}
         /\ claim[w].claimed_at \in Offsets /\ claim[w].claimed_at \in Int
         /\ claim[w].claimed_at <= MaxLead /\ -MaxLag <= claim[w].claimed_at
         /\ claim[w].found \subseteq Jobs /\ claim[w].job_ids \subseteq Jobs
         /\ claim[w].written \subseteq Jobs
         /\ RowsHeld(w) /\ DoneSoFar(w)
<1>1. claim[w] \in Claims /\ RowsHeld(w) /\ DoneSoFar(w)
  BY DEF ClaimInv, LockType
<1>2. claim[w].claimed_at \in Offsets
  BY <1>1 DEF Claims
<1> QED
  BY <1>1, <1>2, LockConstants DEF Claims, Offsets

LEMMA StoredRow ==
  ASSUME ClaimInv, NEW j \in Jobs
  PROVE  /\ outbox_jobs[j] \in JobRow
         /\ outbox_jobs[j].next_attempt_at \in Int
         /\ outbox_jobs[j].state = "processing" => outbox_jobs[j].claimed_at \in Int
<1>1. outbox_jobs[j] \in JobRow
  BY DEF ClaimInv, IInv, TypeOK
<1>2. (outbox_jobs[j].claimed_at # Null) <=> (outbox_jobs[j].state = "processing")
  BY DEF ClaimInv, IInv, AllSafe, Safe
<1> QED
  BY <1>1, <1>2 DEF JobRow

LEMMA IdleFacts ==
  /\ NoClaim.pc = "idle" /\ NoClaim.claimed_at = 0 /\ NoClaim.found = {}
  /\ NoClaim.job_ids = {} /\ NoClaim.written = {}
  /\ NoClaim \in Claims
  BY LockConstants DEF NoClaim, Claims, Offsets

\* Nothing that happens to other rows, or makes a row one that is not stale, touches a claim.
LEMMA ClaimLeftAlone ==
  ASSUME ClaimInv, NEW w \in Workers, claim'[w] = claim[w],
         \A j \in Jobs : (locked_by'[j] = w) <=> (locked_by[j] = w),
         \A j \in Jobs : locked_by[j] = w => outbox_jobs'[j] = outbox_jobs[j],
         \A j \in Jobs : \/ outbox_jobs'[j] = outbox_jobs[j]
                         \/ ~ Stale(outbox_jobs'[j], claim[w].claimed_at)
  PROVE  RowsHeld(w)' /\ DoneSoFar(w)'
<1> DEFINE at == claim[w].claimed_at
<1>1. LockedBy(w)' = LockedBy(w)
  BY DEF LockedBy
<1>2. Expired(claim[w].claimed_at)' \subseteq Expired(claim[w].claimed_at)
  BY DEF Expired
<1>3. /\ LockedBy(w) \cap Expired(claim[w].claimed_at) \subseteq Expired(claim[w].claimed_at)'
      /\ LockedBy(w) \cap Claimable(claim[w].claimed_at) \subseteq Claimable(claim[w].claimed_at)'
  BY DEF LockedBy, Expired, Claimable
<1>4. RowsHeld(w) /\ DoneSoFar(w)
  BY ClaimFacts
<1>5. RowsHeld(w)'
  BY <1>1, <1>3, <1>4 DEF RowsHeld
<1>6. DoneSoFar(w)'
  BY <1>2, <1>4 DEF DoneSoFar
<1> QED
  BY <1>5, <1>6

\* A step of w that leaves the tables alone, and all locks but those of w.
LEMMA OwnStep ==
  ASSUME ClaimInv, NEW w \in Workers, UNCHANGED vars, LockType',
         \A u \in Workers \ {w} :
           /\ claim'[u] = claim[u]
           /\ \A j \in Jobs : (locked_by'[j] = u) <=> (locked_by[j] = u),
         RowsHeld(w)', DoneSoFar(w)'
  PROVE  ClaimInv'
<1>1. IInv'
  BY NextSafe DEF ClaimInv
<1>2. ASSUME NEW u \in Workers, u # w
      PROVE  RowsHeld(u)' /\ DoneSoFar(u)'
  BY <1>2, ClaimLeftAlone DEF vars
<1> QED
  BY <1>1, <1>2 DEF ClaimInv

-----------------------------------------------------------------------------
(* The statements of a claim *)

LEMMA BeginClaimInv ==
  ASSUME ClaimInv, NEW w \in Workers, NEW at \in Offsets, BeginClaim(w, at)
  PROVE  ClaimInv'
<1> DEFINE c == [NoClaim EXCEPT !.pc = "expire", !.claimed_at = at, !.found = Expired(at)]
<1>1. UNCHANGED vars /\ locked_by' = locked_by /\ claim' = [claim EXCEPT ![w] = c]
  BY DEF BeginClaim
<1>2. /\ c \in Claims /\ c.pc = "expire" /\ c.claimed_at = at /\ c.found = Expired(at)
      /\ c.job_ids = {} /\ c.written = {}
  BY IdleFacts DEF Claims, Expired, NoClaim
<1>3. claim'[w] = c
  BY <1>1 DEF ClaimInv, LockType
<1> HIDE DEF c
<1>4. LockType'
  BY <1>1, <1>2 DEF ClaimInv, LockType
<1>5. LockedBy(w)' = {}
  <2>1. claim[w] = NoClaim
    BY ClaimFacts DEF BeginClaim, DoneSoFar
  <2>2. LockedBy(w) = {}
    BY <2>1, ClaimFacts, IdleFacts DEF RowsHeld
  <2> QED
    BY <1>1, <2>2 DEF LockedBy
<1>6. Cardinality({}) <= BatchSize
  BY FS_EmptySet, LockConstants
<1>7. RowsHeld(w)'
  BY <1>2, <1>3, <1>5, <1>6 DEF RowsHeld
<1>8. Expired(at)' = Expired(at)
  BY <1>1 DEF Expired, vars
<1>9. DoneSoFar(w)'
  BY <1>2, <1>3, <1>8 DEF DoneSoFar
<1> QED
  BY <1>1, <1>4, <1>7, <1>9, OwnStep DEF ClaimInv, LockType

LEMMA ExpireRowInv ==
  ASSUME ClaimInv, NEW w \in Workers, NEW j \in Jobs, ExpireRow(w, j)
  PROVE  ClaimInv'
<1> DEFINE c == claim[w]
<1>0. /\ c.pc = "expire" /\ j \in c.found /\ locked_by[j] = Null /\ UNCHANGED vars
      /\ c.job_ids = {}
  BY ClaimFacts DEF ExpireRow, DoneSoFar
<1>1. c \in Claims /\ c.written \cup {j} \subseteq Jobs /\ c.found \ {j} \subseteq Jobs
  BY ClaimFacts
<1>2. CASE StillExpired(w, j)
  <2>1. /\ locked_by' = [locked_by EXCEPT ![j] = w]
        /\ claim'[w] = [c EXCEPT !.found = @ \ {j}, !.written = @ \cup {j}]
        /\ claim' = [claim EXCEPT ![w] = [c EXCEPT !.found = @ \ {j}, !.written = @ \cup {j}]]
    BY <1>2 DEF ExpireRow, ClaimInv, LockType
  <2>2. /\ claim'[w] \in Claims
        /\ claim'[w].pc = c.pc /\ claim'[w].claimed_at = c.claimed_at
        /\ claim'[w].found = c.found \ {j} /\ claim'[w].written = c.written \cup {j}
        /\ claim'[w].job_ids = {}
    <3> DEFINE found == c.found \ {j}
               written == c.written \cup {j}
    <3>1. claim'[w] = [c EXCEPT !.found = found, !.written = written]
      BY <2>1
    <3>2. found \in SUBSET Jobs /\ written \in SUBSET Jobs
      BY <1>1
    <3> HIDE DEF found, written, c
    <3>3. /\ claim'[w] \in Claims
          /\ claim'[w].pc = c.pc /\ claim'[w].claimed_at = c.claimed_at
          /\ claim'[w].found = found /\ claim'[w].written = written
          /\ claim'[w].job_ids = c.job_ids
      BY <1>1, <3>1, <3>2 DEF Claims
    <3> QED
      BY <1>0, <3>3 DEF found, written
  <2>3. LockType'
    BY <2>1, <2>2 DEF ClaimInv, LockType
  <2>4. LockedBy(w)' = LockedBy(w) \cup {j}
    BY <2>1 DEF LockedBy, ClaimInv, LockType
  <2>5. /\ Expired(c.claimed_at)' = Expired(c.claimed_at)
        /\ j \in Expired(c.claimed_at)
    BY <1>0, <1>2, <2>2 DEF StillExpired, Expired, vars
  <2>6. RowsHeld(w)'
    <3>1. /\ LockedBy(w) = c.written /\ c.written \subseteq Expired(c.claimed_at)
          /\ Cardinality({}) <= BatchSize
      BY <1>0, ClaimFacts DEF RowsHeld
    <3> QED
      BY <2>2, <2>4, <2>5, <3>1 DEF RowsHeld
  <2>7. DoneSoFar(w)'
    <3>1. Expired(c.claimed_at) \subseteq c.found \cup c.written
      BY <1>0, ClaimFacts DEF DoneSoFar
    <3> QED
      BY <1>0, <2>2, <2>5, <3>1 DEF DoneSoFar
  <2> QED
    BY <1>0, <2>1, <2>3, <2>6, <2>7, LockConstants, OwnStep DEF ClaimInv, LockType
<1>3. CASE ~ StillExpired(w, j)
  <2>1. /\ locked_by' = locked_by
        /\ claim'[w] = [c EXCEPT !.found = @ \ {j}]
        /\ claim' = [claim EXCEPT ![w] = [c EXCEPT !.found = @ \ {j}]]
    BY <1>3 DEF ExpireRow, ClaimInv, LockType
  <2>2. /\ claim'[w] \in Claims
        /\ claim'[w].pc = c.pc /\ claim'[w].claimed_at = c.claimed_at
        /\ claim'[w].found = c.found \ {j} /\ claim'[w].written = c.written
        /\ claim'[w].job_ids = {}
    <3> DEFINE found == c.found \ {j}
    <3>1. claim'[w] = [c EXCEPT !.found = found]
      BY <2>1
    <3>2. found \in SUBSET Jobs
      BY <1>1
    <3> HIDE DEF found, c
    <3>3. /\ claim'[w] \in Claims
          /\ claim'[w].pc = c.pc /\ claim'[w].claimed_at = c.claimed_at
          /\ claim'[w].found = found /\ claim'[w].written = c.written
          /\ claim'[w].job_ids = c.job_ids
      BY <1>1, <3>1, <3>2 DEF Claims
    <3> QED
      BY <1>0, <3>3 DEF found
  <2>3. LockType'
    BY <2>1, <2>2 DEF ClaimInv, LockType
  <2>4. LockedBy(w)' = LockedBy(w)
    BY <2>1 DEF LockedBy
  <2>5. /\ Expired(c.claimed_at)' = Expired(c.claimed_at)
        /\ j \notin Expired(c.claimed_at)
    BY <1>0, <1>3, <2>2 DEF StillExpired, Expired, vars
  <2>6. RowsHeld(w)'
    <3>1. /\ LockedBy(w) = c.written /\ c.written \subseteq Expired(c.claimed_at)
          /\ Cardinality({}) <= BatchSize
      BY <1>0, ClaimFacts DEF RowsHeld
    <3> QED
      BY <2>2, <2>4, <2>5, <3>1 DEF RowsHeld
  <2>7. DoneSoFar(w)'
    <3>1. Expired(c.claimed_at) \subseteq c.found \cup c.written
      BY <1>0, ClaimFacts DEF DoneSoFar
    <3> QED
      BY <1>0, <2>2, <2>5, <3>1 DEF DoneSoFar
  <2> QED
    BY <1>0, <2>1, <2>3, <2>6, <2>7, OwnStep DEF ClaimInv, LockType
<1> QED
  BY <1>2, <1>3

LEMMA BatchFacts ==
  ASSUME NEW at, NEW locked \in SUBSET Jobs, NEW chosen \in Batches(at, locked)
  PROVE  /\ chosen \subseteq Claimable(at) \ locked
         /\ Cardinality(chosen) <= BatchSize
<1> DEFINE free == Claimable(at) \ locked
<1>1. chosen \subseteq free
  BY DEF Batches
<1>2. IsFiniteSet(free) /\ Cardinality(free) \in Nat
  <2>1. free \subseteq Jobs
    BY DEF Claimable
  <2> QED
    BY <2>1, JobsAssumption, FS_Subset, FS_CardinalityType
<1>3. Cardinality(chosen)
        = IF Cardinality(free) <= BatchSize THEN Cardinality(free) ELSE BatchSize
  BY DEF Batches
<1> HIDE DEF free
<1>4. Cardinality(chosen) <= BatchSize
  BY <1>2, <1>3, LockConstants
<1> QED
  BY <1>1, <1>4 DEF free

LEMMA SelectJobsInv ==
  ASSUME ClaimInv, NEW w \in Workers, SelectJobs(w)
  PROVE  ClaimInv'
<1> DEFINE c == claim[w]
<1>1. PICK ids \in Batches(c.claimed_at, Locked) :
        /\ locked_by' = SelectedForUpdate(w, ids)
        /\ claim' = [claim EXCEPT ![w].job_ids = ids,
                                  ![w].pc = IF ids = {} THEN "commit" ELSE "update"]
  BY DEF SelectJobs
<1>2. c.pc = "expire" /\ c.found = {} /\ c.job_ids = {} /\ UNCHANGED vars
  BY ClaimFacts DEF SelectJobs, DoneSoFar
<1>3. /\ ids \subseteq Claimable(c.claimed_at) /\ ids \cap Locked = {}
      /\ Cardinality(ids) <= BatchSize /\ ids \in SUBSET Jobs
  <2>1. Locked \in SUBSET Jobs
    BY DEF Locked
  <2> QED
    BY <2>1, BatchFacts DEF Claimable
<1>4. /\ claim'[w] \in Claims /\ claim'[w].claimed_at = c.claimed_at
      /\ claim'[w].pc \in {"update", "commit"} /\ (claim'[w].pc = "commit" => ids = {})
      /\ claim'[w].written = c.written /\ claim'[w].job_ids = ids
  <2> DEFINE next_pc == IF ids = {} THEN "commit" ELSE "update"
  <2>1. claim'[w] = [c EXCEPT !.job_ids = ids, !.pc = next_pc]
    BY <1>1 DEF ClaimInv, LockType
  <2>2. next_pc \in {"update", "commit"} /\ (next_pc = "commit" => ids = {})
    OBVIOUS
  <2>3. c \in Claims
    BY ClaimFacts
  <2> HIDE DEF c, next_pc
  <2> QED
    BY <1>3, <2>1, <2>2, <2>3 DEF Claims
<1>5. LockType'
  <2>1. locked_by' \in [Jobs -> Workers \cup {"call", Null}]
    BY <1>1 DEF SelectedForUpdate, ClaimInv, LockType
  <2>2. claim' \in [Workers -> Claims]
    <3>1. claim' = [claim EXCEPT ![w] = claim'[w]]
      BY <1>1 DEF ClaimInv, LockType
    <3> QED
      BY <1>4, <3>1 DEF ClaimInv, LockType
  <2> QED
    BY <2>1, <2>2 DEF LockType
<1>6. LockedBy(w)' = LockedBy(w) \cup ids
  BY <1>1, <1>3 DEF SelectedForUpdate, LockedBy
<1>7. /\ Expired(claim[w].claimed_at)' = Expired(c.claimed_at)
      /\ Claimable(claim[w].claimed_at)' = Claimable(c.claimed_at)
  BY <1>2, <1>4 DEF Expired, Claimable, vars
<1>8. RowsHeld(w)'
  <2>1. LockedBy(w) = c.written /\ c.written \subseteq Expired(c.claimed_at)
    BY <1>2, ClaimFacts DEF RowsHeld
  <2> QED
    BY <1>3, <1>4, <1>6, <1>7, <2>1 DEF RowsHeld
<1>9. DoneSoFar(w)'
  <2>1. Expired(c.claimed_at) \subseteq c.written
    BY <1>2, ClaimFacts DEF DoneSoFar
  <2> QED
    BY <1>4, <1>7, <2>1 DEF DoneSoFar
<1>10. ASSUME NEW u \in Workers \ {w}
       PROVE  /\ claim'[u] = claim[u]
              /\ \A j \in Jobs : (locked_by'[j] = u) <=> (locked_by[j] = u)
  BY <1>1, <1>3, LockConstants DEF SelectedForUpdate, Locked, ClaimInv, LockType
<1> QED
  BY <1>2, <1>5, <1>8, <1>9, <1>10, OwnStep

LEMMA UpdateJobsInv ==
  ASSUME ClaimInv, NEW w \in Workers, UpdateJobs(w)
  PROVE  ClaimInv'
<1> DEFINE c == claim[w]
           ids == c.job_ids
<1>1. /\ c.pc = "update" /\ UNCHANGED vars
      /\ \A j \in ids : locked_by[j] \in {Null, w}
      /\ locked_by' = SelectedForUpdate(w, ids)
      /\ claim' = [claim EXCEPT ![w].pc = "commit", ![w].written = @ \cup ids]
  BY DEF UpdateJobs
<1>2. /\ c \in Claims /\ ids \subseteq Jobs /\ RowsHeld(w)
      /\ Expired(c.claimed_at) \subseteq c.written
  BY <1>1, ClaimFacts DEF DoneSoFar
<1>3. /\ claim'[w] \in Claims /\ claim'[w].claimed_at = c.claimed_at
      /\ claim'[w].pc = "commit" /\ claim'[w].job_ids = ids
      /\ claim'[w].written = c.written \cup ids
  <2> DEFINE written == c.written \cup ids
  <2>1. claim'[w] = [c EXCEPT !.pc = "commit", !.written = written]
    BY <1>1 DEF ClaimInv, LockType
  <2>2. written \in SUBSET Jobs
    BY ClaimFacts
  <2> HIDE DEF c, written
  <2>3. /\ claim'[w] \in Claims /\ claim'[w].claimed_at = c.claimed_at
        /\ claim'[w].pc = "commit" /\ claim'[w].job_ids = c.job_ids
        /\ claim'[w].written = written
    BY <1>2, <2>1, <2>2 DEF Claims
  <2> QED
    BY <2>3 DEF written
<1>4. LockType'
  <2>1. locked_by' \in [Jobs -> Workers \cup {"call", Null}]
    BY <1>1 DEF SelectedForUpdate, ClaimInv, LockType
  <2>2. claim' \in [Workers -> Claims]
    <3>1. claim' = [claim EXCEPT ![w] = claim'[w]]
      BY <1>1 DEF ClaimInv, LockType
    <3> QED
      BY <1>3, <3>1 DEF ClaimInv, LockType
  <2> QED
    BY <2>1, <2>2 DEF LockType
<1>5. LockedBy(w)' = LockedBy(w) \cup ids
  BY <1>1, <1>2 DEF SelectedForUpdate, LockedBy
<1>6. /\ Expired(claim[w].claimed_at)' = Expired(c.claimed_at)
      /\ Claimable(claim[w].claimed_at)' = Claimable(c.claimed_at)
  BY <1>1, <1>3 DEF Expired, Claimable, vars
<1>7. RowsHeld(w)'
  <2>1. (c.written \cup ids) \ ids \subseteq Expired(c.claimed_at)
    BY <1>2 DEF RowsHeld
  <2>2. LockedBy(w)' = (c.written \cup ids) \cup ids
    BY <1>2, <1>5 DEF RowsHeld
  <2> QED
    BY <1>2, <1>3, <1>6, <2>1, <2>2 DEF RowsHeld
<1>8. DoneSoFar(w)'
  BY <1>2, <1>3, <1>6 DEF DoneSoFar
<1>9. ASSUME NEW u \in Workers \ {w}
      PROVE  /\ claim'[u] = claim[u]
             /\ \A j \in Jobs : (locked_by'[j] = u) <=> (locked_by[j] = u)
  BY <1>1, LockConstants DEF SelectedForUpdate, ClaimInv, LockType
<1> QED
  BY <1>1, <1>4, <1>7, <1>8, <1>9, OwnStep

-----------------------------------------------------------------------------
(* The end of a claim *)

LEMMA ReleaseFacts ==
  ASSUME ClaimInv, NEW w \in Workers, Release(w)
  PROVE  /\ LockType' /\ RowsHeld(w)' /\ DoneSoFar(w)'
         /\ \A u \in Workers \ {w} :
              /\ claim'[u] = claim[u]
              /\ \A j \in Jobs : (locked_by'[j] = u) <=> (locked_by[j] = u)
<1>1. /\ locked_by' = [j \in Jobs |-> IF locked_by[j] = w THEN Null ELSE locked_by[j]]
      /\ claim' = [claim EXCEPT ![w] = NoClaim]
  BY DEF Release
<1>2. LockType'
  BY <1>1, IdleFacts DEF ClaimInv, LockType
<1>3. claim'[w] = NoClaim /\ LockedBy(w)' = {}
  BY <1>1, LockConstants DEF ClaimInv, LockType, LockedBy
<1>4. Cardinality({}) <= BatchSize
  BY FS_EmptySet, LockConstants
<1>5. RowsHeld(w)'
  BY <1>3, <1>4, IdleFacts DEF RowsHeld
<1>6. DoneSoFar(w)'
  BY <1>3, IdleFacts DEF DoneSoFar
<1>7. ASSUME NEW u \in Workers \ {w}
      PROVE  /\ claim'[u] = claim[u]
             /\ \A j \in Jobs : (locked_by'[j] = u) <=> (locked_by[j] = u)
  BY <1>1, LockConstants DEF ClaimInv, LockType
<1> QED
  BY <1>2, <1>5, <1>6, <1>7

LEMMA RollbackClaimInv ==
  ASSUME ClaimInv, NEW w \in Workers, RollbackClaim(w)
  PROVE  ClaimInv'
  BY ReleaseFacts, OwnStep DEF RollbackClaim

\* The transaction that commits has done what the one-step claim of the queue does, with the
\* rows it holds as the batch: every other row may be locked by somebody else.
LEMMA CommitIsClaim ==
  ASSUME ClaimInv, NEW w \in Workers, CommitClaim(w)
  PROVE  Claim
<1> DEFINE c == claim[w]
           locked == Jobs \ c.job_ids
<1>1. /\ c.pc = "commit" /\ c.claimed_at \in Offsets /\ c.job_ids \subseteq Jobs
      /\ c.job_ids \subseteq Claimable(c.claimed_at) /\ Cardinality(c.job_ids) <= BatchSize
      /\ c.written \ c.job_ids \subseteq Expired(c.claimed_at)
      /\ Expired(c.claimed_at) \subseteq c.written /\ c.written \subseteq Jobs
  BY ClaimFacts DEF CommitClaim, RowsHeld, DoneSoFar
<1>2. Expired(c.claimed_at) \cap Claimable(c.claimed_at) = {}
  BY DEF Expired, Claimable, Stale
<1>3. Claimable(c.claimed_at) \ locked = c.job_ids
  BY <1>1 DEF Claimable
<1>4. c.job_ids \in Batches(c.claimed_at, locked)
  BY <1>1, <1>3 DEF Batches
<1>5. ClaimJobs(w, c.claimed_at, c.job_ids)
  <2>1. \A j \in Jobs : (j \in c.written /\ j \notin c.job_ids) <=> j \in Expired(c.claimed_at)
    BY <1>1, <1>2
  <2>2. outbox_jobs' = [j \in Jobs |->
          IF j \in Expired(c.claimed_at) THEN ExpiredRow(outbox_jobs[j])
          ELSE IF j \in c.job_ids
               THEN ClaimedRow(outbox_jobs[j], w, c.claimed_at, FreshToken(j))
          ELSE outbox_jobs[j]]
    BY <1>1, <1>2, <2>1 DEF CommitClaim
  <2> QED
    BY <2>2 DEF CommitClaim, ClaimJobs
<1>6. locked \in SUBSET Jobs
  OBVIOUS
<1> HIDE DEF c, locked
<1> QED
  BY <1>1, <1>4, <1>5, <1>6 DEF Claim

LEMMA CommitClaimInv ==
  ASSUME ClaimInv, NEW w \in Workers, CommitClaim(w)
  PROVE  ClaimInv'
<1> DEFINE c == claim[w]
<1>1. IInv'
  BY CommitIsClaim, NextSafe DEF ClaimInv, Next
<1>2. Release(w)
  BY DEF CommitClaim
<1>3. ASSUME NEW u \in Workers \ {w}
      PROVE  RowsHeld(u)' /\ DoneSoFar(u)'
  <2>1. ASSUME NEW j \in Jobs, outbox_jobs'[j] # outbox_jobs[j]
        PROVE  locked_by[j] = w
    <3>1. j \in c.job_ids \/ j \in c.written
      BY <2>1 DEF CommitClaim
    <3> QED
      BY <3>1, ClaimFacts DEF RowsHeld, LockedBy
  <2>2. ASSUME NEW j \in Jobs, outbox_jobs'[j] # outbox_jobs[j]
        PROVE  ~ Stale(outbox_jobs'[j], claim[u].claimed_at)
    <3>1. outbox_jobs[j] \in JobRow /\ c.claimed_at \in Int /\ -MaxLag <= c.claimed_at
      BY StoredRow, ClaimFacts
    <3>2. CASE j \in c.job_ids
      <4>1. outbox_jobs'[j] = ClaimedRow(outbox_jobs[j], w, c.claimed_at, FreshToken(j))
        BY <3>2 DEF CommitClaim
      <4>2. outbox_jobs'[j].claimed_at = c.claimed_at
        BY <3>1, <4>1 DEF ClaimedRow, JobRow
      <4>3. claim[u].claimed_at \in Int /\ claim[u].claimed_at <= MaxLead
        BY ClaimFacts
      <4> HIDE DEF c
      <4>4. ~ (c.claimed_at <= claim[u].claimed_at - Lease)
        BY <3>1, <4>3, LockConstants
      <4> QED
        BY <4>2, <4>4 DEF Stale
    <3>3. CASE j \notin c.job_ids
      <4>1. outbox_jobs'[j] = ExpiredRow(outbox_jobs[j])
        BY <2>2, <3>3 DEF CommitClaim
      <4>2. outbox_jobs'[j].state = "failed"
        BY <3>1, <4>1 DEF ExpiredRow, Released, JobRow
      <4> QED
        BY <4>2 DEF Stale
    <3> QED
      BY <3>2, <3>3
  <2>3. \A j \in Jobs : locked_by[j] = u => outbox_jobs'[j] = outbox_jobs[j]
    BY <2>1
  <2>4. /\ claim'[u] = claim[u]
        /\ \A j \in Jobs : (locked_by'[j] = u) <=> (locked_by[j] = u)
    BY <1>2, ReleaseFacts
  <2> QED
    BY <2>2, <2>3, <2>4, ClaimLeftAlone
<1>4. LockType' /\ RowsHeld(w)' /\ DoneSoFar(w)'
  BY <1>2, ReleaseFacts
<1> QED
  BY <1>1, <1>3, <1>4 DEF ClaimInv

-----------------------------------------------------------------------------
(* The transactions beside a claim, and time *)

\* A step of the queue that changes rows no claim has locked, and leaves none of them stale.
LEMMA StepBeside ==
  ASSUME ClaimInv, [Next]_vars, LockType', claim' = claim,
         \A w \in Workers, j \in Jobs : (locked_by'[j] = w) <=> (locked_by[j] = w),
         \A j \in Jobs : \/ outbox_jobs'[j] = outbox_jobs[j]
                         \/ /\ locked_by[j] \notin Workers
                            /\ outbox_jobs'[j].state # "processing"
  PROVE  ClaimInv'
<1>1. IInv'
  BY NextSafe DEF ClaimInv
<1>2. ASSUME NEW w \in Workers
      PROVE  RowsHeld(w)' /\ DoneSoFar(w)'
  BY ClaimLeftAlone DEF Stale
<1> QED
  BY <1>1, <1>2 DEF ClaimInv

\* A row that does not exist is in nobody's hands.
LEMMA AbsentUnlocked ==
  ASSUME ClaimInv, NEW j \in Jobs, outbox_jobs[j].state = "absent"
  PROVE  locked_by[j] \notin Workers
<1> SUFFICES ASSUME NEW w \in Workers, locked_by[j] = w PROVE FALSE
  OBVIOUS
<1>1. j \in claim[w].written \/ j \in claim[w].job_ids
  BY ClaimFacts DEF RowsHeld, LockedBy
<1>2. j \in Expired(claim[w].claimed_at) \/ j \in Claimable(claim[w].claimed_at)
  BY <1>1, ClaimFacts DEF RowsHeld
<1> QED
  BY <1>2 DEF Expired, Claimable, Stale

LEMMA CreateInv == ASSUME ClaimInv, Create, UNCHANGED lockVars PROVE ClaimInv'
<1>1. PICK j \in Jobs, m \in MaxAttemptsArgs : CreateClassificationJob(j, m)
  BY DEF Create
<1>2. outbox_jobs[j].state = "absent" /\ locked_by[j] \notin Workers
  BY <1>1, AbsentUnlocked DEF CreateClassificationJob
<1>3. \A k \in Jobs \ {j} : outbox_jobs'[k] = outbox_jobs[k]
  BY <1>1 DEF CreateClassificationJob, ClaimInv, IInv, TypeOK
<1>4. outbox_jobs'[j].state = "pending"
  BY <1>1 DEF CreateClassificationJob, NoRow, ClaimInv, IInv, TypeOK
<1>5. /\ locked_by' = locked_by /\ claim' = claim /\ LockType' /\ Next
  BY DEF lockVars, ClaimInv, LockType, Next
<1> QED
  BY <1>2, <1>3, <1>4, <1>5, StepBeside

LEMMA LockRowInv == ASSUME ClaimInv, NEW j \in Jobs, LockRow(j) PROVE ClaimInv'
<1>1. /\ locked_by[j] = Null /\ locked_by' = [locked_by EXCEPT ![j] = "call"]
      /\ UNCHANGED vars /\ claim' = claim
  BY DEF LockRow
<1>2. LockType'
  BY <1>1 DEF ClaimInv, LockType
<1>3. \A w \in Workers, k \in Jobs : (locked_by'[k] = w) <=> (locked_by[k] = w)
  BY <1>1, LockConstants DEF ClaimInv, LockType
<1> QED
  BY <1>1, <1>2, <1>3, StepBeside DEF vars

\* What a one-row transaction writes, as a step of the queue.
LEMMA SettleIsStep ==
  ASSUME ClaimInv, NEW j \in Jobs, SettleRow(j)
  PROVE  /\ [Next]_vars
         /\ \A k \in Jobs \ {j} : outbox_jobs'[k] = outbox_jobs[k]
         /\ outbox_jobs'[j] = outbox_jobs[j] \/ outbox_jobs'[j].state # "processing"
<1>0. outbox_jobs \in [Jobs -> JobRow]
  BY DEF ClaimInv, IInv, TypeOK
<1>1. CASE \E reason \in Errors, at \in Offsets : \E token \in 1..minted[j] :
             FailJob(j, token, reason, reason \in RetryableErrors, at)
  <2>1. PICK reason \in Errors, at \in Offsets : \E token \in 1..minted[j] :
             FailJob(j, token, reason, reason \in RetryableErrors, at)
    BY <1>1
  <2>2. PICK token \in 1..minted[j] : FailJob(j, token, reason, reason \in RetryableErrors, at)
    BY <2>1
  <2>3. Fail
    BY <2>2 DEF Fail
  <2> DEFINE retry == reason \in RetryableErrors /\ HasAttemptLeft(outbox_jobs[j])
             state == IF retry THEN "retry_pending" ELSE "failed"
             next == IF retry THEN at + RetryDelay(outbox_jobs[j].attempt_count)
                     ELSE outbox_jobs[j].next_attempt_at
             new == [Released(outbox_jobs[j]) EXCEPT
                       !.state = state, !.next_attempt_at = next, !.last_error_class = reason]
  <2>4. outbox_jobs' = [outbox_jobs EXCEPT ![j] = new]
    BY <2>2 DEF FailJob, Released
  <2>5. new.state = state /\ state # "processing"
    <3>1. Released(outbox_jobs[j]) \in JobRow
      BY <1>0, ReleasedType
    <3> HIDE DEF next, retry
    <3> QED
      BY <3>1 DEF JobRow
  <2> HIDE DEF new, state
  <2> QED
    BY <1>0, <2>3, <2>4, <2>5 DEF Next
<1>2. CASE \E token \in 1..minted[j] : CompleteClassification(j, token)
  <2>1. PICK token \in 1..minted[j] : CompleteClassification(j, token)
    BY <1>2
  <2>2. Complete
    BY <2>1 DEF Complete
  <2> DEFINE new == [Released(outbox_jobs[j]) EXCEPT
                       !.state = "completed", !.result_id = Len(classifications[j]) + 1,
                       !.last_error_class = Null]
  <2>3. outbox_jobs' = [outbox_jobs EXCEPT ![j] = new]
    BY <2>1 DEF CompleteClassification
  <2>4. new.state = "completed"
    <3>1. Released(outbox_jobs[j]) \in JobRow
      BY <1>0, ReleasedType
    <3> QED
      BY <3>1 DEF JobRow
  <2> HIDE DEF new
  <2> QED
    BY <1>0, <2>2, <2>3, <2>4 DEF Next
<1>3. CASE \E at \in Offsets : RetryJob(j, at)
  <2>1. PICK at \in Offsets : RetryJob(j, at)
    BY <1>3
  <2>2. Retry
    BY <2>1 DEF Retry
  <2> DEFINE new == [Released(outbox_jobs[j]) EXCEPT
                       !.state = "retry_pending",
                       !.max_attempts = outbox_jobs[j].attempt_count + 1,
                       !.next_attempt_at = at]
  <2>3. outbox_jobs' = [outbox_jobs EXCEPT ![j] = new]
    BY <2>1 DEF RetryJob
  <2>4. new.state = "retry_pending"
    <3>1. Released(outbox_jobs[j]) \in JobRow
      BY <1>0, ReleasedType
    <3> QED
      BY <3>1 DEF JobRow
  <2> HIDE DEF new
  <2> QED
    BY <1>0, <2>2, <2>3, <2>4 DEF Next
<1>4. CASE UNCHANGED vars
  BY <1>4 DEF vars
<1> QED
  BY <1>1, <1>2, <1>3, <1>4 DEF SettleRow

LEMMA SettleRowInv == ASSUME ClaimInv, NEW j \in Jobs, SettleRow(j) PROVE ClaimInv'
<1>1. locked_by[j] = "call" /\ locked_by' = [locked_by EXCEPT ![j] = Null] /\ claim' = claim
  BY DEF SettleRow
<1>2. LockType'
  BY <1>1 DEF ClaimInv, LockType
<1>3. /\ \A w \in Workers, k \in Jobs : (locked_by'[k] = w) <=> (locked_by[k] = w)
      /\ locked_by[j] \notin Workers
  BY <1>1, LockConstants DEF ClaimInv, LockType
<1> QED
  BY <1>1, <1>2, <1>3, SettleIsStep, StepBeside

\* A unit of time moves the clock reading of a claim and the timestamps it is compared with
\* alike: the verdict on every row stays.
LEMMA VerdictsKept ==
  ASSUME ClaimInv, TimePasses, NEW at \in Offsets, at > Earliest
  PROVE  Expired(at - 1)' = Expired(at) /\ Claimable(at - 1)' = Claimable(at)
<1> SUFFICES ASSUME NEW j \in Jobs
             PROVE  /\ (j \in Expired(at - 1)') <=> (j \in Expired(at))
                    /\ (j \in Claimable(at - 1)') <=> (j \in Claimable(at))
  BY DEF Expired, Claimable
<1> DEFINE row == outbox_jobs[j]
<1>1. row \in JobRow /\ row.next_attempt_at \in Int /\ at \in Int
  BY StoredRow, LockConstants DEF Offsets
<1>2. outbox_jobs'[j] = AgedRow(row)
  BY DEF TimePasses, AgedRow
<1>3. /\ outbox_jobs'[j].state = row.state
      /\ outbox_jobs'[j].attempt_count = row.attempt_count
      /\ outbox_jobs'[j].max_attempts = row.max_attempts
      /\ outbox_jobs'[j].claimed_at = Aged(row.claimed_at, Earliest - Lease)
      /\ row.state # "absent" =>
           outbox_jobs'[j].next_attempt_at = Aged(row.next_attempt_at, Earliest)
  <2> DEFINE next == IF row.state = "absent" THEN row.next_attempt_at
                     ELSE Aged(row.next_attempt_at, Earliest)
             past == Aged(row.claimed_at, Earliest - Lease)
  <2>1. outbox_jobs'[j] = [row EXCEPT !.next_attempt_at = next, !.claimed_at = past]
    BY <1>2 DEF AgedRow
  <2>2. row.state # "absent" => next = Aged(row.next_attempt_at, Earliest)
    OBVIOUS
  <2> HIDE DEF row, next
  <2> QED
    BY <1>1, <2>1, <2>2 DEF JobRow
<1>4. HasAttemptLeft(outbox_jobs'[j]) <=> HasAttemptLeft(row)
  BY <1>3 DEF HasAttemptLeft
<1>5. Stale(outbox_jobs'[j], at - 1) <=> Stale(row, at)
  <2>1. CASE row.state # "processing"
    BY <1>3, <2>1 DEF Stale
  <2>2. CASE row.state = "processing"
    <3>1. row.claimed_at \in Int /\ row.claimed_at # Null
      BY <2>2, StoredRow, LockConstants
    <3> DEFINE past == row.claimed_at
    <3>2. (Aged(past, Earliest - Lease) <= (at - 1) - Lease) <=> (past <= at - Lease)
      <4>1. past \in Int /\ past # Null
        BY <3>1
      <4> HIDE DEF past, row
      <4> QED
        BY <1>1, <4>1, LockConstants DEF Aged
    <3> QED
      BY <1>3, <2>2, <3>2 DEF Stale
  <2> QED
    BY <2>1, <2>2
<1>6. row.state # "absent" =>
        ((outbox_jobs'[j].next_attempt_at <= at - 1) <=> (row.next_attempt_at <= at))
  <2> DEFINE due == row.next_attempt_at
  <2>1. (Aged(due, Earliest) <= at - 1) <=> (due <= at)
    <3>1. due \in Int /\ due # Null
      BY <1>1, LockConstants
    <3> HIDE DEF due, row
    <3> QED
      BY <1>1, <3>1, LockConstants DEF Aged
  <2> QED
    BY <1>3, <2>1
<1> HIDE DEF row
<1>7. outbox_jobs[j] = row
  BY DEF row
<1> QED
  BY <1>3, <1>4, <1>5, <1>6, <1>7 DEF Expired, Claimable

LEMMA ClaimTimeInv == ASSUME ClaimInv, ClaimTimePasses PROVE ClaimInv'
<1>1. /\ TimePasses /\ locked_by' = locked_by
      /\ \A w \in Workers : claim[w].pc = "idle" \/ claim[w].claimed_at > Earliest
      /\ claim' = [w \in Workers |->
           IF claim[w].pc = "idle" THEN claim[w]
           ELSE [claim[w] EXCEPT !.claimed_at = @ - 1]]
  BY DEF ClaimTimePasses
<1>2. IInv'
  BY <1>1, NextSafe DEF ClaimInv, Next
<1>3. ASSUME NEW w \in Workers
      PROVE  claim'[w] \in Claims /\ RowsHeld(w)' /\ DoneSoFar(w)'
  <2> DEFINE c == claim[w]
  <2>0. LockedBy(w)' = LockedBy(w)
    BY <1>1 DEF LockedBy
  <2>1. CASE c.pc = "idle"
    <3>1. claim'[w] = NoClaim /\ c = NoClaim
      BY <1>1, <2>1, ClaimFacts DEF DoneSoFar
    <3>2. Cardinality({}) <= BatchSize
      BY FS_EmptySet, LockConstants
    <3>3. LockedBy(w)' = {}
      BY <2>0, <3>1, ClaimFacts, IdleFacts DEF RowsHeld
    <3>4. RowsHeld(w)'
      BY <3>1, <3>2, <3>3, IdleFacts DEF RowsHeld
    <3>5. DoneSoFar(w)'
      BY <3>1, IdleFacts DEF DoneSoFar
    <3> QED
      BY <3>1, <3>4, <3>5, IdleFacts
  <2>2. CASE c.pc # "idle"
    <3>1. PICK at \in Offsets : at = c.claimed_at - 1
      BY <1>1, <2>2, ClaimFacts, LockConstants DEF Offsets
    <3>2. c \in Claims /\ c.claimed_at \in Offsets /\ claim'[w] = [c EXCEPT !.claimed_at = at]
      BY <1>1, <2>2, <3>1, ClaimFacts
    <3>3. PICK before \in Offsets : before = c.claimed_at /\ before > Earliest /\ before - 1 = at
      BY <1>1, <2>2, <3>1, <3>2
    <3>4. Expired(at)' = Expired(c.claimed_at) /\ Claimable(at)' = Claimable(c.claimed_at)
      <4>1. /\ Expired(before - 1)' = Expired(before)
            /\ Claimable(before - 1)' = Claimable(before)
        BY <1>1, <3>3, VerdictsKept
      <4> QED
        BY <3>3, <4>1
    <3>5. /\ claim'[w] \in Claims /\ claim'[w].claimed_at = at /\ claim'[w].pc = c.pc
          /\ claim'[w].found = c.found /\ claim'[w].job_ids = c.job_ids
          /\ claim'[w].written = c.written
      <4> HIDE DEF c
      <4> QED
        BY <3>1, <3>2 DEF Claims
    <3>6. /\ Expired(claim[w].claimed_at)' = Expired(c.claimed_at)
          /\ Claimable(claim[w].claimed_at)' = Claimable(c.claimed_at)
      BY <3>4, <3>5
    <3>7. RowsHeld(w)'
      BY <2>0, <3>5, <3>6, ClaimFacts DEF RowsHeld
    <3>8. DoneSoFar(w)'
      BY <2>2, <3>5, <3>6, ClaimFacts DEF DoneSoFar
    <3> QED
      BY <3>5, <3>7, <3>8
  <2> QED
    BY <2>1, <2>2
<1>4. LockType'
  <2>1. claim' \in [Workers -> Claims]
    BY <1>1, <1>3
  <2> QED
    BY <1>1, <2>1 DEF ClaimInv, LockType
<1> QED
  BY <1>2, <1>3, <1>4 DEF ClaimInv

-----------------------------------------------------------------------------
(* Theorems *)

LEMMA ClaimInvStep == ClaimInv /\ [ClaimNext]_claimVars => ClaimInv'
<1> SUFFICES ASSUME ClaimInv, [ClaimNext]_claimVars PROVE ClaimInv'
  OBVIOUS
<1>1. CASE UNCHANGED claimVars
  <2>1. UNCHANGED vars /\ UNCHANGED lockVars
    BY <1>1 DEF claimVars
  <2> QED
    BY <2>1, StepBeside DEF vars, lockVars, ClaimInv, LockType
<1> QED
  BY <1>1, CreateInv, ClaimTimeInv, LockRowInv, SettleRowInv, BeginClaimInv, ExpireRowInv,
     SelectJobsInv, UpdateJobsInv, CommitClaimInv, RollbackClaimInv DEF ClaimNext

LEMMA ClaimInvInit == ClaimInit => ClaimInv
<1> SUFFICES ASSUME ClaimInit PROVE ClaimInv
  OBVIOUS
<1>1. IInv
  BY InitType, InitSafe DEF ClaimInit, IInv
<1>2. LockType
  BY IdleFacts DEF ClaimInit, LockType
<1>3. ASSUME NEW w \in Workers PROVE RowsHeld(w) /\ DoneSoFar(w)
  <2>1. claim[w] = NoClaim /\ LockedBy(w) = {}
    BY LockConstants DEF ClaimInit, LockedBy
  <2>2. Cardinality({}) <= BatchSize
    BY FS_EmptySet, LockConstants
  <2> QED
    BY <2>1, <2>2, IdleFacts DEF RowsHeld, DoneSoFar
<1> QED
  BY <1>1, <1>2, <1>3 DEF ClaimInv

LEMMA ClaimInductive == ClaimSpec => []ClaimInv
  BY ClaimInvInit, ClaimInvStep, PTL DEF ClaimSpec

\* For any number of overlapping claims: from the statement that found them to the end of the
\* transaction the rows of a claim are its own and as it found them, so the UPDATEs by id
\* alone of claim_jobs overwrite nothing.
THEOREM RowsAreHeld == ClaimSpec => []ClaimHoldsItsRows
  BY ClaimInductive, ClaimInvImplies, PTL

\* Every statement of a claim but its commit leaves the tables alone, and the commit is the
\* one-step claim of JobQueue.
LEMMA ClaimStep == ClaimInv /\ [ClaimNext]_claimVars => [Next]_vars
<1> SUFFICES ASSUME ClaimInv, [ClaimNext]_claimVars PROVE [Next]_vars
  OBVIOUS
<1>1. CASE Create /\ UNCHANGED lockVars
  BY <1>1 DEF Next
<1>2. CASE ClaimTimePasses
  BY <1>2 DEF ClaimTimePasses, Next
<1>3. ASSUME NEW j \in Jobs, LockRow(j) \/ SettleRow(j) PROVE [Next]_vars
  BY <1>3, SettleIsStep DEF LockRow
<1>4. ASSUME NEW w \in Workers, NEW at \in Offsets, BeginClaim(w, at) PROVE UNCHANGED vars
  BY <1>4 DEF BeginClaim
<1>5. ASSUME NEW w \in Workers, NEW j \in Jobs, ExpireRow(w, j) PROVE UNCHANGED vars
  BY <1>5 DEF ExpireRow
<1>6. ASSUME NEW w \in Workers, SelectJobs(w) \/ UpdateJobs(w) \/ RollbackClaim(w)
      PROVE  UNCHANGED vars
  BY <1>6 DEF SelectJobs, UpdateJobs, RollbackClaim
<1>7. ASSUME NEW w \in Workers, CommitClaim(w) PROVE Next
  BY <1>7, CommitIsClaim DEF Next
<1>8. CASE UNCHANGED claimVars
  BY <1>8 DEF claimVars
<1> QED
  BY <1>1, <1>2, <1>3, <1>4, <1>5, <1>6, <1>7, <1>8 DEF ClaimNext

\* Claims that overlap, wait, skip locked rows and roll back, beside failures, completions and
\* retries of single rows, are a behaviour of the queue whose claims are one step: all that is
\* shown of the tables above holds statement by statement.
THEOREM ClaimsAreAtomic == ClaimSpec => ClaimsImplementQueue
<1>1. ClaimInit => Init
  BY DEF ClaimInit
<1> QED
  BY <1>1, ClaimInductive, ClaimStep, PTL DEF ClaimSpec, ClaimsImplementQueue, Spec

\* Hence a completed job keeps its result, and every job goes through its lifecycle, while
\* claims overlap.
THEOREM OverlappingClaimsSafe == ClaimSpec => CompletedIsFinal /\ EveryJobLives
  BY ClaimsAreAtomic, CompletedStays, ImplementsLifecycle, PTL DEF ClaimsImplementQueue

-----------------------------------------------------------------------------
(* Workers: the inductive invariant *)

\* How long a claim is safe from the next one.
Protected == Lease - MaxLag - MaxLead

\* What a worker may rely on about a claim it took `age` ago, up to Lease: its token was
\* handed out; while the claim is young nobody else has had the job, which is still claimed
\* or was completed by this very claim; and the row of a claim that still stands is not
\* older than the claim and the slowest clock make it.
ClaimOK(c, age) ==
  /\ c.token \in 1..minted[c.job]
  /\ age < Protected =>
       /\ minted[c.job] = c.token
       /\ outbox_jobs[c.job].state \in {"processing", "completed"}
  /\ outbox_jobs[c.job].state = "processing" /\ minted[c.job] = c.token =>
       Earliest - age <= outbox_jobs[c.job].claimed_at

\* A worker has claims exactly while it works on one of them, and an exception exactly while
\* it reports it.
WorkerCoherent(w) ==
  /\ batch[w] # <<>> <=> pc[w] \in {"working", "failing"}
  /\ error[w] # Null <=> pc[w] = "failing"
  /\ batch[w] = <<>> => claimAge[w] = 0

ClaimsOK(w) == \A n \in 1..Len(batch[w]) : ClaimOK(batch[w][n], claimAge[w])

PoolInv ==
  /\ IInv
  /\ PoolTypeOK
  /\ \A w \in Workers : WorkerCoherent(w) /\ ClaimsOK(w)
  /\ ExclusiveAttempts

-----------------------------------------------------------------------------
(* What the operations of the queue do to a claim *)

LEMMA Constants ==
  /\ Lease \in Nat /\ MaxLag \in Nat /\ MaxLead \in Nat
  /\ Protected \in Int /\ Earliest \in Int /\ Earliest = 0 - MaxLag
  /\ Null \notin Int /\ Null \notin Errors /\ Null \notin Workers
  BY ConstantsAssumption DEF ConstantsAssumption, Protected, Earliest

LEMMA RowFacts ==
  ASSUME IInv, NEW j \in Jobs
  PROVE  /\ outbox_jobs[j] \in JobRow /\ minted[j] \in Nat /\ settled[j] \in Nat
         /\ outbox_jobs[j].state \in JobState \cup {"absent"}
         /\ outbox_jobs[j].state = "processing" =>
              /\ outbox_jobs[j].claimed_at \in Int
              /\ outbox_jobs[j].claim_token = minted[j]
         /\ outbox_jobs[j].state = "absent" => minted[j] = 0
<1>1. outbox_jobs[j] \in JobRow /\ minted[j] \in Nat /\ settled[j] \in Nat
  BY DEF IInv, TypeOK
<1>2. Safe(outbox_jobs[j], classifications[j], minted[j], granted[j], settled[j])
  BY DEF IInv, AllSafe
<1>3. /\ outbox_jobs[j].state \in JobState \cup {"absent"}
      /\ outbox_jobs[j].claimed_at \in Int \cup {Null}
  BY <1>1 DEF JobRow
<1> QED
  BY <1>1, <1>2, <1>3 DEF Safe

\* A claim is as good as it was when its row and the tokens of its job are.
LEMMA ClaimUndisturbed ==
  ASSUME NEW c \in Held, NEW age, ClaimOK(c, age),
         outbox_jobs'[c.job] = outbox_jobs[c.job], minted'[c.job] = minted[c.job]
  PROVE  ClaimOK(c, age)'
  BY DEF ClaimOK

LEMMA CreateKeepsClaim ==
  ASSUME IInv, NEW c \in Held, NEW age \in Nat, ClaimOK(c, age),
         NEW j \in Jobs, NEW m, CreateClassificationJob(j, m)
  PROVE  ClaimOK(c, age)'
<1>1. c.job \in Jobs /\ c.token \in Nat
  BY DEF Held
<1>2. c.job # j
  BY <1>1, RowFacts DEF CreateClassificationJob, ClaimOK
<1> QED
  BY <1>1, <1>2, ClaimUndisturbed DEF CreateClassificationJob, IInv, TypeOK

LEMMA RetryKeepsClaim ==
  ASSUME IInv, NEW c \in Held, NEW age \in Nat, ClaimOK(c, age),
         NEW j \in Jobs, NEW at \in Offsets, RetryJob(j, at)
  PROVE  ClaimOK(c, age)'
<1>1. c.job \in Jobs /\ c.token \in Nat /\ minted' = minted
  BY DEF Held, RetryJob
<1>2. CASE c.job # j
  BY <1>1, <1>2, ClaimUndisturbed DEF RetryJob, IInv, TypeOK
<1>3. CASE c.job = j
  <2>1. /\ outbox_jobs[j].state = "failed"
        /\ outbox_jobs'[j].state = "retry_pending"
    BY DEF RetryJob, MayRetry, IInv, TypeOK, JobRow, Released
  <2> QED
    BY <1>1, <1>3, <2>1 DEF ClaimOK
<1> QED
  BY <1>2, <1>3

\* The completion of a job leaves every claim good, for the claims of the job itself too.
LEMMA CompleteKeepsClaim ==
  ASSUME IInv, NEW c \in Held, NEW age \in Nat, ClaimOK(c, age),
         NEW j \in Jobs, NEW token, CompleteClassification(j, token)
  PROVE  ClaimOK(c, age)'
<1>1. c.job \in Jobs /\ c.token \in Nat /\ minted' = minted
  BY DEF Held, CompleteClassification
<1>2. CASE c.job # j
  BY <1>1, <1>2, ClaimUndisturbed DEF CompleteClassification, IInv, TypeOK
<1>3. CASE c.job = j
  <2>1. outbox_jobs'[j].state = "completed"
    BY DEF CompleteClassification, IInv, TypeOK, JobRow, Released
  <2> QED
    BY <1>1, <1>3, <2>1 DEF ClaimOK
<1> QED
  BY <1>2, <1>3

\* A reported failure leaves every claim good but the one it was reported with.
LEMMA FailKeepsClaim ==
  ASSUME IInv, NEW c \in Held, NEW age \in Nat, ClaimOK(c, age),
         NEW j \in Jobs, NEW token, NEW e, NEW retryable, NEW at,
         FailJob(j, token, e, retryable, at),
         ~ (c.job = j /\ c.token = token)
  PROVE  ClaimOK(c, age)'
<1>1. c.job \in Jobs /\ c.token \in Nat /\ minted' = minted
  BY DEF Held, FailJob
<1>2. CASE c.job # j
  BY <1>1, <1>2, ClaimUndisturbed DEF FailJob, IInv, TypeOK
<1>3. CASE c.job = j
  <2>1. /\ outbox_jobs'[j].state \in {"retry_pending", "failed"}
        /\ outbox_jobs[j].state = "processing" /\ outbox_jobs[j].claim_token = token
    BY DEF FailJob, HoldsClaim, IInv, TypeOK, JobRow, Released
  <2>2. c.token # minted[j]
    BY <1>3, <2>1, RowFacts
  <2> QED
    BY <1>1, <1>3, <2>1, <2>2 DEF ClaimOK
<1> QED
  BY <1>2, <1>3

\* The lease: a young claim is not stale for any clock.
LEMMA YoungNotStale ==
  ASSUME IInv, NEW c \in Held, NEW age \in Nat, ClaimOK(c, age), age < Protected,
         NEW at \in Offsets
  PROVE  ~ Stale(outbox_jobs[c.job], at)
<1>1. at \in Int /\ at <= MaxLead
  BY Constants DEF Offsets
<1>2. c.job \in Jobs /\ minted[c.job] = c.token
  BY DEF Held, ClaimOK
<1>3. SUFFICES ASSUME outbox_jobs[c.job].state = "processing"
               PROVE  ~ (outbox_jobs[c.job].claimed_at <= at - Lease)
  BY DEF Stale
<1>4. /\ Earliest - age <= outbox_jobs[c.job].claimed_at
      /\ outbox_jobs[c.job].claimed_at \in Int
  BY <1>2, <1>3, RowFacts DEF ClaimOK
<1> QED
  BY <1>1, <1>4, Constants DEF Protected

LEMMA ClaimJobsKeepsClaim ==
  ASSUME IInv, NEW c \in Held, NEW age \in Nat, ClaimOK(c, age),
         NEW w \in Workers, NEW at \in Offsets, NEW jobs \in SUBSET Jobs,
         jobs \subseteq Claimable(at), ClaimJobs(w, at, jobs)
  PROVE  ClaimOK(c, age)'
<1>1. c.job \in Jobs /\ c.token \in Nat /\ minted[c.job] \in Nat
  BY RowFacts DEF Held
<1>2. CASE c.job \notin jobs /\ c.job \notin Expired(at)
  BY <1>1, <1>2, ClaimUndisturbed DEF ClaimJobs
<1>3. CASE c.job \in Expired(at) \/ c.job \in jobs
  <2>1. ~ (age < Protected)
    <3>1. ASSUME age < Protected PROVE FALSE
      <4>1. /\ ~ Stale(outbox_jobs[c.job], at)
            /\ outbox_jobs[c.job].state \in {"processing", "completed"}
        BY <3>1, YoungNotStale DEF ClaimOK
      <4> QED
        BY <1>3, <4>1 DEF Expired, Claimable
    <3> QED
      BY <3>1
  <2>2. CASE c.job \in Expired(at)
    <3>1. Stale(outbox_jobs[c.job], at) /\ ~ HasAttemptLeft(outbox_jobs[c.job])
      BY <2>2 DEF Expired
    <3>2. c.job \notin jobs
      BY <3>1 DEF Claimable, Stale
    <3>3. outbox_jobs'[c.job].state = "failed" /\ minted'[c.job] = minted[c.job]
      BY <1>1, <2>2, <3>2, RowFacts DEF ClaimJobs, ExpiredRow, Released, JobRow
    <3> QED
      BY <2>1, <3>3 DEF ClaimOK
  <2>3. CASE c.job \in jobs /\ c.job \notin Expired(at)
    <3>1. minted'[c.job] = minted[c.job] + 1
      BY <1>1, <2>3 DEF ClaimJobs
    <3> QED
      BY <1>1, <2>1, <3>1 DEF ClaimOK
  <2> QED
    BY <1>3, <2>2, <2>3
<1> QED
  BY <1>2, <1>3

\* A claim and its row age together, the claim up to Lease.
LEMMA TimeKeepsClaim ==
  ASSUME IInv, NEW c \in Held, NEW age \in 0..Lease, ClaimOK(c, age), TimePasses
  PROVE  ClaimOK(c, IF age < Lease THEN age + 1 ELSE age)'
<1> DEFINE row == outbox_jobs[c.job]
           older == IF age < Lease THEN age + 1 ELSE age
<1>1. c.job \in Jobs /\ minted' = minted /\ row \in JobRow
  BY RowFacts DEF Held, TimePasses
<1>2. /\ outbox_jobs'[c.job].state = row.state
      /\ outbox_jobs'[c.job].claimed_at = Aged(row.claimed_at, Earliest - Lease)
  <2>1. outbox_jobs'[c.job] = AgedRow(row)
    BY <1>1 DEF TimePasses, AgedRow
  <2> QED
    BY <1>1, <2>1, AgedRowType DEF AgedRow, JobRow
<1>3. age <= older /\ older \in Nat /\ (age < Lease => older = age + 1) /\ (age >= Lease => older = Lease)
  BY Constants
<1>4. ASSUME row.state = "processing", minted[c.job] = c.token
      PROVE  Earliest - older <= Aged(row.claimed_at, Earliest - Lease)
  <2>1. row.claimed_at \in Int /\ Earliest - age <= row.claimed_at
    BY <1>1, <1>4, RowFacts DEF ClaimOK
  <2> HIDE DEF row, older
  <2> QED
    BY <1>3, <2>1, Constants DEF Aged
<1> HIDE DEF older
<1>5. ClaimOK(c, older)'
  BY <1>1, <1>2, <1>3, <1>4, Constants DEF ClaimOK
<1> QED
  BY <1>5 DEF older

-----------------------------------------------------------------------------
(* Every step of the pool is a step of the queue *)

LEMMA InHandFacts ==
  ASSUME PoolInv, NEW w \in Workers, pc[w] \in {"working", "failing"}
  PROVE  /\ batch[w] \in Seq(Held) /\ batch[w] # <<>> /\ 1 \in 1..Len(batch[w])
         /\ InHand(w) = batch[w][1] /\ InHand(w) \in Held
         /\ InHand(w).job \in Jobs /\ InHand(w).token \in Nat
         /\ InHand(w).token \in 1..minted[InHand(w).job]
         /\ pc[w] = "failing" => error[w] \in Errors
<1>1. batch[w] \in Seq(Held) /\ error[w] \in Errors \cup {Null}
  BY DEF PoolInv, PoolTypeOK
<1>2. batch[w] # <<>> /\ (pc[w] = "failing" => error[w] # Null)
  BY DEF PoolInv, WorkerCoherent
<1>3. 1 \in 1..Len(batch[w]) /\ InHand(w) = batch[w][1] /\ batch[w][1] \in Held
  BY <1>1, <1>2 DEF InHand
<1>4. ClaimOK(InHand(w), claimAge[w])
  BY <1>3 DEF PoolInv, ClaimsOK
<1> QED
  BY <1>1, <1>2, <1>3, <1>4 DEF ClaimOK, Held

LEMMA CompleteIsStep ==
  ASSUME PoolInv, NEW w \in Workers, pc[w] = "working",
         CompleteClassification(InHand(w).job, InHand(w).token)
  PROVE  Next
  BY InHandFacts DEF Next, Complete

LEMMA FailIsStep ==
  ASSUME PoolInv, NEW w \in Workers, pc[w] = "failing", NEW at \in Offsets,
         FailJob(InHand(w).job, InHand(w).token, error[w], error[w] \in RetryableErrors, at)
  PROVE  Next
  BY InHandFacts DEF Next, Fail

LEMMA ClaimIsStep ==
  ASSUME NEW w \in Workers, NEW locked \in SUBSET Jobs, NEW at \in Offsets,
         NEW jobs \in Batches(at, locked), ClaimJobs(w, at, jobs)
  PROVE  Next
  BY DEF Next, Claim

LEMMA PoolStep == PoolInv /\ [PoolNext]_poolVars => [Next]_vars
<1> SUFFICES ASSUME PoolInv, [PoolNext]_poolVars PROVE [Next]_vars
  OBVIOUS
<1>1. CASE ClientStep
  BY <1>1 DEF ClientStep, Next
<1>2. CASE PoolTimePasses
  BY <1>2 DEF PoolTimePasses, Next
<1>3. ASSUME NEW w \in Workers, NEW locked \in SUBSET Jobs,
             ClaimBatch(w, locked) \/ ClaimUnacknowledged(w, locked)
      PROVE  Next
  BY <1>3, ClaimIsStep DEF ClaimBatch, ClaimUnacknowledged
<1>4. ASSUME NEW w \in Workers, HandleJob(w) PROVE [Next]_vars
  <2>1. CASE CompleteJob(w) \/ CompleteUnacknowledged(w)
    BY <2>1, CompleteIsStep DEF CompleteJob, CompleteUnacknowledged
  <2>2. CASE ReportFailure(w)
    BY <2>2, FailIsStep DEF ReportFailure
  <2>3. CASE ReportUnacknowledged(w)
    BY <2>3, FailIsStep DEF ReportUnacknowledged
  <2>4. CASE CompleteNothing(w) \/ WorkFails(w) \/ ReportRejected(w)
    BY <2>4 DEF CompleteNothing, WorkFails, ReportRejected
  <2> QED
    BY <1>4, <2>1, <2>2, <2>3, <2>4 DEF HandleJob
<1>5. ASSUME NEW w \in Workers, Stop(w) \/ Restart(w) PROVE UNCHANGED vars
  BY <1>5 DEF Stop, Restart, vars
<1>6. CASE UNCHANGED poolVars
  BY <1>6 DEF poolVars
<1> QED
  BY <1>1, <1>2, <1>3, <1>4, <1>5, <1>6 DEF PoolNext

-----------------------------------------------------------------------------
(* What a step does to the claims of the workers *)

\* The claims of a worker after a step are the last ones of those before it.
Shrinks(v) ==
  /\ batch'[v] # <<>> => claimAge'[v] = claimAge[v]
  /\ \E k \in Nat :
       /\ Len(batch'[v]) + k = Len(batch[v])
       /\ \A n \in 1..Len(batch'[v]) : batch'[v][n] = batch[v][n + k]

\* When no worker takes a claim, attempts stay exclusive, and claims that stay good as such
\* are good for those who have them.
LEMMA ShrunkExclusive ==
  ASSUME PoolInv, batch' \in [Workers -> Seq(Held)], \A v \in Workers : Shrinks(v)
  PROVE  ExclusiveAttempts'
<1> SUFFICES ASSUME NEW v \in Workers, NEW w \in Workers,
                    NEW m \in 1..Len(batch'[v]), NEW n \in 1..Len(batch'[w])
             PROVE  /\ batch'[v][m] = batch'[w][n] => v = w /\ m = n
                    /\ v = w /\ m # n => batch'[v][m].job # batch'[w][n].job
  BY DEF ExclusiveAttempts
<1>1. /\ batch[v] \in Seq(Held) /\ batch[w] \in Seq(Held)
      /\ batch'[v] \in Seq(Held) /\ batch'[w] \in Seq(Held)
  BY DEF PoolInv, PoolTypeOK
<1>2. PICK k \in Nat : /\ Len(batch'[v]) + k = Len(batch[v])
                       /\ \A i \in 1..Len(batch'[v]) : batch'[v][i] = batch[v][i + k]
  BY DEF Shrinks
<1>3. PICK l \in Nat : /\ Len(batch'[w]) + l = Len(batch[w])
                       /\ \A i \in 1..Len(batch'[w]) : batch'[w][i] = batch[w][i + l]
  BY DEF Shrinks
<1>4. m + k \in 1..Len(batch[v]) /\ n + l \in 1..Len(batch[w])
  BY <1>1, <1>2, <1>3
<1>5. /\ batch[v][m + k] = batch[w][n + l] => v = w /\ m + k = n + l
      /\ v = w /\ m + k # n + l => batch[v][m + k].job # batch[w][n + l].job
  BY <1>4 DEF PoolInv, ExclusiveAttempts
<1>6. v = w => k = l
  BY <1>1, <1>2, <1>3
<1>7. batch'[v][m] = batch[v][m + k] /\ batch'[w][n] = batch[w][n + l]
  BY <1>2, <1>3
<1>8. m \in Int /\ n \in Int
  OBVIOUS
<1>9. v = w => (m + k = n + l <=> m = n)
  BY <1>6, <1>8
<1> QED
  BY <1>5, <1>7, <1>9

LEMMA ClaimsKept ==
  ASSUME PoolInv, batch' \in [Workers -> Seq(Held)], NEW v \in Workers, Shrinks(v),
         NEW kept \in SUBSET Held,
         \A n \in 1..Len(batch'[v]) : batch'[v][n] \in kept,
         \A c \in kept, age \in 0..Lease : ClaimOK(c, age) => ClaimOK(c, age)'
  PROVE  ClaimsOK(v)'
<1>1. /\ batch[v] \in Seq(Held) /\ batch'[v] \in Seq(Held) /\ claimAge[v] \in 0..Lease
  BY DEF PoolInv, PoolTypeOK
<1>2. PICK k \in Nat : /\ Len(batch'[v]) + k = Len(batch[v])
                       /\ \A i \in 1..Len(batch'[v]) : batch'[v][i] = batch[v][i + k]
  BY DEF Shrinks
<1>3. PICK age \in 0..Lease : age = claimAge[v]
  BY <1>1
<1>4. ASSUME NEW n \in 1..Len(batch'[v]), NEW c \in kept, c = batch'[v][n]
      PROVE  ClaimOK(c, age)'
  <2>1. n + k \in 1..Len(batch[v]) /\ c = batch[v][n + k]
    BY <1>1, <1>2, <1>4
  <2>2. ClaimOK(c, age)
    BY <1>3, <2>1 DEF PoolInv, ClaimsOK
  <2> QED
    BY <2>2
<1>5. ASSUME NEW n \in 1..Len(batch'[v]) PROVE claimAge'[v] = age
  <2>1. batch'[v] # <<>>
    BY <1>1, <1>5
  <2> QED
    BY <1>3, <2>1 DEF Shrinks
<1> QED
  BY <1>4, <1>5 DEF ClaimsOK, ClaimOK
LEMMA ShrinkStep ==
  ASSUME PoolInv, IInv', PoolTypeOK', \A v \in Workers : WorkerCoherent(v)' /\ Shrinks(v),
         NEW kept \in SUBSET Held,
         \A v \in Workers : \A n \in 1..Len(batch'[v]) : batch'[v][n] \in kept,
         \A c \in kept, age \in 0..Lease : ClaimOK(c, age) => ClaimOK(c, age)'
  PROVE  PoolInv'
<1>1. batch' \in [Workers -> Seq(Held)]
  BY DEF PoolTypeOK
<1>2. ExclusiveAttempts'
  BY <1>1, ShrunkExclusive
<1>3. \A v \in Workers : ClaimsOK(v)'
  BY <1>1, ClaimsKept
<1> QED
  BY <1>2, <1>3 DEF PoolInv

\* A worker that changes nothing about its claims.
LEMMA SameClaims ==
  ASSUME PoolInv, NEW v \in Workers, batch'[v] = batch[v], claimAge'[v] = claimAge[v]
  PROVE  Shrinks(v) /\ \A n \in 1..Len(batch'[v]) : batch'[v][n] \in Held
<1>1. batch[v] \in Seq(Held)
  BY DEF PoolInv, PoolTypeOK
<1>2. Len(batch[v]) + 0 = Len(batch[v]) /\ \A n \in 1..Len(batch[v]) : n + 0 = n
  BY <1>1
<1> QED
  BY <1>1, <1>2 DEF Shrinks

\* A worker that goes on to the next job: the claim in hand is nobody's then.
LEMMA AdvanceStep ==
  ASSUME PoolInv, TypeOK', NEW w \in Workers, pc[w] \in {"working", "failing"}, Advance(w)
  PROVE  /\ PoolTypeOK'
         /\ \A v \in Workers : WorkerCoherent(v)' /\ Shrinks(v)
         /\ \A v \in Workers : \A n \in 1..Len(batch'[v]) :
              batch'[v][n] \in Held \ {InHand(w)}
<1> DEFINE rest == Tail(batch[w])
<1>1. /\ batch[w] \in Seq(Held) /\ batch[w] # <<>> /\ 1 \in 1..Len(batch[w])
      /\ InHand(w) = batch[w][1]
  BY InHandFacts
<1>2. /\ rest \in Seq(Held) /\ Len(rest) + 1 = Len(batch[w])
      /\ \A n \in 1..Len(rest) : rest[n] = batch[w][n + 1]
  BY <1>1
<1>3. PoolTypeOK
  BY DEF PoolInv
<1>4. /\ batch'[w] = rest
      /\ pc'[w] = IF rest = <<>> THEN "polling" ELSE "working"
      /\ error'[w] = Null
      /\ claimAge'[w] = IF rest = <<>> THEN 0 ELSE claimAge[w]
  BY <1>3 DEF Advance, PoolTypeOK
<1>5. ASSUME NEW v \in Workers, v # w
      PROVE  /\ batch'[v] = batch[v] /\ pc'[v] = pc[v] /\ error'[v] = error[v]
             /\ claimAge'[v] = claimAge[v]
  BY <1>3, <1>5 DEF Advance, PoolTypeOK
<1>6. PoolTypeOK'
  <2>1. batch' \in [Workers -> Seq(Held)]
    BY <1>2, <1>3 DEF Advance, PoolTypeOK
  <2>2. 0 \in 0..Lease /\ claimAge[w] \in 0..Lease
    BY <1>3, Constants DEF PoolTypeOK
  <2>3. claimAge' \in [Workers -> 0..Lease]
    BY <1>3, <2>2 DEF Advance, PoolTypeOK
  <2>4. pc' \in [Workers -> {"polling", "working", "failing", "down"}]
    BY <1>3 DEF Advance, PoolTypeOK
  <2>5. error' \in [Workers -> Errors \cup {Null}]
    BY <1>3 DEF Advance, PoolTypeOK
  <2> QED
    BY <2>1, <2>3, <2>4, <2>5 DEF PoolTypeOK
<1>7. ASSUME NEW v \in Workers PROVE WorkerCoherent(v)' /\ Shrinks(v)
  <2>1. CASE v = w
    <3>1. WorkerCoherent(w)'
      BY <1>4, Constants DEF WorkerCoherent
    <3>2. Shrinks(w)
      BY <1>2, <1>4 DEF Shrinks
    <3> QED
      BY <2>1, <3>1, <3>2
  <2>2. CASE v # w
    <3>1. WorkerCoherent(v)
      BY DEF PoolInv
    <3> QED
      BY <1>5, <2>2, <3>1, SameClaims DEF WorkerCoherent
  <2> QED
    BY <2>1, <2>2
<1>8. ASSUME NEW v \in Workers, NEW n \in 1..Len(batch'[v])
      PROVE  batch'[v][n] \in Held \ {InHand(w)}
  <2>1. CASE v = w
    <3>1. n + 1 \in 1..Len(batch[w]) /\ n + 1 # 1 /\ batch'[v][n] = batch[w][n + 1]
      <4>1. batch'[v] = rest /\ n \in 1..Len(rest)
        BY <1>4, <2>1
      <4> HIDE DEF rest
      <4>2. Len(rest) \in Nat /\ Len(batch[w]) \in Nat
        BY <1>1, <1>2
      <4> QED
        BY <1>2, <4>1, <4>2
    <3> QED
      BY <1>1, <3>1 DEF PoolInv, ExclusiveAttempts
  <2>2. CASE v # w
    <3>1. batch[v] \in Seq(Held) /\ batch'[v] = batch[v]
      BY <1>3, <1>5, <2>2 DEF PoolTypeOK
    <3> QED
      BY <1>1, <2>2, <3>1 DEF PoolInv, ExclusiveAttempts
  <2> QED
    BY <2>1, <2>2
<1> QED
  BY <1>6, <1>7, <1>8

\* A worker that drops its batch: its claims are nobody's then.
LEMMA AbandonStep ==
  ASSUME PoolInv, TypeOK', NEW w \in Workers, NEW next \in {"polling", "down"}, Abandon(w, next)
  PROVE  /\ PoolTypeOK'
         /\ \A v \in Workers : WorkerCoherent(v)' /\ Shrinks(v)
         /\ \A v \in Workers : \A n \in 1..Len(batch'[v]) :
              /\ batch'[v][n] \in Held
              /\ pc[w] \in {"working", "failing"} => batch'[v][n] # InHand(w)
<1>1. PoolTypeOK
  BY DEF PoolInv
<1>2. batch'[w] = <<>> /\ pc'[w] = next /\ error'[w] = Null /\ claimAge'[w] = 0
  BY <1>1 DEF Abandon, PoolTypeOK
<1>3. ASSUME NEW v \in Workers, v # w
      PROVE  /\ batch'[v] = batch[v] /\ pc'[v] = pc[v] /\ error'[v] = error[v]
             /\ claimAge'[v] = claimAge[v]
  BY <1>1, <1>3 DEF Abandon, PoolTypeOK
<1>4. PoolTypeOK'
  <2>1. 0 \in 0..Lease
    BY Constants
  <2> QED
    BY <1>1, <2>1 DEF Abandon, PoolTypeOK
<1>5. ASSUME NEW v \in Workers PROVE WorkerCoherent(v)' /\ Shrinks(v)
  <2>1. CASE v = w
    <3>1. WorkerCoherent(w)'
      BY <1>2, Constants DEF WorkerCoherent
    <3>2. Len(batch[w]) \in Nat /\ Len(batch'[w]) + Len(batch[w]) = Len(batch[w])
      BY <1>1, <1>2 DEF PoolTypeOK
    <3> QED
      BY <1>2, <2>1, <3>1, <3>2 DEF Shrinks
  <2>2. CASE v # w
    <3>1. WorkerCoherent(v)
      BY DEF PoolInv
    <3> QED
      BY <1>3, <2>2, <3>1, SameClaims DEF WorkerCoherent
  <2> QED
    BY <2>1, <2>2
<1>6. ASSUME NEW v \in Workers, NEW n \in 1..Len(batch'[v])
      PROVE  /\ batch'[v][n] \in Held
             /\ pc[w] \in {"working", "failing"} => batch'[v][n] # InHand(w)
  <2>1. v # w
    BY <1>2, <1>6
  <2>2. batch[v] \in Seq(Held) /\ batch'[v] = batch[v]
    BY <1>1, <1>3, <2>1 DEF PoolTypeOK
  <2> QED
    BY <2>1, <2>2, InHandFacts DEF PoolInv, ExclusiveAttempts
<1> QED
  BY <1>4, <1>5, <1>6

LEMMA RaiseStep ==
  ASSUME PoolInv, TypeOK', NEW w \in Workers, pc[w] = "working", NEW e \in Errors, Raise(w, e)
  PROVE  /\ PoolTypeOK'
         /\ \A v \in Workers : WorkerCoherent(v)' /\ Shrinks(v)
         /\ \A v \in Workers : \A n \in 1..Len(batch'[v]) : batch'[v][n] \in Held
<1>1. PoolTypeOK /\ \A v \in Workers : WorkerCoherent(v)
  BY DEF PoolInv
<1>2. PoolTypeOK'
  BY <1>1 DEF Raise, PoolTypeOK
<1>3. \A v \in Workers : WorkerCoherent(v)'
  BY <1>1, Constants DEF Raise, PoolTypeOK, WorkerCoherent
<1> QED
  BY <1>2, <1>3, SameClaims DEF Raise

-----------------------------------------------------------------------------
(* The steps of the pool *)

\* Whatever happens to the queue while no worker moves.
LEMMA UnmovedStep ==
  ASSUME PoolInv, IInv', UNCHANGED workerVars,
         \A c \in Held, age \in 0..Lease : ClaimOK(c, age) => ClaimOK(c, age)'
  PROVE  PoolInv'
<1>1. PoolTypeOK /\ \A v \in Workers : WorkerCoherent(v)
  BY DEF PoolInv
<1>2. PoolTypeOK' /\ \A v \in Workers : WorkerCoherent(v)'
  BY <1>1 DEF workerVars, PoolTypeOK, WorkerCoherent, IInv
<1>3. \A v \in Workers : Shrinks(v) /\ \A n \in 1..Len(batch'[v]) : batch'[v][n] \in Held
  BY SameClaims DEF workerVars
<1> QED
  BY <1>2, <1>3, ShrinkStep

LEMMA ClientInv ==
  ASSUME PoolInv, IInv', ClientStep
  PROVE  PoolInv'
<1> SUFFICES ASSUME NEW c \in Held, NEW age \in 0..Lease, ClaimOK(c, age)
             PROVE  ClaimOK(c, age)'
  BY UnmovedStep DEF ClientStep
<1>1. IInv /\ age \in Nat
  BY Constants DEF PoolInv
<1>2. CASE Create
  BY <1>1, <1>2, CreateKeepsClaim DEF Create
<1>3. CASE Retry
  BY <1>1, <1>3, RetryKeepsClaim DEF Retry
<1> QED
  BY <1>2, <1>3 DEF ClientStep

LEMMA ClaimUnacknowledgedInv ==
  ASSUME PoolInv, IInv', NEW w \in Workers, NEW locked \in SUBSET Jobs,
         ClaimUnacknowledged(w, locked)
  PROVE  PoolInv'
<1> SUFFICES ASSUME NEW c \in Held, NEW age \in 0..Lease, ClaimOK(c, age)
             PROVE  ClaimOK(c, age)'
  BY UnmovedStep DEF ClaimUnacknowledged
<1>1. IInv /\ age \in Nat
  BY Constants DEF PoolInv
<1>2. PICK at \in Offsets : \E jobs \in Batches(at, locked) : ClaimJobs(w, at, jobs)
  BY DEF ClaimUnacknowledged
<1>3. PICK jobs \in Batches(at, locked) : ClaimJobs(w, at, jobs)
  BY <1>2
<1> QED
  BY <1>1, <1>3, BatchesClaimable, ClaimJobsKeepsClaim

\* What a worker is told of a batch: each of its jobs once, with its new token.
LEMMA TakeFacts ==
  ASSUME PoolInv, NEW w \in Workers, NEW at \in Offsets, NEW jobs \in SUBSET Jobs,
         jobs \subseteq Claimable(at), ClaimJobs(w, at, jobs), Take(w, jobs)
  PROVE  \E claims \in Seq(Held) :
           /\ batch' = [batch EXCEPT ![w] = claims]
           /\ claims = <<>> <=> jobs = {}
           /\ \A n \in 1..Len(claims) :
                /\ claims[n].job \in jobs
                /\ claims[n].token = minted[claims[n].job] + 1
           /\ \A m, n \in 1..Len(claims) : m # n => claims[m].job # claims[n].job
<1>1. PICK order \in SetToSeqs(jobs) :
        batch' = [batch EXCEPT ![w] =
          [n \in 1..Len(order) |->
             [job |-> order[n], token |-> outbox_jobs'[order[n]].claim_token]]]
  BY DEF Take
<1>2. IsFiniteSet(jobs) /\ Cardinality(jobs) \in Nat
  BY JobsAssumption, FS_Subset, FS_CardinalityType
<1>3. PICK size \in Nat : size = Cardinality(jobs)
  BY <1>2
<1>4. /\ order \in [1..size -> jobs]
      /\ \A m, n \in 1..size : m # n => order[m] # order[n]
  BY <1>1, <1>3 DEF SetToSeqs
<1>5. Len(order) = size
  BY <1>3, <1>4
<1> DEFINE claims == [n \in 1..size |->
                        [job |-> order[n], token |-> outbox_jobs'[order[n]].claim_token]]
<1>6. ASSUME NEW n \in 1..size
      PROVE  /\ claims[n].job = order[n] /\ claims[n].job \in jobs /\ claims[n] \in Held
             /\ claims[n].token = minted[order[n]] + 1
  <2>1. order[n] \in jobs /\ order[n] \in Jobs
    BY <1>4
  <2>2. order[n] \notin Expired(at)
    BY <2>1 DEF Claimable, Expired, Stale
  <2>3. outbox_jobs'[order[n]] = ClaimedRow(outbox_jobs[order[n]], w, at, FreshToken(order[n]))
    BY <2>1, <2>2 DEF ClaimJobs
  <2>4. outbox_jobs'[order[n]].claim_token = minted[order[n]] + 1
    BY <2>1, <2>3, RowFacts DEF ClaimedRow, FreshToken, JobRow, PoolInv
  <2>5. minted[order[n]] \in Nat
    BY <2>1, RowFacts DEF PoolInv
  <2> QED
    BY <2>1, <2>4, <2>5 DEF Held
<1>7. claims \in Seq(Held) /\ Len(claims) = size
  <2>1. claims \in [1..size -> Held]
    BY <1>6
  <2> HIDE DEF claims
  <2> QED
    BY <2>1, <1>3
<1>8. claims = <<>> <=> jobs = {}
  BY <1>2, <1>3, <1>7, FS_EmptySet, EmptySeq
<1>9. batch' = [batch EXCEPT ![w] = claims]
  BY <1>1, <1>5
<1> HIDE DEF claims
<1>10. \A n \in 1..Len(claims) : /\ claims[n].job \in jobs
                                 /\ claims[n].token = minted[claims[n].job] + 1
  BY <1>6, <1>7
<1>11. \A m, n \in 1..Len(claims) : m # n => claims[m].job # claims[n].job
  BY <1>4, <1>6, <1>7
<1>12. claims \in Seq(Held)
  BY <1>7
<1> QED
  BY <1>8, <1>9, <1>10, <1>11, <1>12

LEMMA ClaimBatchInv ==
  ASSUME PoolInv, IInv', NEW w \in Workers, NEW locked \in SUBSET Jobs, ClaimBatch(w, locked)
  PROVE  PoolInv'
<1>1. PICK at \in Offsets : \E jobs \in Batches(at, locked) : ClaimJobs(w, at, jobs) /\ Take(w, jobs)
  BY DEF ClaimBatch
<1>2. PICK jobs \in Batches(at, locked) : ClaimJobs(w, at, jobs) /\ Take(w, jobs)
  BY <1>1
<1>3. jobs \in SUBSET Jobs /\ jobs \subseteq Claimable(at) /\ at \in Int
  BY BatchesClaimable, OffsetsType
<1>4. PICK claims \in Seq(Held) :
        /\ batch' = [batch EXCEPT ![w] = claims]
        /\ claims = <<>> <=> jobs = {}
        /\ \A n \in 1..Len(claims) :
             /\ claims[n].job \in jobs
             /\ claims[n].token = minted[claims[n].job] + 1
        /\ \A m, n \in 1..Len(claims) : m # n => claims[m].job # claims[n].job
  BY <1>2, <1>3, TakeFacts
<1>5. PoolTypeOK /\ pc[w] = "polling" /\ batch[w] = <<>> /\ error[w] = Null /\ claimAge[w] = 0
  BY DEF PoolInv, ClaimBatch, WorkerCoherent
<1>6. /\ pc' = [pc EXCEPT ![w] = IF jobs = {} THEN "polling" ELSE "working"]
      /\ UNCHANGED <<error, claimAge>>
  BY <1>2 DEF Take
<1>7. PoolTypeOK'
  BY <1>4, <1>5, <1>6 DEF PoolTypeOK, IInv
<1>8. batch'[w] = claims /\ \A v \in Workers : v # w => batch'[v] = batch[v]
  BY <1>4, <1>5 DEF PoolTypeOK
<1>9. ASSUME NEW v \in Workers PROVE WorkerCoherent(v)'
  <2>1. WorkerCoherent(v)
    BY DEF PoolInv
  <2> QED
    BY <1>4, <1>5, <1>6, <1>8, <2>1 DEF WorkerCoherent, PoolTypeOK
<1>10. ASSUME NEW v \in Workers, v # w, NEW n \in 1..Len(batch'[v]), NEW c \in Held,
              c = batch'[v][n]
       PROVE  /\ ClaimOK(c, claimAge[v])' /\ ClaimOK(c, claimAge[v])
  <2>1. PICK age \in 0..Lease : age = claimAge[v]
    BY <1>5 DEF PoolTypeOK
  <2>2. ClaimOK(c, age) /\ age \in Nat /\ IInv
    BY <1>8, <1>10, <2>1, Constants DEF PoolInv, ClaimsOK
  <2>3. ClaimOK(c, age)'
    BY <1>2, <1>3, <2>2, ClaimJobsKeepsClaim
  <2> QED
    BY <1>6, <2>1, <2>2, <2>3 DEF ClaimOK
<1>11. ASSUME NEW n \in 1..Len(claims), NEW c \in Held, c = claims[n]
       PROVE  ClaimOK(c, 0)'
  <2>1. c.job \in jobs /\ c.job \in Jobs /\ c.token = minted[c.job] + 1
    BY <1>3, <1>4, <1>11
  <2>2. c.job \notin Expired(at)
    BY <1>3, <2>1 DEF Claimable, Expired, Stale
  <2>3. /\ minted'[c.job] = minted[c.job] + 1
        /\ outbox_jobs'[c.job] = ClaimedRow(outbox_jobs[c.job], w, at, FreshToken(c.job))
    BY <1>2, <2>1, <2>2 DEF ClaimJobs
  <2>4. outbox_jobs[c.job] \in JobRow /\ minted[c.job] \in Nat
    BY <2>1, RowFacts DEF PoolInv
  <2>5. outbox_jobs'[c.job].state = "processing" /\ outbox_jobs'[c.job].claimed_at = at
    BY <2>3, <2>4 DEF ClaimedRow, JobRow
  <2>6. Earliest - 0 <= at
    BY Constants DEF Offsets
  <2> QED
    BY <2>1, <2>3, <2>4, <2>5, <2>6 DEF ClaimOK
<1>12. ASSUME NEW v \in Workers PROVE ClaimsOK(v)'
  <2>1. batch'[v] \in Seq(Held) /\ \A n \in 1..Len(batch'[v]) : batch'[v][n] \in Held
    BY <1>7 DEF PoolTypeOK
  <2>2. CASE v = w
    BY <1>5, <1>6, <1>8, <1>11, <2>1, <2>2 DEF ClaimsOK, ClaimOK
  <2>3. CASE v # w
    BY <1>6, <1>10, <2>1, <2>3 DEF ClaimsOK, ClaimOK
  <2> QED
    BY <2>2, <2>3
<1>13. ExclusiveAttempts'
  <2> SUFFICES ASSUME NEW u \in Workers, NEW v \in Workers,
                      NEW m \in 1..Len(batch'[u]), NEW n \in 1..Len(batch'[v])
               PROVE  /\ batch'[u][m] = batch'[v][n] => u = v /\ m = n
                      /\ u = v /\ m # n => batch'[u][m].job # batch'[v][n].job
    BY DEF ExclusiveAttempts
  <2>1. batch'[u][m] \in Held /\ batch'[v][n] \in Held
    BY <1>7 DEF PoolTypeOK
  \* A new token is none that anybody has.
  <2>2. ASSUME NEW x \in Workers, x # w, NEW i \in 1..Len(batch'[x]), NEW k \in 1..Len(claims)
        PROVE  batch'[x][i] # claims[k]
    <3>1. PICK c \in Held : c = batch'[x][i]
      BY <1>7 DEF PoolTypeOK
    <3>2. c.token \in 1..minted[c.job] /\ c.job \in Jobs
      BY <1>10, <2>2, <3>1 DEF ClaimOK, Held
    <3>3. minted[c.job] \in Nat
      BY <3>2, RowFacts DEF PoolInv
    <3>4. claims[k].token = minted[claims[k].job] + 1
      BY <1>4
    <3> QED
      BY <3>1, <3>2, <3>3, <3>4
  <2>3. CASE u # w /\ v # w
    BY <1>8, <2>3 DEF PoolInv, ExclusiveAttempts
  <2>4. CASE u = w /\ v = w
    BY <1>4, <1>8, <2>4
  <2>5. CASE u = w /\ v # w
    BY <1>8, <2>2, <2>5
  <2>6. CASE u # w /\ v = w
    BY <1>8, <2>2, <2>6
  <2> QED
    BY <2>3, <2>4, <2>5, <2>6
<1> QED
  BY <1>7, <1>9, <1>12, <1>13 DEF PoolInv

LEMMA TimeInv ==
  ASSUME PoolInv, IInv', PoolTimePasses
  PROVE  PoolInv'
<1>1. PoolTypeOK
  BY DEF PoolInv
<1>2. ASSUME NEW v \in Workers, batch[v] # <<>>
      PROVE  claimAge'[v] = IF claimAge[v] < Lease THEN claimAge[v] + 1 ELSE claimAge[v]
  BY <1>2 DEF PoolTimePasses
<1>3. PoolTypeOK'
  <2>1. \A v \in Workers : claimAge[v] \in 0..Lease
    BY <1>1 DEF PoolTypeOK
  <2>2. \A v \in Workers :
          (IF batch[v] # <<>> /\ claimAge[v] < Lease THEN claimAge[v] + 1 ELSE claimAge[v])
             \in 0..Lease
    BY <2>1, Constants
  <2>3. claimAge' \in [Workers -> 0..Lease]
    BY <2>2 DEF PoolTimePasses
  <2> QED
    BY <1>1, <2>3 DEF PoolTimePasses, PoolTypeOK, IInv
<1>4. \A v \in Workers : WorkerCoherent(v)'
  BY DEF PoolInv, WorkerCoherent, PoolTimePasses
<1>5. ASSUME NEW v \in Workers, NEW n \in 1..Len(batch[v]), NEW c \in Held, c = batch[v][n]
      PROVE  ClaimOK(c, claimAge[v])'
  <2>1. PICK age \in 0..Lease : age = claimAge[v]
    BY <1>1 DEF PoolTypeOK
  <2>2. ClaimOK(c, age) /\ IInv /\ TimePasses
    BY <1>5, <2>1 DEF PoolInv, ClaimsOK, PoolTimePasses
  <2>3. PICK older \in Int : older = IF age < Lease THEN age + 1 ELSE age
    OBVIOUS
  <2>4. ClaimOK(c, older)'
    BY <2>2, <2>3, TimeKeepsClaim
  <2>5. batch[v] # <<>>
    BY <1>1, <1>5 DEF PoolTypeOK
  <2>6. claimAge'[v] = older
    BY <1>2, <2>1, <2>3, <2>5
  <2> QED
    BY <2>4, <2>6 DEF ClaimOK
<1>6. \A v \in Workers : ClaimsOK(v)'
  <2>1. \A v \in Workers : \A n \in 1..Len(batch[v]) : batch[v][n] \in Held
    BY <1>1 DEF PoolTypeOK
  <2>2. batch' = batch
    BY DEF PoolTimePasses
  <2> QED
    BY <1>5, <2>1, <2>2 DEF ClaimsOK, ClaimOK
<1>7. ExclusiveAttempts'
  BY DEF PoolInv, ExclusiveAttempts, PoolTimePasses
<1> QED
  BY <1>3, <1>4, <1>6, <1>7 DEF PoolInv

\* A step that leaves the queue as it is leaves every claim as good as it is.
LEMMA QueueUnchanged ==
  ASSUME UNCHANGED vars, NEW c \in Held, NEW age \in 0..Lease, ClaimOK(c, age)
  PROVE  ClaimOK(c, age)'
  BY DEF vars, ClaimOK

LEMMA FailKeepsOthers ==
  ASSUME PoolInv, NEW w \in Workers, pc[w] \in {"working", "failing"}, NEW e, NEW retryable,
         NEW at, FailJob(InHand(w).job, InHand(w).token, e, retryable, at),
         NEW c \in Held \ {InHand(w)}, NEW age \in 0..Lease, ClaimOK(c, age)
  PROVE  ClaimOK(c, age)'
<1>1. PICK h \in Held : h = InHand(w)
  BY InHandFacts
<1>2. ~ (c.job = h.job /\ c.token = h.token)
  BY <1>1 DEF Held
<1>3. h.job \in Jobs /\ age \in Nat /\ IInv
  BY Constants DEF Held, PoolInv
<1> QED
  BY <1>1, <1>2, <1>3, FailKeepsClaim

LEMMA HandleInv ==
  ASSUME PoolInv, IInv', NEW w \in Workers, HandleJob(w)
  PROVE  PoolInv'
<1>1. TypeOK' /\ IInv
  BY DEF IInv, PoolInv
<1> DEFINE others == Held \ {InHand(w)}
<1>2. CASE CompleteJob(w)
  <2>1. /\ pc[w] = "working" /\ Advance(w)
        /\ CompleteClassification(InHand(w).job, InHand(w).token)
    BY <1>2 DEF CompleteJob
  <2>2. ASSUME NEW c \in others, NEW age \in 0..Lease, ClaimOK(c, age) PROVE ClaimOK(c, age)'
    BY <1>1, <2>1, <2>2, InHandFacts, CompleteKeepsClaim, Constants
  <2> QED
    BY <1>1, <2>1, <2>2, AdvanceStep, ShrinkStep
<1>3. CASE CompleteNothing(w) \/ ReportRejected(w)
  <2>1. pc[w] \in {"working", "failing"} /\ Advance(w) /\ UNCHANGED vars
    BY <1>3 DEF CompleteNothing, ReportRejected
  <2>2. \A c \in others, age \in 0..Lease : ClaimOK(c, age) => ClaimOK(c, age)'
    BY <2>1, QueueUnchanged
  <2> QED
    BY <1>1, <2>1, <2>2, AdvanceStep, ShrinkStep
<1>4. CASE CompleteUnacknowledged(w)
  <2>1. /\ pc[w] = "working" /\ \E e \in Errors : Raise(w, e)
        /\ CompleteClassification(InHand(w).job, InHand(w).token)
    BY <1>4 DEF CompleteUnacknowledged, Errors
  <2>2. ASSUME NEW c \in Held, NEW age \in 0..Lease, ClaimOK(c, age) PROVE ClaimOK(c, age)'
    BY <1>1, <2>1, <2>2, InHandFacts, CompleteKeepsClaim, Constants
  <2> QED
    BY <1>1, <2>1, <2>2, RaiseStep, ShrinkStep
<1>5. CASE WorkFails(w)
  <2>1. pc[w] = "working" /\ (\E e \in Errors : Raise(w, e)) /\ UNCHANGED vars
    BY <1>5 DEF WorkFails
  <2>2. \A c \in Held, age \in 0..Lease : ClaimOK(c, age) => ClaimOK(c, age)'
    BY <2>1, QueueUnchanged
  <2> QED
    BY <1>1, <2>1, <2>2, RaiseStep, ShrinkStep
<1>6. CASE ReportFailure(w)
  <2>1. /\ pc[w] = "failing" /\ Advance(w)
        /\ \E at \in Offsets :
             FailJob(InHand(w).job, InHand(w).token, error[w], error[w] \in RetryableErrors, at)
    BY <1>6 DEF ReportFailure
  <2>2. \A c \in others, age \in 0..Lease : ClaimOK(c, age) => ClaimOK(c, age)'
    BY <2>1, FailKeepsOthers
  <2> QED
    BY <1>1, <2>1, <2>2, AdvanceStep, ShrinkStep
<1>7. CASE ReportUnacknowledged(w)
  <2>1. /\ pc[w] = "failing" /\ Abandon(w, "polling")
        /\ \/ UNCHANGED vars
           \/ \E at \in Offsets :
                FailJob(InHand(w).job, InHand(w).token, error[w], error[w] \in RetryableErrors, at)
    BY <1>7 DEF ReportUnacknowledged
  <2>2. \A c \in others, age \in 0..Lease : ClaimOK(c, age) => ClaimOK(c, age)'
    BY <2>1, FailKeepsOthers, QueueUnchanged
  <2>3. /\ PoolTypeOK' /\ \A v \in Workers : WorkerCoherent(v)' /\ Shrinks(v)
        /\ \A v \in Workers : \A n \in 1..Len(batch'[v]) : batch'[v][n] \in others
    BY <1>1, <2>1, AbandonStep
  <2> QED
    BY <1>1, <2>2, <2>3, ShrinkStep
<1> QED
  BY <1>2, <1>3, <1>4, <1>5, <1>6, <1>7 DEF HandleJob

LEMMA StopInv ==
  ASSUME PoolInv, IInv', NEW w \in Workers, Stop(w)
  PROVE  PoolInv'
<1>1. TypeOK' /\ Abandon(w, "down") /\ UNCHANGED vars
  BY DEF IInv, Stop
<1>2. /\ PoolTypeOK' /\ \A v \in Workers : WorkerCoherent(v)' /\ Shrinks(v)
      /\ \A v \in Workers : \A n \in 1..Len(batch'[v]) : batch'[v][n] \in Held
  BY <1>1, AbandonStep
<1>3. \A c \in Held, age \in 0..Lease : ClaimOK(c, age) => ClaimOK(c, age)'
  BY <1>1, QueueUnchanged
<1> QED
  BY <1>2, <1>3, ShrinkStep

LEMMA RestartInv ==
  ASSUME PoolInv, IInv', NEW w \in Workers, Restart(w)
  PROVE  PoolInv'
<1>1. PoolTypeOK /\ \A v \in Workers : WorkerCoherent(v)
  BY DEF PoolInv
<1>2. PoolTypeOK'
  BY <1>1 DEF Restart, PoolTypeOK, IInv
<1>3. \A v \in Workers : WorkerCoherent(v)'
  BY <1>1 DEF Restart, PoolTypeOK, WorkerCoherent
<1>4. \A v \in Workers : Shrinks(v) /\ \A n \in 1..Len(batch'[v]) : batch'[v][n] \in Held
  BY SameClaims DEF Restart
<1>5. \A c \in Held, age \in 0..Lease : ClaimOK(c, age) => ClaimOK(c, age)'
  BY QueueUnchanged DEF Restart
<1> QED
  BY <1>2, <1>3, <1>4, <1>5, ShrinkStep

LEMMA PoolInvStep == PoolInv /\ [PoolNext]_poolVars => PoolInv'
<1> SUFFICES ASSUME PoolInv, [PoolNext]_poolVars PROVE PoolInv'
  OBVIOUS
<1>1. IInv'
  BY PoolStep, NextSafe DEF PoolInv
<1>2. CASE ClientStep
  BY <1>1, <1>2, ClientInv
<1>3. CASE PoolTimePasses
  BY <1>1, <1>3, TimeInv
<1>4. ASSUME NEW w \in Workers, NEW locked \in SUBSET Jobs,
             ClaimBatch(w, locked) \/ ClaimUnacknowledged(w, locked)
      PROVE  PoolInv'
  BY <1>1, <1>4, ClaimBatchInv, ClaimUnacknowledgedInv
<1>5. ASSUME NEW w \in Workers, HandleJob(w) PROVE PoolInv'
  BY <1>1, <1>5, HandleInv
<1>6. ASSUME NEW w \in Workers, Stop(w) \/ Restart(w) PROVE PoolInv'
  BY <1>1, <1>6, StopInv, RestartInv
<1>7. CASE UNCHANGED poolVars
  <2>1. UNCHANGED vars /\ UNCHANGED workerVars
    BY <1>7 DEF poolVars
  <2> QED
    BY <1>1, <2>1, QueueUnchanged, UnmovedStep
<1> QED
  BY <1>2, <1>3, <1>4, <1>5, <1>6, <1>7 DEF PoolNext

LEMMA PoolInvInit == PoolInit => PoolInv
<1> SUFFICES ASSUME PoolInit PROVE PoolInv
  OBVIOUS
<1>1. IInv
  BY InitSafe, InitType DEF IInv, PoolInit
<1>2. PoolTypeOK
  BY <1>1, Constants DEF PoolInit, PoolTypeOK, IInv
<1>3. \A w \in Workers : WorkerCoherent(w) /\ Len(batch[w]) = 0
  BY DEF PoolInit, WorkerCoherent
<1> QED
  BY <1>1, <1>2, <1>3 DEF PoolInv, ClaimsOK, ExclusiveAttempts

LEMMA PoolInductive == PoolSpec => []PoolInv
  BY PoolInvInit, PoolInvStep, PTL DEF PoolSpec

-----------------------------------------------------------------------------
(* The theorems *)

\* Rows, batches, program counters and ages have their types in every reachable state.
THEOREM PoolTypeCorrect == PoolSpec => []PoolTypeOK
<1>1. PoolInv => PoolTypeOK
  BY DEF PoolInv
<1> QED
  BY <1>1, PoolInductive, PTL

\* However many workers poll, crash, restart and lose acknowledgements, no two of them ever
\* have the same attempt of a job, and none has two attempts of one.
THEOREM AttemptsAreExclusive == PoolSpec => []ExclusiveAttempts
<1>1. PoolInv => ExclusiveAttempts
  BY DEF PoolInv
<1> QED
  BY <1>1, PoolInductive, PTL

\* For every lease and every error of the clocks: nobody is given the job of a worker whose
\* claim is younger than the lease less what two clocks can be off.
THEOREM ClaimsAreProtected == PoolSpec => []LeaseProtects
<1>1. PoolInv => LeaseProtects
  BY DEF PoolInv, ClaimsOK, ClaimOK, LeaseProtects, Protected
<1> QED
  BY <1>1, PoolInductive, PTL

\* The workers are callers the queue allows for, so that every theorem about Spec holds of
\* the pool.
THEOREM PoolIsQueue == PoolSpec => PoolImplementsQueue
<1>1. PoolInit => Init
  BY DEF PoolInit
<1> QED
  BY <1>1, PoolStep, PoolInductive, PTL DEF PoolSpec, PoolImplementsQueue, Spec

-----------------------------------------------------------------------------
(* Who settles a job *)

\* The claim on the row of job j is the one worker w has in hand, and nobody else's claims
\* are touched.
SettledBy(w, j) ==
  /\ pc[w] \in {"working", "failing"}
  /\ InHand(w) = [job |-> j, token |-> outbox_jobs[j].claim_token]
  /\ \A v \in Workers \ {w} : batch'[v] = batch[v]

LEMMA HandlerSettles ==
  ASSUME PoolInv, NEW w \in Workers, pc[w] \in {"working", "failing"},
         HoldsClaim(InHand(w).job, InHand(w).token),
         settled' = [settled EXCEPT ![InHand(w).job] = InHand(w).token],
         \A v \in Workers \ {w} : batch'[v] = batch[v],
         NEW j \in Jobs, settled'[j] # settled[j]
  PROVE  SettledBy(w, j)
<1>1. InHand(w) \in Held /\ settled \in [Jobs -> Nat]
  BY InHandFacts DEF PoolInv, IInv, TypeOK
<1>2. InHand(w).job = j
  BY <1>1
<1>3. InHand(w).token = outbox_jobs[j].claim_token
  BY <1>2 DEF HoldsClaim
<1> QED
  BY <1>1, <1>2, <1>3 DEF SettledBy, Held

LEMMA OthersKeepBatch ==
  ASSUME PoolTypeOK, NEW w \in Workers
  PROVE  /\ Advance(w) => \A v \in Workers \ {w} : batch'[v] = batch[v]
         /\ \A next : Abandon(w, next) => \A v \in Workers \ {w} : batch'[v] = batch[v]
         /\ \A e : Raise(w, e) => \A v \in Workers \ {w} : batch'[v] = batch[v]
  BY DEF PoolTypeOK, Advance, Abandon, Raise

LEMMA SettlingStep ==
  ASSUME PoolInv, PoolNext, NEW j \in Jobs, settled'[j] # settled[j]
  PROVE  \E w \in Workers : SettledBy(w, j)
<1>1. PoolTypeOK
  BY DEF PoolInv
<1>2. settled' # settled
  OBVIOUS
<1>3. PICK w \in Workers :
        \/ \E locked \in SUBSET Jobs : ClaimBatch(w, locked) \/ ClaimUnacknowledged(w, locked)
        \/ HandleJob(w)
        \/ Stop(w)
        \/ Restart(w)
  <2>1. ~ ClientStep
    BY <1>2 DEF ClientStep, Create, Retry, CreateClassificationJob, RetryJob
  <2>2. ~ PoolTimePasses
    BY <1>2 DEF PoolTimePasses, TimePasses
  <2> QED
    BY <2>1, <2>2 DEF PoolNext
<1>4. HandleJob(w)
  BY <1>2, <1>3 DEF ClaimBatch, ClaimUnacknowledged, ClaimJobs, Stop, Restart, vars
<1>5. CASE CompleteJob(w) \/ CompleteUnacknowledged(w)
  <2>1. /\ pc[w] = "working" /\ CompleteClassification(InHand(w).job, InHand(w).token)
        /\ Advance(w) \/ \E e : Raise(w, e)
    BY <1>5 DEF CompleteJob, CompleteUnacknowledged
  <2>2. /\ HoldsClaim(InHand(w).job, InHand(w).token)
        /\ settled' = [settled EXCEPT ![InHand(w).job] = InHand(w).token]
    BY <2>1 DEF CompleteClassification, MayComplete
  <2> QED
    BY <1>1, <2>1, <2>2, OthersKeepBatch, HandlerSettles
<1>6. CASE ReportFailure(w) \/ ReportUnacknowledged(w)
  <2>1. /\ pc[w] = "failing"
        /\ Advance(w) \/ Abandon(w, "polling")
        /\ \E at \in Offsets :
             FailJob(InHand(w).job, InHand(w).token, error[w], error[w] \in RetryableErrors, at)
    BY <1>2, <1>6 DEF ReportFailure, ReportUnacknowledged, vars
  <2>2. /\ HoldsClaim(InHand(w).job, InHand(w).token)
        /\ settled' = [settled EXCEPT ![InHand(w).job] = InHand(w).token]
    BY <2>1 DEF FailJob
  <2> QED
    BY <1>1, <2>1, <2>2, OthersKeepBatch, HandlerSettles
<1>7. CASE CompleteNothing(w) \/ WorkFails(w) \/ ReportRejected(w)
  BY <1>2, <1>7 DEF CompleteNothing, WorkFails, ReportRejected, vars
<1> QED
  BY <1>4, <1>5, <1>6, <1>7 DEF HandleJob

\* A job is completed or failed by the worker that has its current claim in hand, and by
\* nobody else, in every step of every behaviour.
THEOREM HoldersSettle == PoolSpec => OnlyHolderSettles
<1>1. PoolInv /\ [PoolNext]_poolVars =>
        [\A j \in Jobs :
           settled'[j] # settled[j] =>
             \E w \in Workers :
               /\ pc[w] \in {"working", "failing"}
               /\ InHand(w) = [job |-> j, token |-> outbox_jobs[j].claim_token]
               /\ \A v \in Workers \ {w} : batch'[v] = batch[v]]_poolVars
  BY SettlingStep DEF SettledBy
<1> QED
  BY <1>1, PoolInductive, PTL DEF PoolSpec, OnlyHolderSettles

-----------------------------------------------------------------------------
(* The loop around a worker *)

\* The loop only chooses when a worker polls, stops and starts.
LEMMA LoopStep == [LoopNext]_allVars => [PoolNext]_poolVars
<1> SUFFICES ASSUME [LoopNext]_allVars PROVE [PoolNext]_poolVars
  OBVIOUS
<1>1. CASE ClientStep /\ UNCHANGED loopVars
  BY <1>1 DEF PoolNext
<1>2. CASE LoopTimePasses
  BY <1>2 DEF LoopTimePasses, PoolNext
<1>3. ASSUME NEW w \in Workers, BeginPoll(w) \/ Signal(w)
      PROVE  UNCHANGED poolVars
  BY <1>3 DEF BeginPoll, Signal
<1>4. ASSUME NEW w \in Workers, NEW locked \in SUBSET Jobs, Claimed(w, locked)
      PROVE  PoolNext
  BY <1>4 DEF Claimed, PoolNext
<1>5. ASSUME NEW w \in Workers, ClaimFailed(w)
      PROVE  [PoolNext]_poolVars
  BY <1>5 DEF ClaimFailed, PoolNext
<1>6. ASSUME NEW w \in Workers, HandledOne(w) \/ JobRaises(w) \/ ReportRaises(w)
      PROVE  PoolNext
  BY <1>6 DEF HandledOne, JobRaises, ReportRaises, PoolNext, HandleJob
<1>7. ASSUME NEW w \in Workers, Exit(w) \/ Crash(w)
      PROVE  PoolNext
  BY <1>7 DEF Exit, Crash, Gone, PoolNext
<1>8. ASSUME NEW w \in Workers, Restart(w) /\ UNCHANGED loopVars
      PROVE  PoolNext
  BY <1>8 DEF PoolNext
<1>9. CASE UNCHANGED allVars
  BY <1>9 DEF allVars
<1> QED
  BY <1>1, <1>2, <1>3, <1>4, <1>5, <1>6, <1>7, <1>8, <1>9 DEF LoopNext

\* The loop's processes are workers of the pool: with the waits, the stop event and the
\* counters of run_forever added, every step still is one of the pool or touches none of it.
THEOREM LoopIsPool == LoopSpec => PoolInit /\ [][PoolNext]_poolVars
<1>1. LoopInit => PoolInit
  BY DEF LoopInit
<1> QED
  BY <1>1, LoopStep, PTL DEF LoopSpec

\* So the safety of the pool is that of the loop.
THEOREM LoopIsSafe == LoopSpec => [](PoolTypeOK /\ ExclusiveAttempts /\ LeaseProtects)
<1>1. PoolInv => PoolTypeOK /\ ExclusiveAttempts /\ LeaseProtects
  BY DEF PoolInv, ClaimsOK, ClaimOK, LeaseProtects, Protected
<1> QED
  BY <1>1, LoopIsPool, PoolInvInit, PoolInvStep, PTL

\* What the count of failures and the wait know of the last two polls.
LoopInv ==
  /\ failures \in [Workers -> Int] /\ waiting \in [Workers -> Int]
  /\ streak \in [Workers -> 0..2]
  /\ \A w \in Workers :
       streak[w] # 2 => failures[w] = streak[w] /\ waiting[w] <= FirstWait

LEMMA WaitFacts ==
  /\ FirstWait \in Nat /\ 0 <= FirstWait /\ PollInterval \in Nat /\ PollInterval <= FirstWait
  /\ MaxFailures \in Nat /\ 1 <= MaxFailures
  /\ \A n \in Nat \ {0} : Backoff(n) \in Int
  /\ Backoff(1) <= FirstWait
<1>1. /\ PollInterval \in Nat \ {0} /\ Second \in Nat \ {0} /\ MaxFailures \in Nat \ {0}
      /\ MaxWait \in Nat
  BY WaitsAssumption
<1>2. FirstWait \in Nat /\ PollInterval <= FirstWait
  BY <1>1 DEF FirstWait, Larger
<1>3. ASSUME NEW n \in Nat \ {0} PROVE Backoff(n) \in Int
  <2>1. 2^(n - 1) \in Int
    OBVIOUS
  <2>2. FirstWait * 2^(n - 1) \in Int
    BY <1>2, <2>1
  <2> QED
    BY <1>1, <2>2 DEF Backoff, Smaller
<1>4. Backoff(1) <= FirstWait
  <2>1. FirstWait * 2^(1 - 1) = FirstWait
    BY <1>2
  <2> QED
    BY <1>1, <1>2, <2>1 DEF Backoff, Smaller
<1> QED
  BY <1>1, <1>2, <1>3, <1>4

LEMMA ReturnedInv ==
  ASSUME LoopInv, NEW w \in Workers, NEW wait \in {0, PollInterval}, Returned(w, wait)
  PROVE  LoopInv'
  BY WaitFacts DEF LoopInv, Returned

LEMMA FailedInv ==
  ASSUME LoopInv, NEW w \in Workers, Failed(w)
  PROVE  LoopInv'
<1> DEFINE counted == Smaller(MaxFailures, failures[w] + 1)
<1>1. failures[w] \in Int /\ streak[w] \in 0..2 /\ counted \in Int
  BY WaitFacts DEF LoopInv, Smaller
<1>2. CASE streak[w] = 0
  <2>1. counted = 1 /\ Smaller(2, streak[w] + 1) = 1
    BY <1>2, WaitFacts DEF LoopInv, Smaller
  <2>2. /\ failures' = [failures EXCEPT ![w] = 1]
        /\ waiting' = [waiting EXCEPT ![w] = Backoff(1)]
        /\ streak' = [streak EXCEPT ![w] = 1]
    BY <2>1 DEF Failed, LoopInv
  <2> QED
    BY <2>2, WaitFacts DEF LoopInv
<1>3. CASE streak[w] # 0
  <2>1. Smaller(2, streak[w] + 1) = 2
    BY <1>1, <1>3 DEF Smaller
  <2>2. /\ failures' = [failures EXCEPT ![w] = counted]
        /\ waiting' = [waiting EXCEPT ![w] = Backoff(counted)]
        /\ streak' = [streak EXCEPT ![w] = 2]
    BY <2>1 DEF Failed, LoopInv
  <2>3. Backoff(counted) \in Int
    <3> HIDE DEF counted
    <3>1. 2^(counted - 1) \in Int
      BY <1>1
    <3>2. FirstWait * 2^(counted - 1) \in Int
      BY <3>1, WaitFacts
    <3>3. MaxWait \in Int
      BY WaitsAssumption
    <3> QED
      BY <3>2, <3>3 DEF Backoff, Smaller
  <2> HIDE DEF counted
  <2> QED
    BY <1>1, <2>2, <2>3 DEF LoopInv
<1> QED
  BY <1>2, <1>3

LEMMA LoopInvStep == LoopInv /\ [LoopNext]_allVars => LoopInv'
<1> SUFFICES ASSUME LoopInv, [LoopNext]_allVars PROVE LoopInv'
  OBVIOUS
<1>1. ASSUME UNCHANGED <<failures, waiting, streak>> PROVE LoopInv'
  BY <1>1 DEF LoopInv
<1>2. CASE ClientStep /\ UNCHANGED loopVars
  BY <1>1, <1>2 DEF loopVars
<1>3. CASE LoopTimePasses
  BY <1>3, WaitFacts DEF LoopTimePasses, LoopInv
<1>4. ASSUME NEW w \in Workers, BeginPoll(w) \/ Signal(w) \/ JobRaises(w)
      PROVE  LoopInv'
  BY <1>1, <1>4 DEF BeginPoll, Signal, JobRaises
<1>5. ASSUME NEW w \in Workers, NEW locked \in SUBSET Jobs, Claimed(w, locked)
      PROVE  LoopInv'
  BY <1>1, <1>5, ReturnedInv DEF Claimed
<1>6. ASSUME NEW w \in Workers, ClaimFailed(w) \/ ReportRaises(w)
      PROVE  LoopInv'
  BY <1>6, FailedInv DEF ClaimFailed, ReportRaises
<1>7. ASSUME NEW w \in Workers, HandledOne(w)
      PROVE  LoopInv'
  BY <1>1, <1>7, ReturnedInv DEF HandledOne, Continue
<1>8. ASSUME NEW w \in Workers, Exit(w) \/ Crash(w)
      PROVE  LoopInv'
  <2>1. Gone(w)
    BY <1>8 DEF Exit, Crash
  <2>2. /\ failures' = [failures EXCEPT ![w] = 0]
        /\ waiting' = [waiting EXCEPT ![w] = 0]
        /\ streak' = [streak EXCEPT ![w] = 0]
    BY <2>1 DEF Gone
  <2> QED
    BY <2>2, WaitFacts DEF LoopInv
<1>9. ASSUME NEW w \in Workers, Restart(w) /\ UNCHANGED loopVars
      PROVE  LoopInv'
  BY <1>1, <1>9 DEF loopVars
<1>10. CASE UNCHANGED allVars
  BY <1>1, <1>10 DEF allVars, loopVars
<1> QED
  BY <1>2, <1>3, <1>4, <1>5, <1>6, <1>7, <1>8, <1>9, <1>10 DEF LoopNext

\* For every poll interval and every limit of waits and failures: whoever waits longer than
\* after a first failure has just failed twice.
THEOREM BackoffIsForgotten == LoopSpec => []BackoffForgets
<1>1. LoopInit => LoopInv
  BY WaitFacts DEF LoopInit, LoopInv
<1>2. LoopInv => BackoffForgets
  BY WaitFacts DEF LoopInv, BackoffForgets
<1> QED
  BY <1>1, <1>2, LoopInvStep, PTL DEF LoopSpec
=============================================================================
