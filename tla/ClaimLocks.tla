----------------------------- MODULE ClaimLocks -----------------------------
(***************************************************************************)
(* claim_jobs statement by statement, as PostgreSQL runs it at READ        *)
(* COMMITTED beside other claims and beside the one-row transactions of    *)
(* fail_job, complete_classification and retry_job.  JobQueue takes each   *)
(* of them as one step; this module shows that it may.                     *)
(*                                                                         *)
(* A row that a transaction has written or selected FOR UPDATE is locked   *)
(* until the transaction ends, and its new version is seen by nobody else  *)
(* before the commit.  An UPDATE that meets a locked row waits and then    *)
(* looks at the new version; SKIP LOCKED passes the row over.              *)
(***************************************************************************)
EXTENDS JobQueue

\* The clocks differ by less than the lease (300 s), for as long as a claim takes: a claim
\* that commits is never already stale.
ASSUME LeaseAssumption == Lease > MaxLag + MaxLead

\* A row's lock tells a claim from a one-row transaction.
ASSUME CallAssumption == "call" \notin Workers \cup {Null}

VARIABLES
  locked_by,  \* job |-> the worker whose claim has locked the row, "call" for a
              \*   one-row transaction, Null when it is free
  claim       \* worker |-> its claim_jobs transaction

lockVars == <<locked_by, claim>>
claimVars == <<vars, lockVars>>

(* found: the rows the expiring UPDATE has still to visit; job_ids: those the SELECT      *)
(* returned; written: the rows with a new version.                                        *)
NoClaim == [pc |-> "idle", claimed_at |-> 0, found |-> {}, job_ids |-> {}, written |-> {}]

Claims ==
  [pc : {"idle", "expire", "update", "commit"}, claimed_at : Offsets,
   found : SUBSET Jobs, job_ids : SUBSET Jobs, written : SUBSET Jobs]

LockedBy(who) == {j \in Jobs : locked_by[j] = who}
Locked == {j \in Jobs : locked_by[j] # Null}

ClaimInit ==
  /\ Init
  /\ locked_by = [j \in Jobs |-> Null]
  /\ claim = [w \in Workers |-> NoClaim]

-----------------------------------------------------------------------------
(* claim_jobs *)

\* The clock is read and the UPDATE of expired rows takes its snapshot.
BeginClaim(w, at) ==
  /\ claim[w].pc = "idle"
  /\ claim' = [claim EXCEPT ![w] =
       [NoClaim EXCEPT !.pc = "expire", !.claimed_at = at, !.found = Expired(at)]]
  /\ UNCHANGED <<vars, locked_by>>

\* Faulty: the rows found are updated by their id alone.
StillExpiredOrNot(w, j) == TRUE

StillExpired(w, j) == j \in Expired(claim[w].claimed_at)

\* The UPDATE reaches a row it found, waiting for whoever has locked it; a row that has
\* changed meanwhile is judged by its new version.
ExpireRow(w, j) ==
  /\ claim[w].pc = "expire" /\ j \in claim[w].found
  /\ locked_by[j] = Null
  /\ IF StillExpired(w, j)
     THEN /\ locked_by' = [locked_by EXCEPT ![j] = w]
          /\ claim' = [claim EXCEPT ![w].found = @ \ {j}, ![w].written = @ \cup {j}]
     ELSE /\ claim' = [claim EXCEPT ![w].found = @ \ {j}]
          /\ locked_by' = locked_by
  /\ UNCHANGED vars

\* Faulty: a plain SELECT.
SelectedUnlocked(w, job_ids) == locked_by

SelectedForUpdate(w, job_ids) ==
  [j \in Jobs |-> IF j \in job_ids THEN w ELSE locked_by[j]]

\* SELECT ... FOR UPDATE SKIP LOCKED; with no row the block is left at once, and commits.
SelectJobs(w) ==
  /\ claim[w].pc = "expire" /\ claim[w].found = {}
  /\ \E job_ids \in Batches(claim[w].claimed_at, Locked) :
       /\ locked_by' = SelectedForUpdate(w, job_ids)
       /\ claim' = [claim EXCEPT ![w].job_ids = job_ids,
                                 ![w].pc = IF job_ids = {} THEN "commit" ELSE "update"]
  /\ UNCHANGED vars

\* The UPDATEs by id, which find every row locked by their own transaction.
UpdateJobs(w) ==
  LET ids == claim[w].job_ids
  IN  /\ claim[w].pc = "update"
      /\ \A j \in ids : locked_by[j] \in {Null, w}
      /\ locked_by' = SelectedForUpdate(w, ids)
      /\ claim' = [claim EXCEPT ![w].pc = "commit", ![w].written = @ \cup ids]
      /\ UNCHANGED vars

Release(w) ==
  /\ locked_by' = [j \in Jobs |-> IF locked_by[j] = w THEN Null ELSE locked_by[j]]
  /\ claim' = [claim EXCEPT ![w] = NoClaim]

\* The new versions become the rows.  No locked row has changed since it was locked, so
\* they are written down here.
CommitClaim(w) ==
  LET c == claim[w]
  IN  /\ c.pc = "commit"
      /\ outbox_jobs' = [j \in Jobs |->
           IF j \in c.job_ids
           THEN ClaimedRow(outbox_jobs[j], w, c.claimed_at, FreshToken(j))
           ELSE IF j \in c.written THEN ExpiredRow(outbox_jobs[j]) ELSE outbox_jobs[j]]
      /\ minted' = [j \in Jobs |-> IF j \in c.job_ids THEN minted[j] + 1 ELSE minted[j]]
      /\ Release(w)
      /\ UNCHANGED <<classifications, granted, settled>>

\* The connection is lost, or the server ends a circle of waiting UPDATEs.
RollbackClaim(w) == claim[w].pc # "idle" /\ Release(w) /\ UNCHANGED vars

-----------------------------------------------------------------------------
(* fail_job, complete_classification, retry_job *)

\* SELECT ... WHERE id = ... FOR UPDATE waits for the row.
LockRow(j) ==
  /\ outbox_jobs[j].state # "absent"
  /\ locked_by[j] = Null
  /\ locked_by' = [locked_by EXCEPT ![j] = "call"]
  /\ UNCHANGED <<vars, claim>>

\* The transaction decides by the row it has locked: it writes it and commits, or raises.
SettleRow(j) ==
  /\ locked_by[j] = "call"
  /\ locked_by' = [locked_by EXCEPT ![j] = Null]
  /\ \/ \E error \in Errors, at \in Offsets : \E token \in 1..minted[j] :
          FailJob(j, token, error, error \in RetryableErrors, at)
     \/ \E token \in 1..minted[j] : CompleteClassification(j, token)
     \/ \E at \in Offsets : RetryJob(j, at)
     \/ UNCHANGED vars
  /\ claim' = claim

-----------------------------------------------------------------------------
(* Specification *)

\* Bound: no claim takes longer than its clock reading may be late.
ClaimTimePasses ==
  /\ TimePasses
  /\ \A w \in Workers : claim[w].pc = "idle" \/ claim[w].claimed_at > Earliest
  /\ claim' = [w \in Workers |->
       IF claim[w].pc = "idle" THEN claim[w]
       ELSE [claim[w] EXCEPT !.claimed_at = @ - 1]]
  /\ locked_by' = locked_by

ClaimNext ==
  \/ Create /\ UNCHANGED lockVars
  \/ ClaimTimePasses
  \/ \E j \in Jobs : LockRow(j) \/ SettleRow(j)
  \/ \E w \in Workers :
       \/ \E at \in Offsets : BeginClaim(w, at)
       \/ \E j \in Jobs : ExpireRow(w, j)
       \/ SelectJobs(w)
       \/ UpdateJobs(w)
       \/ CommitClaim(w)
       \/ RollbackClaim(w)

ClaimSpec == ClaimInit /\ [][ClaimNext]_claimVars

-----------------------------------------------------------------------------
(* Correctness *)

\* A claim has locked exactly the rows it has written or selected, from the statement that
\* found them to the end of its transaction, and they still are as that statement found them:
\* the UPDATEs by id alone (postgres.py:409-411) change no row anybody else has touched.
ClaimHoldsItsRows ==
  /\ locked_by \in [Jobs -> Workers \cup {"call", Null}]
  /\ claim \in [Workers -> Claims]
  /\ \A w \in Workers :
       LET c == claim[w]
       IN  /\ LockedBy(w) = c.written \cup c.job_ids
           /\ c.written \ c.job_ids \subseteq Expired(c.claimed_at)
           /\ c.job_ids \subseteq Claimable(c.claimed_at)
           /\ Cardinality(c.job_ids) <= BatchSize

\* Claims that overlap, wait, skip and roll back change the tables as the one-step claims of
\* JobQueue do: no row is claimed twice, no outcome overwritten, no expired row left over.
ClaimsImplementQueue == Spec
=============================================================================
