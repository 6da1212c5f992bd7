# Verification of the incident intelligence platform

TLA+ models of the platform in `src/`, the TLC runs that check them on small instances and the
TLAPS proofs that hold for every value of the constants. The source is the reference: each
definition that models code is listed in `PROJECT.json` under `map` with the lines it stands for.
File names below are relative to `src/src/incident_intel/`.

## 1. The system

FastAPI takes synthetic event bundles, stores each as one incident, lets operators request a
classification (a durable job run by a separate worker process) and a response draft (decided once
by a human), and offers stateless previews. PostgreSQL is the only shared state; every process
reaches it through repositories whose operations are single transactions under READ COMMITTED.

```
 client -> api.py -> ingestion store (postgres.py | ingestion.py)   receipt, incident, ticket, evidence
 operator -> api.py -> services.py -> job repository (postgres.py) <- worker.py -> classification.py
                                   -> approvals (postgres_approvals.py)
                                   -> incidents, paging (postgres.py)
 client -> api.py -> previews: webhooks.py, runbooks.py, correlation.py, offboarding.py
```

### Inventory

| Component | State | Operations | What is hard | What makes it correct |
|---|---|---|---|---|
| Durable job queue, `postgres.py`, `jobs.py`, `db.py` | `outbox_jobs`, `classifications` | create, `claim_jobs` (expire, reclaim, claim), `fail_job`, `complete_classification`, `retry_job` | leases judged by callers' own clocks, calls repeated or late, five operations writing overlapping columns | one result per completed job, outcomes only from the latest attempt, the attempt budget, failure only for cause |
| Background worker, `worker.py` | the batch in hand, claim tokens, consecutive failures, the stop event | `run_once`, `run_forever`, stop | crash between claim and report, lost acknowledgements, an exception that drops the rest of a batch, leases that run out, a signal at any moment | one holder per attempt, leases respected, every job settled at last; a wait that belongs to its outage, and a stop that costs no job an attempt |
| PostgreSQL ingestion, `postgres.py`, `db.py` | receipts, incidents, tickets, evidence | `ingest` | overlapping calls with one key, waits on uncommitted keys, deadlocks, an acknowledgement lost after commit | each call answered as by one ledger; all of a bundle or nothing |
| In-memory ingestion, `ingestion.py` | three dictionaries and a lock | `ingest` | thread switches between dictionary accesses | the same, and the same contract as the durable store |
| Drafts and approvals, `postgres_approvals.py`, `approvals.py` | `response_drafts`, `approval_decisions` | create, read, decide | two decisions at once, a decision whose acknowledgement is lost | one final decision; status and decision never disagree |
| Incident retrieval, `postgres.py`, `incidents.py` | none (cursor in the client) | list a page, read one | pages ordered by transaction start while incidents commit later | no incident twice, none skipped that was there from the start |
| Webhook preview, `webhooks.py` | two dictionaries and a lock | `record_webhook_delivery` | check and save by concurrent requests | one receipt per key |
| Services and tokens, `services.py`, `auth.py` | none | role checks, HMAC tokens | expiry boundary, the two layers of checks | no operation below its minimum role |
| HTTP API, `api.py`, `schemas.py` | the stores it is configured with | routes, status codes, metrics | mapping of every exception to one answer | the answer tells the caller whether a retry can help |
| Observability, `observability.py` | counters under a lock | increment, observe, snapshot | counted after the commit, by handlers that may not learn of it | the counters tell what was changed and refused |
| Classification and evidence, `classification.py`, `auth_failures.py`, `runbooks.py` | none | pure functions | overlapping rules | citations are events of the bundle that support the category |
| Correlation, `correlation.py` | none | scoring and threshold | ties, boundaries of the window | deterministic choice, weak scores abstain |
| Offboarding, `offboarding.py` | none | fixture to bundle | repeated and reordered events, time zones | the bundle does not depend on order, repetition or zones |
| Evaluation, `evaluate.py` | none | rates of a report | divisions by counts that may be zero | the rates add up |
| Configuration, token command, migrations | files, environment | batch commands | - | not modelled, see section 7 |

Interaction is by calls and by rows: the worker and the API share nothing but the job tables; a
claim token handed to the worker comes back in `fail_job` and `complete_classification`; ingestion,
jobs and drafts share the incident rows, which nothing changes once they are committed. The hazards
of this code, each at its line with the properties aimed at it, are in `PROJECT.json`.

## 2. Modules

| Module | Models |
|---|---|
| `JobLifecycle` | abstract: what the repository promises of ONE job |
| `JobQueue` | the job tables and the five operations of `PostgresJobRepository`, one action per transaction, under unconstrained callers |
| `ClaimLocks` | `claim_jobs` statement by statement, with row locks, beside the other calls; refines `JobQueue` |
| `WorkerPool` | `run_once` on top of `JobQueue`: batches, crashes, lost calls, restart |
| `WorkerLoop` | `run_forever` and `main` on top of `WorkerPool`: waits, backoff, the stop event |
| `JobQueueProofs` | theorems about `JobQueue`, `ClaimLocks`, `WorkerPool` and `WorkerLoop` |
| `EventBundles` | bundles, receipts and answers, shared by the ingestion modules |
| `IngestionLedger` | abstract: the ledger `POST /events` answers by |
| `Ingestion` | `PostgresIngestionStore.ingest`, one action per SQL statement |
| `IngestionProofs` | theorems about `Ingestion` |
| `MemoryIngestion` | `InMemoryIngestionStore.ingest`, one action per dictionary access |
| `MemoryIngestionProofs` | theorems about `MemoryIngestion` |
| `DraftReview` | abstract: one decision per draft, every call answered by what is decided |
| `DraftApproval` | `PostgresApprovalRepository` behind its routes, `decide` one action per SQL statement |
| `DraftApprovalProofs` | theorems about `DraftApproval` |
| `IncidentPaging` | `list_incidents` and its cursors, followed by a client while incidents commit |
| `IncidentPagingProofs` | theorems about `IncidentPaging` |
| `DeliveryReceipts` | abstract: the first delivery under a key fixes its receipt |
| `WebhookDelivery` | `record_webhook_delivery`, one action per dictionary access |
| `WebhookDeliveryProofs` | theorems about `WebhookDelivery` |
| `OperatorApi` | a request's way through `api.py`, `auth.py`, `services.py` and `observability.py` |
| `OperatorApiProofs` | theorems about `OperatorApi` |
| `Classification` | the rules of `auth_failures.py`, `classification.py` and `runbooks.py` |
| `Correlation`, `Offboarding`, `Evaluation` | `correlate_bundle`, `adapt_offboarding_fixture`, `evaluate_dataset` |
| `Triage` | the inputs of these four judgements, growing item by item, and what must hold of the results |
| `TriageProofs` | theorems about `Triage` and the four judgements |
| `MC*` | constants and symmetry for TLC; `MCBundles` holds the bundles both ingestion runs use |

### Job queue

`outbox_jobs[j]` is the row with the source's column names; `classifications[j]` lists the claim
tokens of the attempts that stored a result, so a second result would show. A token is a number per
job that counts up: `uuid4` never repeats, and comparing it with the row is all the code does with
it. `minted`, `granted` and `settled` are history variables no guard reads, except that `granted`
carries the bound. Each operation locks the rows it changes (`FOR UPDATE`, or a single `UPDATE`), so
it is one action at its commit.

* Time is relative: 0 is the present and `TimePasses` moves every stored timestamp into the past, so
  that no clock needs a bound. A caller's `utc_now()` is a value in `-MaxLag .. MaxLead`: it is read
  before the transaction starts and on the caller's machine. Timestamps so old that every clock
  agrees on them are not aged further.
* `ClaimJobs` is the whole transaction: the expiry of spent stale claims and the claim of a batch.
  `Batches(at, locked)` is what `ORDER BY next_attempt_at LIMIT n FOR UPDATE SKIP LOCKED` may return
  while others hold the rows in `locked`; `created_at`, a tie-breaker, is left open. The expiry
  statement has no `SKIP LOCKED`: it waits for locked rows and looks at them again, which as one
  action at commit is the state the action reads.
* Callers in `JobQueue` are free: any token ever handed out may be presented at any time, any number
  of times. What is proved there holds for every worker, also a faulty one.
* A call for a missing job, a refused call, and a repeated completion change nothing and are
  stuttering steps. Job rows are not compared by incident: the code lets one incident have several
  jobs.

`WorkerPool` adds `pc`, `batch` and `error` per worker. A claim whose acknowledgement is lost leaves
rows claimed by nobody. A completion or report may commit and still raise; an exception out of
`fail_job` leaves `run_once` and drops the rest of the batch. `Stop` may happen at any point,
`Restart` is the container's restart policy (`compose.yaml:63`). A waiting worker polls when it likes.
`claimAge` is history.

`WorkerLoop` gives the process its waits. `running` says that it is inside `run_once`, `failures` is
`consecutive_failures`, `waiting` what is left of `wait_seconds`; each action of `WorkerPool` is taken
together with what it does to them. A signal sets `stop` at any moment, which is seen at the top of the
loop only, and ends a wait. `streak` and `healthy` are history.

`ClaimLocks` takes one action of `JobQueue` apart: `claim_jobs` reads its clock, visits the rows its
expiring `UPDATE` found in any order, waiting for locked ones and judging them again, selects `FOR
UPDATE SKIP LOCKED`, updates by id and commits or rolls back. `locked_by` says whose transaction has
locked a row. New row versions become visible at the commit, where they are written down; that the rows
under them have not changed meanwhile is `ClaimHoldsItsRows`. The other calls lock one row, decide by it
and commit. A circle of waiting `UPDATE`s ends in a rollback, which may happen at any point. Time does
not pass for longer than a clock reading may be late, and the lease is longer than the clocks can be off
(`LeaseAssumption`): 300 s against one transaction.

### Ingestion

Each statement of the transaction is an action. Rows carry `tx`, the client whose open transaction
wrote them, or `Null` once committed: such a row is invisible to others but occupies its unique key,
and an `INSERT` that meets it waits (its guard is false). `Deadlocked` follows PostgreSQL's wait
graph; the victim is rolled back. `ON CONFLICT DO NOTHING` on the receipt either inserts, or finds a
committed row and goes on to `CompareReceipt`. `Commit` may lose its acknowledgement (the caller
gets 503 for a stored bundle), and a connection may be lost at any statement. A payload hash is
modelled by the bundle: equal hashes mean equal canonical content.
Nothing is retried inside `ingest`.

In `MemoryIngestion` every access to one of the three dictionaries is an action and `_lock` a
variable, so that the lock is a thing that can be left out (a mutant does).

### Drafts

`decide` is one action per statement: the role check, `SELECT ... FOR UPDATE` with the checks on the
row it returns, the `INSERT` of the decision, the `UPDATE` of the status, the commit. A draft's row
carries its committed `status`, the client whose transaction has it locked and the `update` that one
has written; a decision row carries `tx` as in `Ingestion`. `SelectDraft` waits while another
transaction has the row (its guard is false) and then sees what that one left. Two guards that
normally never decide anything are kept as they are in the schema: the unique draft id and the role
check of `approval_decisions`. `GetDraft` is one statement, hence one snapshot; `view` is the last
record it returned. A connection may be lost at any statement, and the acknowledgement of a commit may
be lost: the operator then repeats the call and is told `draft_already_decided` for a decision that is
his own, which `DraftReview` allows and says. The service repeats the route's role check on the same claims:
one action stands for both. Who is authenticated is an input (any claims). The row's foreign key,
its content, author and reason decide nothing and are left out, as is the lookup of the incident
before a draft is created.

### Incident pages

One client follows one listing with one filter and page sizes that may change; listings do not
influence each other. A page is the newest `limit` of the selected rows and has a cursor when there
is a further row. Only committed rows exist in the model, and a row may appear with any
`created_at`: the column holds the start of the inserting transaction, which says nothing about its
commit. The encoding of a cursor keeps the timestamp (to the microsecond) and the id, so the model
keeps the pair; cursors a client makes up are refused or read as a pair and are not enumerated. One
filter stands for `status` and `priority`, which are compared alike. `earlier` and `late` are
history.

### Webhook deliveries

As in `MemoryIngestion`, an access to one of the two dictionaries is an action and the lock a variable. The
record keeps the delivery id (a counter: `uuid4` never repeats) and the status; destination and event
type are the request's, `next_retry_after_seconds` is the status in another form, and `attempt_count`
is always 1. The route passes status code 202 only; the function takes any.

### Requests

A request of `OperatorApi` is sent, refused as malformed (422) or authenticated, served, answered and
observed, and other requests, the clock and a crash come between. `RouteRole` and `ServiceRole` are the
two tables of the code, read separately: the roles of `authenticate` in the routes and of `_require_role`
in the service. Most routes look for their repository before they call the service; `get_classification`
and `retry_job` leave it to the service, with another problem code and the same status. The repository is
one step with any of its results; `unavailable` may or may not have committed. Tokens are genuine,
with a role and an expiry, forged or missing. `did` and `at` are history. `CASE`s in `Status` and
`Operation` are the answers and metrics of the routes' branches, which the code repeats per route.

### Stateless judgements

The four functions have no state, so `Triage` gives them their input item by item, in every order; its
states are inputs. A log is what the rules look at (which of their tests it passes); the tokens in a
text are one of three kinds. A confidence is in hundredths. A rate is computed as a fraction and
reported as the nearest number of units, the macro average from the rounded F1s and rounded once more,
as `_rounded` does it; which way a tie goes is left open. Correlation's ids and times are numbers, an
offboarding time, the ticket's included, an instant with an offset. Signals and the events a
classification cites are sets, as nothing is decided by their order. `sorted(...)[0]` is the place that
comes before all others, earlier places first among equals, as the sort is stable; `sorted(...)` by
distinct ids is the one ascending listing. The properties compare each result with a definition by sets.

## 3. Runs

| Run | Instance | Question |
|---|---|---|
| `job_queue` | 2 jobs, 2 workers, budgets 1 and 2, batch of 1, clocks 2 behind to 1 ahead, lease 2, 3 granted attempts | Do the rows stay coherent, the budget and the fencing hold and every job follow its abstract lifecycle, whatever callers do? |
| `claim_locks` | 2 jobs, 2 workers, batch of 2, lease 2, clocks 1 behind | Do overlapping claims, with waits, skipped rows and rollbacks, do what one-step claims do? |
| `worker_pool` | 2 jobs with 2 attempts, 2 workers, batch of 2, clocks 1 behind, lease 2, crashes and lost calls | Are attempts exclusive, do leases protect, does only the holder settle, does the pool stay inside the queue's specification, is every job settled at last? |
| `worker_loop` | 1 process, 3 jobs of one attempt, batch of 2, waits of 1, 2 and 3, signals, crashes | Does the backoff belong to one outage, does a signalled process end, does every job complete with its first attempt when nothing fails over it? |
| `ingestion` | 2 clients, 2 keys, bundles that share events, tickets, correlations or all, two with the same events in opposite orders | Are calls answered as by the ledger, bundles whole, receipts found, and is every call answered, deadlocks included? |
| `memory_ingestion` | 3 threads, 2 keys, 4 bundles | Do the dictionaries agree and overlapping calls answer as calls in sequence? |
| `draft_approval` | 2 clients, 1 draft, calls with every role and decision | One decision per draft, in both tables and in every read, every call answered by it, those that wait for a lock included? |
| `incident_paging` | 4 incidents, 2 transaction starts, 2 priorities, pages of 1 or 2 | Do pages never overlap, show all that was stored in time, and end? |
| `webhook_delivery` | 3 threads, 2 keys, 2 requests, a status code of each outcome | Has a key one receipt, whatever request, code or thread comes second? |
| `operator_api` | 2 requests of any route, role, token and result, a token that expires between two moments, a crash | Does nothing go beyond its role, and do answers and counters tell what was changed? |
| `triage` | up to 4 logs of 9, 3 candidates of 26, 4 access events of 13, 3 cases of 12 in reports with 1 as 2 or 10000 units | Do the judgements follow from what they are given, and not from its order? |
| `memory_contract` | 2 threads | Violated: the memory store does not match the durable contract (section 6) |

**Why the bounds are enough.** Two workers are needed for a stale holder and a new one; with two
jobs the order of a batch, row locks and a dropped rest of a batch appear, and `job_queue` claims
one at a time so that the limit bites. Jobs never influence each other except through batches. A
budget of 1 makes the first attempt the last, 2 gives a retry, 3 granted attempts an admin retry
after that. Lease 2 with lag 2 and lead 1 includes claims that are stale when they commit and claims
that look young when they are not; `worker_pool` uses lag 1 so that the span in which
`LeaseProtects` says something (lease minus lag minus lead) is not empty. `GrantBound` bounds admin
retries and with them tokens; it is the only bound in a guard of these modules. One process is
enough for `worker_loop`: processes meet in the queue only, and `worker_pool` has two; three
failures reach the longest wait, and with three jobs one is left over by a batch of two. Its jobs
have one attempt, since the retries of a job are the subject of the other runs of the queue. Two claims are enough for `claim_locks`: a lock has one holder, and
what a waiter finds is the same whoever left it. Two clients in ingestion and drafts give a holder
and a waiter whose turn comes after a commit or a rollback; a third would wait for the same key or
row. Runs with liveness use no symmetry. The bundles meet in every way two bundles can. In
`incident_paging` four incidents on two starts put ties before, at and after the end of a page of
one or two. In `operator_api` two requests are enough for one to be counted while another is between
its commit and its counter, and `MaxTime` bounds the clock, which only the expiry reads. `MaxItems`
bounds the inputs of `triage`: four logs hold all three signals and a log without one, three
candidates a best one, its equal and a weaker one, four events a repetition and a conflict beside
two others. A report is rounded to 10000 units, the code's four digits, and to 2, with which the two
roundings hide a wrong case among three, as the code's do in datasets of thousands. The proofs of section 5 remove these bounds from every safety property, action
property and refinement of the passing runs. Deadlock is not checked in `incident_paging` (a
listing ends and no incident is left to be stored) and `triage` (an input is complete).

**What the properties say.** `RowCoherent`: the columns of a row agree whichever operation wrote it
last. `BudgetRespected`: attempts started never exceed what creation and admin retries granted, and
a waiting job has one left, although only the reclaiming branch of the claim looks.
`OnlyLatestAttemptSettles`: the claim token fences; an outcome is that of the last attempt, and
there is one stored result of a completed job. `FailedForCause`: a job fails for a fatal error or
with its last attempt spent. `EveryJobLives`: refinement of `JobLifecycle`, per job.
`ExclusiveAttempts`, `LeaseProtects` and `OnlyHolderSettles` say the same of workers: one holder per
attempt, whom nobody replaces before the lease has passed less what two clocks can be off, and who
alone settles. `PoolImplementsQueue` lifts the queue's promises to the pool, `ClaimsImplementQueue`
the one-step claim to its statements. `JobsSettle`: whatever crashes or is lost, no job stays
behind. `BackoffForgets`: a wait longer than the first one follows two failures without a success
between them. `StopIsHeeded`: a signalled process ends. `HealthyJobsComplete`: failed polls, waits
and stops between batches cost no job an attempt, nor does waiting for the next batch; it says nothing
once a call fails, a process crashes or time passes over a job in hand.
`CommittedWhole`: a committed receipt has its incident, ticket and all its events, and no row is
without a receipt. `ReceiptAlwaysFound`: the reread after `ON CONFLICT DO NOTHING` is never empty.
`ImplementsLedger`: every call takes effect at one instant, with the answer the ledger gives then,
so also the order of the statements answers the right one of several conflicts.
`StatusMatchesDecision`: a draft is decided exactly when a decision row says so, though two
statements write the two, and the row names somebody who may decide. `ReadsAgree`: no reader catches
them apart. `ImplementsReview`: of the calls for a draft one decides and the others are refused by
that, not by an intermediate state. `PagesDescend` and `ListingExact`: no incident twice, and none
missing except one that was committed where the listing had already been; that exception is real,
since `created_at` is older than the commit. `ImplementsDelivery`: a receipt and its request become
visible together, and no later status code alters them. `NothingBeyondRole`: what is done is allowed
by the README's table of roles to a token that was good, and the second check never refuses what the
first admitted. `AnswersTellEffects`: after success there is one change, after a 4xx none; only a
503 leaves it open. `CountersTellEffects`: a counter is the number of changes answered as such, and
of refusals, whatever overlaps. `VerdictsSupported`: the reasons of a category hold of logs it
cites, and the runbook draft and the risk level agree with the classifier on what is an authentication
failure (the draft knows no other category). `EvidenceAccumulates`: a further log takes no signal away
and lowers neither the risk nor the draft's confidence; the classifier's confidence may fall (0.85 to
0.80 or 0.82) with a verdict on the network or an endpoint that is replaced, but only by one that cites
the further log, while a verdict that stays keeps its citations and confidence. `CorrelatedOnMerit`: the incident chosen is the best of
those that share enough, in any order of the candidates. `OffboardingReplays`: the bundle is a
function of the set of events and the instants, so that a second ingestion is a replay.
`EvaluationAddsUp`: F1 is that of the counts to the nearest unit; the macro average is 1 when all is
right, and also when no more is wrong than its two roundings hide: with *k* categories, (*k* + 1) / 2
units of each category's counts, hence no case of a dataset of fewer than 10000 / (*k* + 1). Each property of a passing run has a mutant in
`PROJECT.json`: a plausible bug in a mapped definition under which TLC finds the property violated.
These definitions are marked `Faulty:`.

## 4. Fairness

`PoolFairness`: time passes and a stopped worker is restarted (`compose.yaml`); `HandleJob` is weakly
fair since a live worker never stays inside one job (every call returns or raises). `ClaimBatch` with
no row locked is strongly fair: a worker that polls again and again is answered successfully at last,
at a moment when no other transaction holds a row. Locks end with their transactions; an outage that
never ends is what this excludes, and nothing settles jobs then. It is not weak fairness because
crashes and lost acknowledgements keep interrupting. Nothing is assumed about success: every attempt
may fail, crash or be lost, and jobs are then settled by expiry.

`LoopFairness` is the same for a process with waits: time passes, a job in hand is handled or raises, a
stopped process is restarted and one that has seen its stop event exits. `BeginPoll` is strongly fair since
waits end; operators who stop and start a process again and again leave it the time for a poll at last. A
successful claim is strongly fair as above. Nothing forces signals, crashes or failures, or keeps them away.

`IngestionSpec` has strong fairness of each client's step: a waiter is woken when the holder of a key
ends and is then served before new callers for ever, and the deadlock detector runs. No fairness is
assumed of new calls. `DraftSpec` assumes the same of the statements of `decide`.
`PagingSpec` assumes that a client with a cursor asks again until it is answered.

## 5. Proofs

Every invariant, action property and refinement that a passing run checks is stated by a theorem; the
runs show it on a small instance, the theorem for every value of the constants. The assumptions are named
in the module that declares the constants, and TLC evaluates them:

| Assumption | Says | Because |
|---|---|---|
| `ConstantsAssumption` (`JobQueue`) | attempt budgets positive, times natural, batches of 1 to 100 | argument checks of the repository and `jobs.py` |
| `JobsAssumption`, `RequestsAssumption` | finitely many jobs, requests | `COUNT`s and batches are over them at one moment |
| `LeaseAssumption` (`ClaimLocks`) | the lease exceeds what a clock reading can be off | 300 s against one transaction |
| `WaitsAssumption` (`WorkerLoop`) | waits positive and below the longest | argument checks of `worker.py` |
| `BundlesAssumption` | a bundle has an event, and distinct event ids | the schema validates both |
| `PagingAssumption`, `TimeAssumption`, `DeliveryIdsAssumption` | ids and times are numbers; one delivery id per key exists | UUIDs in their order, seconds, a counter |
| `LogsAssumption`, `CasesAssumption`, `FixturesAssumption` | the fields of a log, a case and a fixture have their types; a report's unit is positive | the schemas; `evaluate.py:160` |
| `CorrelationAssumption` | the threshold lies where the scores 45 and 65 are told apart (default 60); spans do not end before they begin | the default, which no caller changes; the meaning of a fingerprint's two times |
| `CallAssumption`, `NullAssumption` | tags and `Null` differ from the other values | - |

`JobQueueProofs`: `TypeCorrect` (`TypeOK`), `QueueSafe` (`RowCoherent`, `ResultsMatchJobs`,
`BudgetRespected`, `OnlyLatestAttemptSettles`, `FailedForCause`; also one by one as `RowsAgree`,
`BudgetKept` and `FailuresHaveCause`), `CompletedStays` (`CompletedIsFinal`) and
`ImplementsLifecycle` (`EveryJobLives`). The safety properties together with the types are inductive
as a whole but not one by one: fencing needs `claim_token = minted`, which needs the row's columns
coherent; `FailedForCause` needs attempt counts within the budget. `IInv` is therefore the
conjunction, stated per job (`Safe`), and there is one step per operation; `Inductive` is its
theorem. The refinement maps each operation on `j` to one abstract action and every other to a
stutter; reclaiming is `Start`, and `Fail` is `PutBack` or `GiveUp`.

The second part is about `ClaimLocks`: `RowsAreHeld` (`ClaimHoldsItsRows`) and `ClaimsAreAtomic`
(`ClaimsImplementQueue`), from which `OverlappingClaimsSafe` carries the queue's safety over to claims that
overlap statement by statement. To `IInv` and the types of the locks, `ClaimInv` adds per claim `RowsHeld`
(the rows it has locked are those it has updated or selected, each of them still as stale or claimable by
its clock reading as when it looked) and `DoneSoFar` (no row that is stale by that reading has escaped the
expiring `UPDATE`, and a claim that may commit has updated what it selected). No row claimed by another
meanwhile is stale by that reading, as the lease exceeds what a reading can be off. So the commit writes what
`ClaimJobs` taken at that moment would write, the rows it skipped being locked; every other step of a
claim stutters, and each one-row transaction is its action in the queue.

The third part is about the workers: `PoolTypeCorrect` (`PoolTypeOK`), `AttemptsAreExclusive`
(`ExclusiveAttempts`), `ClaimsAreProtected` (`LeaseProtects`), `PoolIsQueue` (`PoolImplementsQueue`) and
`HoldersSettle` (`OnlyHolderSettles`). `PoolInv` adds to `IInv` that a worker has a batch exactly while
it works, that no two hold one token, and per claim what may be relied on at its age (`ClaimOK`): its token was
minted, nobody else has had the job while the claim is young, and the row of a claim that still stands is no
older than the claim and the slowest clock make it, which keeps the next claim away. Last the loop:
`LoopIsPool` (each of its steps is one of the pool's or a stutter), `LoopIsSafe` (hence all of the above
holds of it) and `BackoffIsForgotten` (`BackoffForgets`), from `LoopInv`: short of two failures in a row,
`failures` is their number and the wait at most the first one.

`IngestionProofs`: `IngestionTypeCorrect`, `BundlesAreWhole` (`CommittedWhole`), `RereadFindsReceipt`
(`ReceiptAlwaysFound`), `CommittedRowsStay` (`CommittedStays`) and `IngestionImplementsLedger`
(`ImplementsLedger`). The strengthening is `Writes(c)`: what an open transaction has written is exactly
a function of the statement it is at. With it a commit adds one whole bundle, a rollback removes
exactly its own rows, and a row an `INSERT` meets belongs to an accepted bundle or an open transaction.
For the refinement, `Commit` is `Accept` (or, with the acknowledgement lost, `Accept` answered 503),
the comparison is `Duplicate` or `KeyReused`, a conflict in a statement is `CorrelationReused` or
`IdentityReused`, and every other step stutters. That no accepted bundle had the correlation id when
a later statement conflicts holds because the transaction occupies that id itself.

`DraftApprovalProofs`: `DraftTypeCorrect` (`DraftTypeOK`), `StatusAgrees` (`StatusMatchesDecision`),
`ReadersAgree` (`ReadsAgree`), `DecisionStays` (`DecisionIsFinal`) and `ImplementsDraftReview`
(`ImplementsReview`). The strengthening is `Owns(d, c)`: the transaction of `c` has the row of `d`
locked exactly between the statement that found it pending and its end, has written the decision
exactly after the next one, and both with the call's values. So the commit finds the draft undecided and
makes both rows say the same at once, and nobody else can have decided meanwhile. `Commit` is `Decide`,
every rollback is `Refuse`, every other step of `decide` stutters.

`IncidentPagingProofs`: `PagingTypeCorrect` (`PagingTypeOK`), `PagesDoNotOverlap` (`PagesDescend`) and
`NothingSkipped` (`ListingExact`). To these `IInv` adds that an incident is late only where the listing has
been; what is above the next cursor is then what was above this one together with the page.

`MemoryIngestionProofs`: `DictionariesStayTrue` (`DictionariesAgree`) and `MemoryIsLedger`
(`MemoryImplementsLedger`). `WebhookDeliveryProofs`: `WebhookTypeCorrect` (`WebhookTypeOK`) and
`DeliveriesAreReceipts` (`ImplementsDelivery`). Both have the same shape. `DictionariesInv`: the
dictionaries agree except for the key that the thread between its writes is saving. `ClientInv(c)`: a thread
past the lock has it, and what it has seen in the dictionaries still holds, because nobody else writes.
The last write of the memory store is `Accept`; the receipt of a delivery becomes visible with the second
write, and the first stutters. The id of a new delivery is unused because `minted` counts the keys in use.

`OperatorApiProofs`: `RolesBind` (`NothingBeyondRole`), `AnswersTrusted` (`AnswersTellEffects`) and
`CountersExact` (`CountersTellEffects`). `ApiInv` says of each request what its stage implies
(`RequestOK`: who was let in, what it may have changed given the repository's result, which answer that
result becomes) and that each counter is the cardinality of the set of requests counted so far. A count
then adds one element to one of these sets.

`TriageProofs`, about inputs of any length: `CorrelationOnMerit` (`CorrelatedOnMerit`), `VerdictsHaveSupport`
(`VerdictsSupported`), `EvidenceOnlyGrows` (`EvidenceAccumulates`), `FixturesReplay`
(`OffboardingReplays`) and `ReportsAddUp` (`EvaluationAddsUp`). The invariant (`InputsInv`) only says what
the input consists of; the work is in lemmas about the functions. `LeastExists`, a least number of any set
that has one, comes from `NatLessThanWellFounded` and gives minima, maxima and the first of equals, hence
the candidate that `FirstBy` chooses. `SortedIs` shows that the ascending listing of a set of distinct ids
exists and is unique, by ranks. `SumSteps` and `SumFallsShort` take a `FoldSet` apart element by element,
`F1Arithmetic` is the equation of the harmonic mean with that of the counts, and `RoundedIs` and
`NearestToRate` bound what a rounding hides: half a unit of each F1 and half of their average.
`VerdictsAccumulate` follows the sets of network and endpoint logs and the signals over one more log.

`ResultsMatchJobs`, `CompletedIsFinal`, `CommittedStays`, `DecisionIsFinal` and the type invariants of
ingestion, drafts and paging are proved and no longer run: refinements that the runs check contain the
former, the inductive invariants the latter.

Only model-checked are the liveness properties, which are outside the prover's reach: `JobsSettle`,
`StopIsHeeded`, `HealthyJobsComplete`, `CallsAnswered`, `DecisionsAnswered` and `ListingEnds`. The
library's induction theorems take an operator as parameter, which the provers cannot instantiate; sums
over an input are therefore taken step by step from well-foundedness.

## 6. Finding

`memory_contract`: the persistence design says the in-memory adapter matches the durable adapter's
duplicate and conflict contract
(`docs/superpowers/specs/2026-09-04-foundation-first-persistence-design.md:199`). It compares keys
and correlation ids only (`ingestion.py:65-73`): a bundle under a new key and correlation id with a
stored ticket or event id is accepted, where the durable store answers 409
`storage_identity_reused`.

## 7. Not modelled

Configuration (`config.py`), the token command (`token.py`) and the migrations read an environment
or change a schema once; what they end in is `conf`, the tokens of `OperatorApi` and the row types.
Logging, request ids, latencies and their percentiles, explanation and summary texts and the
bodies of answers feed no decision. An exception no handler expects (HTTP 500), the
startup and shutdown of the application and the readiness probe's own query are left out. The
worker's counters are only logged. The problem codes of 503 answers differ in whether a retry can
help; `OperatorApi` keeps the status. `get_incident` has no action: it reads rows that are committed
together and never change (`CommittedWhole`, `CommittedStays`). A NUL character in a bundle
(answered 503 although no retry can help) is a property of the text, which is one model value. An
empty evaluation dataset divides by zero (`evaluate.py:114`): `EvaluateDataset` is applied to at
least one case. Which of several results of an incident counts is decided nowhere in the code, so no
property says it.

## 8. Plan

Done, in this order: the queue and its lifecycle, the pool, the queue's proofs, ingestion and its
ledger, the memory store, ingestion's proofs, drafts and their review with proofs, paging with proofs,
webhook deliveries; then the loop around the worker, the statements of a claim, the way of a request and
the stateless judgements; then the proofs about claims, workers, requests, the two in-memory stores and the
judgements. Left, in this order:

1. What the abstract specifications promise by themselves (`IngestionLedger`: no key and no identity is
   accepted twice; `DraftReview`: the decision told is the one made; `JobLifecycle`: attempts within what was
   granted), so that each refinement theorem yields its consequences by one step.
2. `OverlappingClaimsSafe` for workers: a pool over `ClaimLocks` in place of one-step claims.
