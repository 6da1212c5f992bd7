------------------------------- MODULE Triage -------------------------------
(***************************************************************************)
(* The four judgements of the platform that keep no state, each on an      *)
(* input that grows by one item per step: the logs of a bundle are         *)
(* classified, a bundle is correlated with candidate incidents, an         *)
(* offboarding fixture is adapted, a dataset is evaluated.  Every order in *)
(* which the items can come is a behaviour, so that what must not depend   *)
(* on the order is compared with a definition by sets that cannot.         *)
(***************************************************************************)
EXTENDS Evaluation

CONSTANTS
  TimeWindow, Threshold,
  Logs,          \* log events
  Bundles,       \* bundles to correlate ...
  Candidates,    \* ... with these
  Fixtures,      \* [identity, endpoint, ticket] of offboarding fixtures
  AccessEvents,  \* their access events
  Cases,         \* evaluation cases
  Units,         \* what 1 is in a report: 10000 in the code (digits = 4, evaluate.py:160)
  MaxItems       \* task |-> bound: the items an input has at most

INSTANCE Correlation
INSTANCE Offboarding

ASSUME LogsAssumption ==
  /\ Null \notin Int
  /\ \A log \in Logs :
       {log.denied, log.mfa, log.lockout} \subseteq BOOLEAN /\ log.failure_count \in Int \cup {Null}

\* A user scores 45 and with the time 65, so that the threshold, 60, is between them.  A bundle's
\* span runs from its first log to its last (correlation.py:93-94); that a candidate's ends no
\* earlier than it begins is what its two times mean; nothing compares them.
ASSUME CorrelationAssumption ==
  /\ TimeWindow \in Nat /\ Threshold \in 46..65
  /\ \A b \in Bundles : {b.start, b.end} \subseteq Int /\ b.start <= b.end
  /\ \A c \in Candidates :
       /\ c.incident_id \in Nat
       /\ {c.observed_from, c.observed_to} \subseteq Int /\ c.observed_from <= c.observed_to

Timestamps == [instant : Int, offset : Int]

ASSUME FixturesAssumption ==
  /\ \A fixture \in Fixtures :
       /\ fixture.identity.event_id \in Nat
       /\ {fixture.identity.disabled_at, fixture.ticket.created_at} \subseteq Timestamps
  /\ \A event \in AccessEvents :
       /\ event = [event_id |-> event.event_id, observed_at |-> event.observed_at,
                   synthetic_user_id |-> event.synthetic_user_id,
                   synthetic_endpoint_id |-> event.synthetic_endpoint_id,
                   result |-> event.result]
       /\ event.event_id \in Nat /\ event.observed_at \in Timestamps
       /\ event.result \in {"allowed", "denied"}

ASSUME CasesAssumption == Units \subseteq Nat \ {0} /\ \A c \in Cases : c.log \in Logs

VARIABLES
  task,   \* "classify", "correlate", "adapt" or "evaluate"
  given,  \* the bundle, the fixture or the report's unit, Null for "classify"
  items   \* the logs, candidates, access events or cases so far

vars == <<task, given, items>>

Init ==
  /\ \/ task = "classify" /\ given = Null
     \/ task = "correlate" /\ given \in Bundles
     \/ task = "adapt" /\ given \in Fixtures
     \/ task = "evaluate" /\ given \in Units
  /\ items = <<>>

Grow(on, S) ==
  /\ task = on /\ Len(items) < MaxItems[on]
  /\ \E x \in S : items' = Append(items, x)
  /\ UNCHANGED <<task, given>>

\* The event ids of a bundle are unique (schemas.py:58).
AddLog == Grow("classify", {log \in Logs :
            \A n \in DOMAIN items : items[n].event_id # log.event_id})
AddCandidate == Grow("correlate", Candidates)
AddAccessEvent == Grow("adapt", AccessEvents)
AddCase == Grow("evaluate", Cases)

Next == AddLog \/ AddCandidate \/ AddAccessEvent \/ AddCase

TriageSpec == Init /\ [][Next]_vars

-----------------------------------------------------------------------------
(* Correctness *)

Supports(log, reason) ==
  CASE reason = "mfa_denied" -> DeniedMfa(log)
    [] reason = "account_lockout" -> LockedOut(log)
    [] reason = "repeated_failures" -> log.failure_count # Null /\ log.failure_count >= 3
    [] reason = "network_or_dns_failure" -> IsNetworkEvidence(log)
    [] reason = "endpoint_health_signal" -> IsEndpointEvidence(log)

\* Every reason of a category is the reason of a cited log, although citations and reasons are
\* found by different rules (classification.py:63, 107-114, auth_failures.py:44-54); only an
\* uncategorized bundle has no citation; the runbook draft classifies by the same signals; and
\* the classifier is surest only where the runbook draft is.
VerdictsSupported ==
  task = "classify" /\ items # <<>> =>
    LET result == Classify(items)
        runbook == DraftRunbookResponse(items)
        authentication == result.category = "authentication_failure"
    IN  /\ result.category # "uncategorized" =>
             \A reason \in result.reason_codes : \E log \in ToSet(items) :
               Supports(log, reason) /\ log.event_id \in result.cited_evidence_ids
        /\ result.category = "uncategorized" <=> result.cited_evidence_ids = {}
        /\ runbook.classification.category = "authentication_failure" <=> authentication
        /\ authentication => runbook.classification.reason_codes = result.reason_codes
        /\ result.confidence = 95 => runbook.classification.confidence = "high"
        /\ authentication /\ runbook.classification.confidence = "high" =>
             RiskLevel(result.reason_codes) = "high"

Rank == [low |-> 1, medium |-> 2, high |-> 3]

Gains(signals, later) ==
  /\ signals \subseteq later
  /\ Rank[RiskLevel(signals)] <= Rank[RiskLevel(later)]
  /\ Rank[ConfidenceForSignals(signals)] <= Rank[ConfidenceForSignals(later)]

Accumulates(logs, later) ==
  LET before == Classify(logs)
      after == Classify(later)
  IN  /\ Gains(SignalsForBundle(logs), SignalsForBundle(later))
      /\ before.category # "uncategorized" => after.category # "uncategorized"
      /\ before.category = "authentication_failure" => after.category = before.category
      /\ IF after.category = before.category
         THEN /\ before.confidence <= after.confidence
              /\ before.cited_evidence_ids \subseteq after.cited_evidence_ids
         ELSE Last(later).event_id \in after.cited_evidence_ids

\* A further log takes no signal away and lowers neither the risk nor the runbook draft's
\* confidence.  The classifier's own confidence may fall (from 0.85 to 0.80 or 0.82) and a verdict
\* on the network or the endpoint may be replaced, but only by one that cites the further log;
\* a verdict that stays keeps its citations and its confidence, one of an authentication failure
\* always stays, and none is withdrawn (auth_failures.py:41-56, classification.py:58-98).
EvidenceAccumulates == [][task = "classify" => Accumulates(items, items')]_vars

\* Two spans are near when an instant of one is within the window of an instant of the other.
Near(bundle, c) ==
  \E s \in bundle.start..bundle.end, t \in c.observed_from..c.observed_to :
    s - t \in -TimeWindow..TimeWindow

\* A bundle goes to an incident with its correlation id, or else to one that shares a user and
\* also a service or the time, to the best of these and among equals to the smallest id,
\* whatever the order of the candidates; with no such incident it goes nowhere: "weak scores
\* abstain" (docs/architecture.md:54, correlation.py:33-73).
CorrelatedOnMerit ==
  task = "correlate" =>
    LET result == Correlate(given, items)
        exact == {c \in ToSet(items) : c.correlation_id = given.correlation_id}
        akin == {c \in ToSet(items) :
          SharesUser(given, c) /\ (SharesService(given, c) \/ Near(given, c))}
        merit(c) == (IF SharesService(given, c) THEN 2 ELSE 0) + (IF Near(given, c) THEN 1 ELSE 0)
        chosen == IF exact # {} THEN exact
                  ELSE {c \in akin : \A d \in akin : merit(c) >= merit(d)}
    IN  /\ result.incident_id = IF chosen = {} THEN Null
                                ELSE Min({c.incident_id : c \in chosen})
        /\ result.abstained <=> chosen = {}
        /\ result.score >= Threshold <=> chosen # {}

\* The bundle of a fixture depends on which events it holds, not on their order, repetition or
\* time zones, nor on its ticket's, so that ingesting it again is a replay; it is a legal bundle,
\* the disablement first and every access after it; and a fixture with an unrelated, early or
\* ambiguous event is rejected, never repaired (offboarding.py:56-123).
OffboardingReplays ==
  task = "adapt" /\ items # <<>> =>
    LET identity == given.identity
        endpoint == given.endpoint
        bundle == AdaptOffboardingFixture(given, items)
        logs == bundle.logs
        accesses == {AccessLog(event) : event \in ToSet(items)}
        legal ==
          /\ endpoint.assigned_synthetic_user_id = identity.synthetic_user_id
          /\ \A event \in ToSet(items) : Linked(event, identity, endpoint)
          /\ \A a, b \in accesses : a.event_id = b.event_id => a = b
    IN  IF ~ legal THEN bundle = Rejected
        ELSE /\ bundle.created_at = [instant |-> Instant(given.ticket.created_at), offset |-> 0]
             /\ ToSet(logs) = accesses \cup {DisabledLog(identity, endpoint)}
             /\ Len(logs) = Cardinality({log.event_id : log \in ToSet(logs)})
             /\ \A m, n \in DOMAIN logs : m < n =>
                  LET a == Instant(logs[m].observed_at)
                      b == Instant(logs[n].observed_at)
                  IN  \/ a < b
                      \/ a = b /\ m > 1 /\ logs[m].event_id < logs[n].event_id

Right(cases) == {n \in DOMAIN cases : cases[n].expected_category = Predicted(cases[n])}

\* Twice the hits of a category over how often it is expected or predicted.
F1(category, cases) ==
  <<2 * Cardinality({n \in Right(cases) : cases[n].expected_category = category}),
    Cardinality({n \in DOMAIN cases : cases[n].expected_category = category})
      + Cardinality({n \in DOMAIN cases : Predicted(cases[n]) = category})>>

AddsUp(report, cases, unit) ==
  LET categories == DOMAIN report.per_category
      reach == Cardinality(categories) + 1
  IN  /\ \A category \in categories :
           LET f1 == F1(category, cases)
           IN  /\ Nearest(report.per_category[category].f1, f1, unit)
               /\ report.macro_f1 = unit => 2 * unit * (f1[2] - f1[1]) <= reach * f1[2]
      /\ Right(cases) = DOMAIN cases => report.macro_f1 = unit
      /\ report.macro_f1 = unit /\ reach * Len(cases) < unit => Right(cases) = DOMAIN cases
      /\ report.citation_validity = unit
      /\ report.unsupported_evidence_rate = 0

\* The report adds up although it is rounded, the macro average twice: every f1 is 2tp / (2tp + fp
\* + fn) to the nearest unit; when every case is right the macro average is 1; when it is 1 with k
\* expected categories, at most (k + 1) / 2 units of any category's 2tp + fp + fn are misjudged,
\* and no case of fewer than unit / (k + 1) is; and the rules classifier abstains or cites its
\* case (evaluate.py:95-161).
EvaluationAddsUp ==
  task = "evaluate" /\ items # <<>> => AddsUp(EvaluateDataset(items, given), items, given)
=============================================================================
