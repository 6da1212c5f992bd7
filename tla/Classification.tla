--------------------------- MODULE Classification ---------------------------
(***************************************************************************)
(* The rules behind a classification and behind the two previews of        *)
(* POST /investigations: the signals of authentication failure             *)
(* (auth_failures.py), the rules classifier (classification.py) and the    *)
(* runbook draft's own classification (runbooks.py).                       *)
(*                                                                         *)
(* A log event is what the rules look at: `denied` and `mfa` say what its  *)
(* attributes result and auth_method say, `lockout` that the attribute is  *)
(* True, failure_count is Null unless it is an int, and `words` holds the  *)
(* kinds of tokens that its message (for "lockout") and its service or     *)
(* message (for "network" and "endpoint") contain.  Signals and citations  *)
(* are sets: nothing is decided by their order.                            *)
(***************************************************************************)
EXTENDS Integers, SequencesExt

CONSTANT Null

Words == {"lockout", "network", "endpoint"}

Signalled == {"mfa_denied", "account_lockout", "repeated_failures"}

-----------------------------------------------------------------------------
(* auth_failures.py *)

DeniedMfa(log) == log.denied /\ log.mfa

LockedOut(log) == log.lockout \/ "lockout" \in log.words

SignalsOf(log) ==
  (IF DeniedMfa(log) THEN {"mfa_denied"} ELSE {})
    \cup (IF LockedOut(log) THEN {"account_lockout"} ELSE {})

\* Faulty: the last count wins.
LastFailureCount(logs) ==
  LET counted == SelectSeq(logs, LAMBDA log : log.failure_count # Null)
  IN  IF counted = <<>> THEN 0 ELSE Last(counted).failure_count

FailureCount(logs) == Max({0} \cup ({log.failure_count : log \in ToSet(logs)} \ {Null}))

\* list(dict.fromkeys(signals))
SignalsForBundle(logs) ==
  (UNION {SignalsOf(log) : log \in ToSet(logs)})
    \cup (IF FailureCount(logs) >= 3 THEN {"repeated_failures"} ELSE {})

RiskLevel(signals) ==
  IF signals \cap {"account_lockout", "repeated_failures"} # {} THEN "high"
  ELSE IF "mfa_denied" \in signals THEN "medium" ELSE "low"

-----------------------------------------------------------------------------
(* classification.py *)

\* Faulty: a log that only counts failures is no evidence.
IsSignalEvidence(log) == log.denied \/ LockedOut(log)

IsAuthenticationEvidence(log) == log.denied \/ LockedOut(log) \/ log.failure_count # Null

IsNetworkEvidence(log) == "network" \in log.words

IsEndpointEvidence(log) == "endpoint" \in log.words

EventIds(logs) == {log.event_id : log \in logs}

Result(category, confidence, evidence, reason_codes) ==
  [category |-> category, confidence |-> confidence,
   cited_evidence_ids |-> EventIds(evidence), reason_codes |-> reason_codes]

\* Confidence in hundredths.  The logs of a bundle are distinct (schemas.py:58).
Classify(logs) ==
  LET signals == SignalsForBundle(logs)
      network_logs == {log \in ToSet(logs) : IsNetworkEvidence(log)}
      endpoint_logs == {log \in ToSet(logs) : IsEndpointEvidence(log)}
  IN  IF signals # {}
      THEN Result("authentication_failure", IF Cardinality(signals) >= 3 THEN 95 ELSE 80,
                  {log \in ToSet(logs) : IsAuthenticationEvidence(log)}, signals)
      ELSE IF network_logs # {} /\ Cardinality(network_logs) >= Cardinality(endpoint_logs)
      THEN Result("network_connectivity", 85, network_logs, {"network_or_dns_failure"})
      ELSE IF endpoint_logs # {}
      THEN Result("endpoint_health", 82, endpoint_logs, {"endpoint_health_signal"})
      ELSE Result("uncategorized", 20, {}, {"insufficient_supported_evidence"})

-----------------------------------------------------------------------------
(* runbooks.py *)

ConfidenceForSignals(signals) ==
  IF {"account_lockout", "repeated_failures"} \subseteq signals THEN "high"
  ELSE IF "mfa_denied" \in signals THEN "medium" ELSE "low"

ClassifyIncident(logs) ==
  LET signals == SignalsForBundle(logs)
  IN  IF signals # {}
      THEN [category |-> "authentication_failure",
            confidence |-> ConfidenceForSignals(signals), reason_codes |-> signals]
      ELSE [category |-> "uncategorized", confidence |-> "low", reason_codes |-> {}]

\* The draft waits for approval whatever it suggests.
DraftRunbookResponse(logs) ==
  LET classification == ClassifyIncident(logs)
  IN  [classification |-> classification,
       approval_status |-> "pending_human_approval", approval_required |-> TRUE,
       suggested_runbook |-> IF classification.category = "authentication_failure"
                             THEN "reset_authentication" ELSE "collect_evidence"]
=============================================================================
