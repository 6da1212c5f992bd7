----------------------------- MODULE Correlation -----------------------------
(***************************************************************************)
(* correlate_bundle (correlation.py): which of the candidate incidents a   *)
(* bundle belongs to, if any.  A bundle is the correlation id, users,      *)
(* services and the time span of its logs, a candidate an                  *)
(* IncidentFingerprint; ids are numbers, in the order of their strings.    *)
(***************************************************************************)
EXTENDS Integers, SequencesExt

CONSTANTS
  Null,
  TimeWindow,  \* time_window
  Threshold    \* threshold

SharesUser(bundle, candidate) == bundle.users \cap candidate.synthetic_user_ids # {}

SharesService(bundle, candidate) == bundle.services \cap candidate.services # {}

\* Faulty: only the later end of the window is looked at.
BeforeEndOfWindow(bundle, candidate) ==
  bundle.start <= candidate.observed_to + TimeWindow

InTimeWindow(bundle, candidate) ==
  /\ bundle.start <= candidate.observed_to + TimeWindow
  /\ bundle.end >= candidate.observed_from - TimeWindow

Points(matches, points) == IF matches THEN points ELSE 0
Reason(matches, reason) == IF matches THEN <<reason>> ELSE <<>>

Score(bundle, candidate) ==
  Points(SharesUser(bundle, candidate), 45)
    + Points(SharesService(bundle, candidate), 25)
    + Points(InTimeWindow(bundle, candidate), 20)

Reasons(bundle, candidate) ==
  Reason(SharesUser(bundle, candidate), "synthetic_identity_match")
    \o Reason(SharesService(bundle, candidate), "service_match")
    \o Reason(InTimeWindow(bundle, candidate), "time_window_match")

\* sorted(...)[0], which is stable: of the candidates at these places the one that comes
\* before all others, or the first of several that do.
FirstBy(Before(_, _), candidates, places) ==
  candidates[CHOOSE n \in places : \A m \in places \ {n} :
    \/ Before(candidates[n], candidates[m])
    \/ ~ Before(candidates[m], candidates[n]) /\ n < m]

Abstain(score, reason) ==
  [incident_id |-> Null, score |-> score, reason_codes |-> <<reason>>, abstained |-> TRUE]

Correlated(candidate, score, reasons) ==
  [incident_id |-> candidate.incident_id, score |-> score, reason_codes |-> reasons,
   abstained |-> FALSE]

Correlate(bundle, candidates) ==
  LET exact_matches ==
        {n \in DOMAIN candidates : candidates[n].correlation_id = bundle.correlation_id}
      SmallerId(c, d) == c.incident_id < d.incident_id
      Better(c, d) ==
        \/ Score(bundle, c) > Score(bundle, d)
        \/ Score(bundle, c) = Score(bundle, d) /\ SmallerId(c, d)
      best == FirstBy(Better, candidates, DOMAIN candidates)
  IN  IF exact_matches # {}
      THEN Correlated(FirstBy(SmallerId, candidates, exact_matches), 100, <<"exact_correlation_id">>)
      ELSE IF candidates = <<>> THEN Abstain(0, "no_correlation_candidates")
      ELSE IF Score(bundle, best) < Threshold
      THEN Abstain(Score(bundle, best), "below_correlation_threshold")
      ELSE Correlated(best, Score(bundle, best), Reasons(bundle, best))
=============================================================================
