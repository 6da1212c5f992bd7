------------------------------ MODULE MCTriage ------------------------------
(* Items of every kind that the rules tell apart. *)
EXTENDS Triage

Event(id, denied, mfa, lockout, words, failure_count) ==
  [event_id |-> id, denied |-> denied, mfa |-> mfa, lockout |-> lockout,
   words |-> words, failure_count |-> failure_count]

MCLogs == {
  Event(1, TRUE, TRUE, FALSE, {}, Null),
  Event(2, TRUE, TRUE, TRUE, {}, 1),
  Event(3, FALSE, TRUE, FALSE, {}, 3),
  Event(4, FALSE, FALSE, FALSE, {"lockout", "network"}, Null),
  Event(5, FALSE, FALSE, FALSE, {"network"}, 2),
  Event(6, TRUE, FALSE, FALSE, {"endpoint"}, Null),
  Event(7, FALSE, FALSE, FALSE, {"network", "endpoint"}, Null),
  Event(8, FALSE, FALSE, FALSE, {"endpoint"}, Null),
  Event(9, FALSE, FALSE, FALSE, {}, Null)}

\* The cases of a dataset: right and wrong expectations of several categories.
MCCases ==
  {[expected_category |-> expected, log |-> log] :
     expected \in {"authentication_failure", "network_connectivity", "uncategorized"},
     log \in {log \in MCLogs : log.event_id \in {1, 5, 8, 9}}}

MCIncoming ==
  {[correlation_id |-> "c1", users |-> {"u1"}, services |-> {"s1"}, start |-> s, end |-> e] :
     s \in {5}, e \in {5, 6}}

Fingerprint(id, correlation, users, services, from, to) ==
  [incident_id |-> id, correlation_id |-> correlation, synthetic_user_ids |-> users,
   services |-> services, observed_from |-> from, observed_to |-> to]

MCCandidates ==
  {Fingerprint(3, "c1", {}, {}, 0, 0), Fingerprint(2, "c1", {"u1"}, {"s1"}, 5, 5)}
    \cup {Fingerprint(id, "c2", users, services, at, at) :
            id \in {1, 4}, users \in {{"u1"}, {"u2"}}, services \in {{"s1"}, {}},
            at \in {2, 3, 8}}

Time(instant, offset) == [instant |-> instant, offset |-> offset]

MCFixtures ==
  {[identity |-> [event_id |-> 1, synthetic_user_id |-> "u1", disabled_at |-> Time(1, 7)],
    endpoint |-> [synthetic_endpoint_id |-> "e1", assigned_synthetic_user_id |-> owner],
    ticket |-> [created_at |-> Time(1, 7)]] :
     owner \in {"u1", "u2"}}

Access(id, at, user, endpoint, result) ==
  [event_id |-> id, observed_at |-> at, synthetic_user_id |-> user,
   synthetic_endpoint_id |-> endpoint, result |-> result]

MCAccessEvents ==
  {Access(id, Time(instant, offset), "u1", "e1", "denied") :
     id \in {2, 3}, instant \in {2, 3}, offset \in {0, 7}}
    \cup {Access(2, Time(2, 0), "u1", "e1", "allowed"), Access(4, Time(1, 0), "u1", "e1", "denied"),
          Access(1, Time(3, 0), "u1", "e1", "denied"), Access(5, Time(2, 0), "u2", "e1", "denied"),
          Access(6, Time(2, 0), "u1", "e2", "denied")}

MCMaxItems == [classify |-> 4, correlate |-> 3, adapt |-> 4, evaluate |-> 3]
=============================================================================
