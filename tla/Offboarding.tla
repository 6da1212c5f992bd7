----------------------------- MODULE Offboarding -----------------------------
(***************************************************************************)
(* adapt_offboarding_fixture (offboarding.py): a fixture that has passed   *)
(* the schema becomes an event bundle, or is rejected (ValueError).  Of    *)
(* the ticket only the time it was created is kept, the one thing of it    *)
(* that changes.  An instant is a number with the UTC offset it is written *)
(* in; two timestamps are equal when their instants are, whatever the      *)
(* offsets.                                                                *)
(***************************************************************************)
EXTENDS Integers, SequencesExt

Rejected == [logs |-> <<>>]

Instant(timestamp) == timestamp.instant

\* Faulty: the offset is kept.
AsWritten(timestamp) == timestamp

\* astimezone(UTC)
InUTC(timestamp) == [timestamp EXCEPT !.offset = 0]

\* existing == event
SameEvent(event, existing) ==
  /\ Instant(event.observed_at) = Instant(existing.observed_at)
  /\ [event EXCEPT !.observed_at = 0] = [existing EXCEPT !.observed_at = 0]

\* The event's own checks; the order only decides which message is raised.
Linked(event, identity, endpoint) ==
  /\ event.synthetic_user_id = identity.synthetic_user_id
  /\ event.synthetic_endpoint_id = endpoint.synthetic_endpoint_id
  /\ Instant(event.observed_at) > Instant(identity.disabled_at)
  /\ event.event_id # identity.event_id

\* events[n] has the id of an earlier event and another content.
Conflicts(events, n) ==
  \E m \in 1..n - 1 :
    events[m].event_id = events[n].event_id /\ ~ SameEvent(events[n], events[m])

\* events_by_id.values(): the last of the repeated events, which is equal to the others.
EventsById(events) ==
  {events[n] : n \in {n \in DOMAIN events :
     \A m \in n + 1..Len(events) : events[m].event_id # events[n].event_id}}

Earlier(event, other) ==
  \/ Instant(event.observed_at) < Instant(other.observed_at)
  \/ /\ Instant(event.observed_at) = Instant(other.observed_at)
     /\ event.event_id < other.event_id

\* sorted(..., key=lambda item: (item.observed_at, item.event_id)) of events with distinct ids
SortedByTime(events) ==
  CHOOSE sorted \in [1..Cardinality(events) -> events] :
    \A m, n \in DOMAIN sorted : m < n => Earlier(sorted[m], sorted[n])

DisabledLog(identity, endpoint) ==
  [event_id |-> identity.event_id, observed_at |-> InUTC(identity.disabled_at),
   severity |-> "info", synthetic_user_id |-> identity.synthetic_user_id,
   result |-> "disabled", synthetic_endpoint_id |-> endpoint.synthetic_endpoint_id]

AccessLog(event) ==
  [event_id |-> event.event_id, observed_at |-> InUTC(event.observed_at),
   severity |-> IF event.result = "allowed" THEN "error" ELSE "warning",
   synthetic_user_id |-> event.synthetic_user_id, result |-> event.result,
   synthetic_endpoint_id |-> event.synthetic_endpoint_id]

AdaptOffboardingFixture(source, events) ==
  LET identity == source.identity
      endpoint == source.endpoint
      sorted == SortedByTime(EventsById(events))
  IN  IF \/ endpoint.assigned_synthetic_user_id # identity.synthetic_user_id
         \/ \E n \in DOMAIN events :
              ~ Linked(events[n], identity, endpoint) \/ Conflicts(events, n)
      THEN Rejected
      ELSE [created_at |-> InUTC(source.ticket.created_at),
            logs |-> <<DisabledLog(identity, endpoint)>>
                       \o [n \in DOMAIN sorted |-> AccessLog(sorted[n])]]
=============================================================================
