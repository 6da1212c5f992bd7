---------------------------- MODULE EventBundles ----------------------------
(***************************************************************************)
(* Event bundles and the receipts the API answers with (schemas.py,        *)
(* ingestion.py).  A bundle is a record of the identities that decide what *)
(* a store answers; "text" stands for the rest of its canonical content,   *)
(* so that two bundles have the same payload hash iff they are equal.      *)
(***************************************************************************)
EXTENDS Naturals, Sequences

CONSTANTS
  Keys, Correlations, Tickets, Events, Texts,
  Bundles,   \* the validated bundles that clients send
  Null

\* LogEvents have distinct identifiers, and a bundle has at least one of them.
EventBundle(b) ==
  /\ b \in [correlation_id : Correlations, ticket_id : Tickets,
            event_ids : Seq(Events), text : Texts]
  /\ b.event_ids # <<>>
  /\ \A m, n \in DOMAIN b.event_ids : b.event_ids[m] = b.event_ids[n] => m = n

ASSUME BundlesAssumption ==
  /\ \A b \in Bundles : EventBundle(b)
  /\ Null \notin Keys \cup Bundles

EventsOf(b) == {b.event_ids[n] : n \in DOMAIN b.event_ids}

\* IngestionRecord
Receipt(key, b) ==
  [idempotency_key |-> key, correlation_id |-> b.correlation_id,
   ticket_id |-> b.ticket_id, log_count |-> Len(b.event_ids)]

\* The answers of POST /events by their problem codes; a client that has not called yet or
\* still waits has no answer.
Statuses ==
  {"none", "pending", "accepted", "duplicate", "idempotency_key_reused",
   "correlation_id_reused", "storage_identity_reused", "storage_unavailable"}
Receipts == {Receipt(key, b) : key \in Keys, b \in Bundles}
Answers == [status : Statuses, record : Receipts \cup {Null}]
NoAnswer == [status |-> "none", record |-> Null]
Pending == [status |-> "pending", record |-> Null]
=============================================================================
