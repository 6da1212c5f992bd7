----------------------------- MODULE Ingestion -----------------------------
(***************************************************************************)
(* PostgresIngestionStore.ingest: POST /events on PostgreSQL, one action   *)
(* per statement of its transaction, run by any number of API threads and  *)
(* processes at once.                                                      *)
(*                                                                         *)
(* What the code relies on in PostgreSQL (READ COMMITTED): a row of an     *)
(* open transaction is invisible to the others but already occupies its    *)
(* unique key; an INSERT that meets such a key waits for that transaction  *)
(* to end; when transactions wait for each other in a circle, one of them  *)
(* is aborted; a transaction commits whole or leaves nothing.              *)
(***************************************************************************)
EXTENDS EventBundles

CONSTANT Clients   \* threads that call POST /events, one call at a time

VARIABLES
  event_ingestions,  \* key |-> its row, or Null
  incidents,         \* correlation_id |-> its row, or Null
  support_tickets,   \* ticket_id |-> its row, or Null
  evidence_events,   \* event_id |-> its row, or Null
  pc,                \* client |-> the statement it is at
  call,              \* client |-> [key, bundle] of its last call
  nextLog,           \* client |-> index of the log to insert next
  answer             \* client |-> [status, record] of its last call

tables == <<event_ingestions, incidents, support_tickets, evidence_events>>
vars == <<tables, pc, call, nextLog, answer>>

\* The statements of ingest, in order; "done" is between two calls.
InTransaction == {"receipt", "compare", "incident", "ticket", "evidence", "commit"}

\* "tx" is the client whose transaction wrote the row, Null once it is committed.  The id of
\* an incident (a fresh UUID) is named by the call it is made for.
CallType == [key : Keys, bundle : Bundles]
Owner == Clients \cup {Null}
ReceiptRow == [payload : Bundles, response_summary : Receipts, tx : Owner]
IncidentRow == [incident_id : CallType, tx : Owner]

ASSUME NullAssumption ==
  /\ Null \notin Clients
  /\ Null \notin CallType
  /\ Null \notin ReceiptRow
  /\ Null \notin IncidentRow

Row(table, x) == table[x] # Null
Committed(table, x) == Row(table, x) /\ table[x].tx = Null
Mine(table, x, c) == Row(table, x) /\ table[x].tx = c

IngestionTypeOK ==
  /\ event_ingestions \in [Keys -> ReceiptRow \cup {Null}]
  /\ incidents \in [Correlations -> IncidentRow \cup {Null}]
  /\ support_tickets \in [Tickets -> IncidentRow \cup {Null}]
  /\ evidence_events \in [Events -> IncidentRow \cup {Null}]
  /\ pc \in [Clients -> InTransaction \cup {"done"}]
  /\ call \in [Clients -> CallType \cup {Null}]
  /\ nextLog \in [Clients -> Nat \ {0}]
  /\ answer \in [Clients -> Answers]
  /\ \A c \in Clients :
       /\ pc[c] # "done" => call[c] # Null
       /\ pc[c] # "done" <=> answer[c].status = "pending"
       /\ pc[c] = "evidence" => nextLog[c] \in DOMAIN call[c].bundle.event_ids
       /\ pc[c] # "evidence" => nextLog[c] = 1

Init ==
  /\ event_ingestions = [key \in Keys |-> Null]
  /\ incidents = [id \in Correlations |-> Null]
  /\ support_tickets = [id \in Tickets |-> Null]
  /\ evidence_events = [id \in Events |-> Null]
  /\ pc = [c \in Clients |-> "done"]
  /\ call = [c \in Clients |-> Null]
  /\ nextLog = [c \in Clients |-> 1]
  /\ answer = [c \in Clients |-> NoAnswer]

-----------------------------------------------------------------------------
(* Ends of a call *)

Reply(c, status, record) ==
  /\ pc' = [pc EXCEPT ![c] = "done"]
  /\ nextLog' = [nextLog EXCEPT ![c] = 1]
  /\ answer' = [answer EXCEPT ![c] = [status |-> status, record |-> record]]
  /\ call' = call

Without(table, c) == [x \in DOMAIN table |-> IF Mine(table, x, c) THEN Null ELSE table[x]]

Sealed(table, c) ==
  [x \in DOMAIN table |->
     IF Mine(table, x, c) THEN [table[x] EXCEPT !.tx = Null] ELSE table[x]]

\* Faulty: the transaction is left open when a call fails.
RollbackForgotten(c, status) == UNCHANGED tables /\ Reply(c, status, Null)

\* engine.begin(): an exception rolls back, and decides the status of the answer.
Rollback(c, status) ==
  /\ event_ingestions' = Without(event_ingestions, c)
  /\ incidents' = Without(incidents, c)
  /\ support_tickets' = Without(support_tickets, c)
  /\ evidence_events' = Without(evidence_events, c)
  /\ Reply(c, status, Null)

-----------------------------------------------------------------------------
(* The statements *)

Key(c) == call[c].key
Bundle(c) == call[c].bundle

\* Faulty: the receipt is committed by a transaction of its own.
InsertReceiptAlone(c) ==
  /\ pc[c] = "receipt"
  /\ ~ Row(event_ingestions, Key(c))
  /\ event_ingestions' = [event_ingestions EXCEPT ![Key(c)] =
       [payload |-> Bundle(c), response_summary |-> Receipt(Key(c), Bundle(c)), tx |-> Null]]
  /\ pc' = [pc EXCEPT ![c] = "incident"]
  /\ UNCHANGED <<incidents, support_tickets, evidence_events, call, nextLog, answer>>

\* Faulty: the receipt of an open transaction counts as stored.
InsertReceiptAtOnce(c) ==
  /\ pc[c] = "receipt"
  /\ \/ /\ ~ Row(event_ingestions, Key(c))
        /\ event_ingestions' = [event_ingestions EXCEPT ![Key(c)] =
             [payload |-> Bundle(c), response_summary |-> Receipt(Key(c), Bundle(c)), tx |-> c]]
        /\ pc' = [pc EXCEPT ![c] = "incident"]
     \/ /\ Row(event_ingestions, Key(c))
        /\ event_ingestions' = event_ingestions
        /\ pc' = [pc EXCEPT ![c] = "compare"]
  /\ UNCHANGED <<incidents, support_tickets, evidence_events, call, nextLog, answer>>

\* ON CONFLICT DO NOTHING ... RETURNING: a row is inserted, or the key has a committed one.
InsertReceipt(c) ==
  /\ pc[c] = "receipt"
  /\ \/ /\ ~ Row(event_ingestions, Key(c))
        /\ event_ingestions' = [event_ingestions EXCEPT ![Key(c)] =
             [payload |-> Bundle(c), response_summary |-> Receipt(Key(c), Bundle(c)), tx |-> c]]
        /\ pc' = [pc EXCEPT ![c] = "incident"]
     \/ /\ Committed(event_ingestions, Key(c))
        /\ event_ingestions' = event_ingestions
        /\ pc' = [pc EXCEPT ![c] = "compare"]
  /\ UNCHANGED <<incidents, support_tickets, evidence_events, call, nextLog, answer>>

\* Faulty: the payload is not compared.
CompareNothing(c) ==
  /\ pc[c] = "compare"
  /\ Reply(c, "duplicate", event_ingestions[Key(c)].response_summary)
  /\ UNCHANGED tables

\* The losing call rereads the receipt of its key.
CompareReceipt(c) ==
  LET receipt == event_ingestions[Key(c)]
  IN  /\ pc[c] = "compare"
      /\ \/ /\ ~ Committed(event_ingestions, Key(c))
            /\ Reply(c, "storage_unavailable", Null)
         \/ /\ Committed(event_ingestions, Key(c))
            /\ receipt.payload # Bundle(c)
            /\ Reply(c, "idempotency_key_reused", Null)
         \/ /\ Committed(event_ingestions, Key(c))
            /\ receipt.payload = Bundle(c)
            /\ Reply(c, "duplicate", receipt.response_summary)
      /\ UNCHANGED tables

NewRow(c) == [incident_id |-> call[c], tx |-> c]

InsertIncident(c) ==
  LET id == Bundle(c).correlation_id
  IN  /\ pc[c] = "incident"
      /\ \/ /\ ~ Row(incidents, id)
            /\ incidents' = [incidents EXCEPT ![id] = NewRow(c)]
            /\ pc' = [pc EXCEPT ![c] = "ticket"]
            /\ UNCHANGED <<event_ingestions, support_tickets, evidence_events, call, nextLog,
                           answer>>
         \/ /\ Committed(incidents, id)
            /\ Rollback(c, "correlation_id_reused")

InsertTicket(c) ==
  LET id == Bundle(c).ticket_id
  IN  /\ pc[c] = "ticket"
      /\ \/ /\ ~ Row(support_tickets, id)
            /\ support_tickets' = [support_tickets EXCEPT ![id] = NewRow(c)]
            /\ pc' = [pc EXCEPT ![c] = "evidence"]
            /\ UNCHANGED <<event_ingestions, incidents, evidence_events, call, nextLog, answer>>
         \/ /\ Committed(support_tickets, id)
            /\ Rollback(c, "storage_identity_reused")

\* The next row of the list given to one INSERT, in the order of bundle.logs.
InsertEvidence(c) ==
  LET logs == Bundle(c).event_ids
      id == logs[nextLog[c]]
  IN  /\ pc[c] = "evidence"
      /\ \/ /\ ~ Row(evidence_events, id)
            /\ evidence_events' = [evidence_events EXCEPT ![id] = NewRow(c)]
            /\ \/ /\ nextLog[c] < Len(logs)
                  /\ nextLog' = [nextLog EXCEPT ![c] = @ + 1]
                  /\ pc' = pc
               \/ /\ nextLog[c] = Len(logs)
                  /\ nextLog' = [nextLog EXCEPT ![c] = 1]
                  /\ pc' = [pc EXCEPT ![c] = "commit"]
            /\ UNCHANGED <<event_ingestions, incidents, support_tickets, call, answer>>
         \/ /\ Committed(evidence_events, id)
            /\ Rollback(c, "storage_identity_reused")

\* The commit is acknowledged, or its acknowledgement (or the response) is lost.
Commit(c) ==
  /\ pc[c] = "commit"
  /\ event_ingestions' = Sealed(event_ingestions, c)
  /\ incidents' = Sealed(incidents, c)
  /\ support_tickets' = Sealed(support_tickets, c)
  /\ evidence_events' = Sealed(evidence_events, c)
  /\ \/ Reply(c, "accepted", Receipt(Key(c), Bundle(c)))
     \/ Reply(c, "storage_unavailable", Null)

\* The connection or the process is lost at any statement; PostgreSQL rolls back.
LoseConnection(c) ==
  /\ pc[c] \in InTransaction
  /\ Rollback(c, "storage_unavailable")

-----------------------------------------------------------------------------
(* Waiting *)

\* The transaction that occupies the key c is about to insert: c waits for it to end.
Blocker(c) ==
  LET holder(table, id) == IF Row(table, id) THEN table[id].tx ELSE Null
  IN  CASE pc[c] = "receipt"  -> holder(event_ingestions, Key(c))
        [] pc[c] = "incident" -> holder(incidents, Bundle(c).correlation_id)
        [] pc[c] = "ticket"   -> holder(support_tickets, Bundle(c).ticket_id)
        [] pc[c] = "evidence" -> holder(evidence_events, Bundle(c).event_ids[nextLog[c]])
        [] OTHER              -> Null

\* Every transaction waits for one at most, so that a set in which each waits for a member
\* and each is waited for by a member consists of circles.
Deadlocked(S) == {Blocker(c) : c \in S} = S

\* The deadlock detector picks c.
DeadlockVictim(c) ==
  /\ \E S \in SUBSET Clients : c \in S /\ Deadlocked(S)
  /\ Rollback(c, "storage_unavailable")

-----------------------------------------------------------------------------
(* Specification *)

\* A call; after any answer a client may send the same bundle again, or another.
Call(c) ==
  /\ pc[c] = "done"
  /\ \E key \in Keys, b \in Bundles : call' = [call EXCEPT ![c] = [key |-> key, bundle |-> b]]
  /\ pc' = [pc EXCEPT ![c] = "receipt"]
  /\ answer' = [answer EXCEPT ![c] = Pending]
  /\ UNCHANGED <<tables, nextLog>>

Step(c) ==
  \/ InsertReceipt(c)
  \/ CompareReceipt(c)
  \/ InsertIncident(c)
  \/ InsertTicket(c)
  \/ InsertEvidence(c)
  \/ Commit(c)
  \/ DeadlockVictim(c)

Next == \E c \in Clients : Call(c) \/ Step(c) \/ LoseConnection(c)

\* Statements return, deadlocks are detected, and a transaction that waits for a key is not
\* passed over for ever by others that take the key and roll back.
Fairness == \A c \in Clients : SF_vars(Step(c))

IngestionSpec == Init /\ [][Next]_vars /\ Fairness

-----------------------------------------------------------------------------
(* Correctness *)

Accepted == {key \in Keys : Committed(event_ingestions, key)}

\* The committed rows that the incident accepted under a key has in a table.
IncidentOf(key) == [key |-> key, bundle |-> event_ingestions[key].payload]
RowsOf(table, key) ==
  {x \in DOMAIN table : Committed(table, x) /\ table[x].incident_id = IncidentOf(key)}
NoOrphans(table) ==
  \A x \in DOMAIN table :
    Committed(table, x) => \E key \in Accepted : table[x].incident_id = IncidentOf(key)

\* A committed receipt comes with its incident, its ticket and every event of its bundle, and
\* nothing is committed but that: no answer and no reader ever meets a part of a bundle, and
\* get_incident's .one() finds its ticket (postgres.py:74-135, 218).
CommittedWhole ==
  /\ \A key \in Accepted :
       LET b == event_ingestions[key].payload
       IN  /\ event_ingestions[key].response_summary = Receipt(key, b)
           /\ RowsOf(incidents, key) = {b.correlation_id}
           /\ RowsOf(support_tickets, key) = {b.ticket_id}
           /\ RowsOf(evidence_events, key) = EventsOf(b)
  /\ NoOrphans(incidents)
  /\ NoOrphans(support_tickets)
  /\ NoOrphans(evidence_events)

\* The losing call of two with one key always finds the winner's receipt: its INSERT has
\* waited for the winner's commit, and the branch for a missing receipt (postgres.py:93) is
\* never taken.
ReceiptAlwaysFound == \A c \in Clients : pc[c] = "compare" => Key(c) \in Accepted

\* What is committed is never changed or removed, by replays, conflicts or aborted calls.
Keeps(table, table2) == \A x \in DOMAIN table : Committed(table, x) => table2[x] = table[x]
CommittedStays ==
  [][/\ Keeps(event_ingestions, event_ingestions')
     /\ Keeps(incidents, incidents')
     /\ Keeps(support_tickets, support_tickets')
     /\ Keeps(evidence_events, evidence_events')]_vars

StoredIdentities(b) == {<<"ticket", b.ticket_id>>} \cup {<<"event", id>> : id \in EventsOf(b)}
AcceptedBundles ==
  [key \in Keys |-> IF key \in Accepted THEN event_ingestions[key].payload ELSE Null]
Ledger == INSTANCE IngestionLedger WITH
  ledger <- AcceptedBundles, Identities <- StoredIdentities

\* Every call takes effect at one instant and is answered by what is accepted then: 201 to one
\* call per key at most, 200 with the first receipt to its exact replays, 409 only for a
\* conflict with an accepted bundle, and a lost answer hides an accepted bundle at most once.
ImplementsLedger == Ledger!Spec

\* Every call is answered, also when calls wait for each other in a circle: two bundles that
\* share events in opposite orders (postgres.py:120).
CallsAnswered == \A c \in Clients : pc[c] = "receipt" ~> pc[c] = "done"
=============================================================================
