-------------------------- MODULE IngestionProofs --------------------------
(***************************************************************************)
(* Ingestion for any number of clients, keys and bundles.  The argument:   *)
(* what a transaction has written so far is a function of the statement it *)
(* is at (Writes), so that a commit makes exactly one whole bundle         *)
(* visible, and a conflict is always one with an accepted bundle.          *)
(***************************************************************************)
EXTENDS Ingestion, TLAPS

AfterReceipt == {"incident", "ticket", "evidence", "commit"}
AfterIncident == {"ticket", "evidence", "commit"}
AfterTicket == {"evidence", "commit"}

\* The events a transaction has inserted.
Inserted(c) ==
  {id \in Events :
     \/ pc[c] = "commit" /\ id \in EventsOf(Bundle(c))
     \/ pc[c] = "evidence" /\ \E n \in DOMAIN Bundle(c).event_ids :
                                n < nextLog[c] /\ id = Bundle(c).event_ids[n]}

WritesReceipt(c) ==
  \A key \in Keys :
    /\ Mine(event_ingestions, key, c) <=> pc[c] \in AfterReceipt /\ key = Key(c)
    /\ Mine(event_ingestions, key, c) =>
         /\ event_ingestions[key].payload = Bundle(c)
         /\ event_ingestions[key].response_summary = Receipt(key, Bundle(c))

WritesIncident(c) ==
  \A id \in Correlations :
    /\ Mine(incidents, id, c) <=> pc[c] \in AfterIncident /\ id = Bundle(c).correlation_id
    /\ Mine(incidents, id, c) => incidents[id].incident_id = call[c]

WritesTicket(c) ==
  \A id \in Tickets :
    /\ Mine(support_tickets, id, c) <=> pc[c] \in AfterTicket /\ id = Bundle(c).ticket_id
    /\ Mine(support_tickets, id, c) => support_tickets[id].incident_id = call[c]

WritesEvidence(c) ==
  \A id \in Events :
    /\ Mine(evidence_events, id, c) <=> id \in Inserted(c)
    /\ Mine(evidence_events, id, c) => evidence_events[id].incident_id = call[c]

Writes(c) == WritesReceipt(c) /\ WritesIncident(c) /\ WritesTicket(c) /\ WritesEvidence(c)

AllWrite == \A c \in Clients : Writes(c)

IInv == IngestionTypeOK /\ AllWrite /\ ReceiptAlwaysFound /\ CommittedWhole

-----------------------------------------------------------------------------
(* Facts about bundles and rows *)

LEMMA BundleFacts ==
  ASSUME NEW b \in Bundles
  PROVE  /\ b.correlation_id \in Correlations
         /\ b.ticket_id \in Tickets
         /\ b.event_ids \in Seq(Events)
         /\ b.event_ids # <<>>
         /\ Len(b.event_ids) \in Nat \ {0}
         /\ DOMAIN b.event_ids = 1..Len(b.event_ids)
         /\ \A n \in DOMAIN b.event_ids : b.event_ids[n] \in Events
         /\ \A m, n \in DOMAIN b.event_ids : b.event_ids[m] = b.event_ids[n] => m = n
         /\ EventsOf(b) \subseteq Events
BY BundlesAssumption DEF EventBundle, EventsOf

LEMMA ReceiptFacts ==
  ASSUME NEW key \in Keys, NEW b \in Bundles
  PROVE  Receipt(key, b) \in Receipts
BY DEF Receipts

LEMMA AnswerFacts ==
  /\ NoAnswer \in Answers
  /\ Pending \in Answers
  /\ \A status \in Statuses, record \in Receipts \cup {Null} :
       /\ [status |-> status, record |-> record] \in Answers
       /\ [status |-> status, record |-> record].status = status
BY DEF Answers, NoAnswer, Pending, Statuses

-----------------------------------------------------------------------------
(* Tables.  table2 differs from table in open rows of c at most. *)

Beside(table, table2, c) ==
  /\ DOMAIN table2 = DOMAIN table
  /\ \A x \in DOMAIN table :
       /\ Committed(table2, x) <=> Committed(table, x)
       /\ Committed(table, x) => table2[x] = table[x]
       /\ \A d \in Clients \ {c} :
            /\ Mine(table2, x, d) <=> Mine(table, x, d)
            /\ Mine(table, x, d) => table2[x] = table[x]

LEMMA RollbackBeside ==
  ASSUME NEW D, NEW R, NEW table \in [D -> R \cup {Null}], NEW c \in Clients,
         NEW table2, table2 = Without(table, c)
  PROVE  /\ Beside(table, table2, c)
         /\ table2 \in [D -> R \cup {Null}]
         /\ \A x \in D : ~ Mine(table2, x, c)
BY NullAssumption DEF Beside, Without, Row, Committed, Mine

LEMMA UnchangedBeside ==
  ASSUME NEW table, NEW c
  PROVE  Beside(table, table, c)
BY DEF Beside

\* The effect of a commit on one table.
SealedBy(table, table2, c) ==
  /\ DOMAIN table2 = DOMAIN table
  /\ \A x \in DOMAIN table :
       /\ Committed(table2, x) <=> Committed(table, x) \/ Mine(table, x, c)
       /\ ~ Mine(table2, x, c)
       /\ ~ Mine(table, x, c) => table2[x] = table[x]
       /\ \A d \in Clients \ {c} : Mine(table2, x, d) <=> Mine(table, x, d)

LEMMA SealedReceipts ==
  ASSUME NEW D, NEW table \in [D -> ReceiptRow \cup {Null}], NEW c \in Clients,
         NEW table2, table2 = Sealed(table, c)
  PROVE  /\ SealedBy(table, table2, c)
         /\ table2 \in [D -> ReceiptRow \cup {Null}]
         /\ \A x \in D : Row(table, x) =>
              /\ table2[x].payload = table[x].payload
              /\ table2[x].response_summary = table[x].response_summary
<1>1. \A r \in ReceiptRow : /\ [r EXCEPT !.tx = Null] \in ReceiptRow
                            /\ [r EXCEPT !.tx = Null].tx = Null
                            /\ [r EXCEPT !.tx = Null].payload = r.payload
                            /\ [r EXCEPT !.tx = Null].response_summary = r.response_summary
  BY DEF ReceiptRow, Owner
<1>2. Null \notin ReceiptRow /\ Null \notin Clients
  BY NullAssumption
<1>3. table2 = [x \in D |-> IF Mine(table, x, c) THEN [table[x] EXCEPT !.tx = Null] ELSE table[x]]
  BY DEF Sealed
<1>4. \A x \in D : Row(table, x) => table[x] \in ReceiptRow
  BY DEF Row
<1>5. \A x \in D : Mine(table, x, c) =>
        /\ table2[x] \in ReceiptRow /\ table2[x] # Null /\ table2[x].tx = Null
        /\ table2[x].payload = table[x].payload
        /\ table2[x].response_summary = table[x].response_summary
  BY <1>1, <1>2, <1>3, <1>4 DEF Mine
<1>6. \A x \in D : ~ Mine(table, x, c) => table2[x] = table[x]
  BY <1>3
<1>7. table2 \in [D -> ReceiptRow \cup {Null}]
  BY <1>1, <1>3, <1>4 DEF Mine
<1>8. SealedBy(table, table2, c)
  BY <1>2, <1>3, <1>5, <1>6 DEF SealedBy, Row, Committed, Mine
<1> QED
  BY <1>5, <1>6, <1>7, <1>8

LEMMA SealedIncidents ==
  ASSUME NEW D, NEW table \in [D -> IncidentRow \cup {Null}], NEW c \in Clients,
         NEW table2, table2 = Sealed(table, c)
  PROVE  /\ SealedBy(table, table2, c)
         /\ table2 \in [D -> IncidentRow \cup {Null}]
         /\ \A x \in D : Row(table, x) => table2[x].incident_id = table[x].incident_id
<1>1. \A r \in IncidentRow : /\ [r EXCEPT !.tx = Null] \in IncidentRow
                             /\ [r EXCEPT !.tx = Null].tx = Null
                             /\ [r EXCEPT !.tx = Null].incident_id = r.incident_id
  BY DEF IncidentRow, Owner
<1>2. Null \notin IncidentRow /\ Null \notin Clients
  BY NullAssumption
<1>3. table2 = [x \in D |-> IF Mine(table, x, c) THEN [table[x] EXCEPT !.tx = Null] ELSE table[x]]
  BY DEF Sealed
<1>4. \A x \in D : Row(table, x) => table[x] \in IncidentRow
  BY DEF Row
<1>5. \A x \in D : Mine(table, x, c) =>
        /\ table2[x] \in IncidentRow /\ table2[x] # Null /\ table2[x].tx = Null
        /\ table2[x].incident_id = table[x].incident_id
  BY <1>1, <1>2, <1>3, <1>4 DEF Mine
<1>6. \A x \in D : ~ Mine(table, x, c) => table2[x] = table[x]
  BY <1>3
<1>7. table2 \in [D -> IncidentRow \cup {Null}]
  BY <1>1, <1>3, <1>4 DEF Mine
<1>8. SealedBy(table, table2, c)
  BY <1>2, <1>3, <1>5, <1>6 DEF SealedBy, Row, Committed, Mine
<1> QED
  BY <1>5, <1>6, <1>7, <1>8

-----------------------------------------------------------------------------
(* Types *)

LEMMA RollbackType ==
  ASSUME IngestionTypeOK, NEW c \in Clients, NEW status \in Statuses \ {"pending"},
         pc[c] \in InTransaction, Rollback(c, status)
  PROVE  IngestionTypeOK'
<1>1. /\ event_ingestions' \in [Keys -> ReceiptRow \cup {Null}]
      /\ incidents' \in [Correlations -> IncidentRow \cup {Null}]
      /\ support_tickets' \in [Tickets -> IncidentRow \cup {Null}]
      /\ evidence_events' \in [Events -> IncidentRow \cup {Null}]
  BY NullAssumption, RollbackBeside DEF Rollback, IngestionTypeOK
<1>2. [status |-> status, record |-> Null] \in Answers
  BY AnswerFacts
<1> QED
  BY <1>1, <1>2 DEF Rollback, Reply, IngestionTypeOK, Answers, Statuses

LEMMA ReplyType ==
  ASSUME IngestionTypeOK, NEW c \in Clients, NEW status \in Statuses \ {"pending"},
         NEW record \in Receipts \cup {Null}, pc[c] \in InTransaction, Reply(c, status, record),
         event_ingestions' \in [Keys -> ReceiptRow \cup {Null}],
         incidents' \in [Correlations -> IncidentRow \cup {Null}],
         support_tickets' \in [Tickets -> IncidentRow \cup {Null}],
         evidence_events' \in [Events -> IncidentRow \cup {Null}]
  PROVE  IngestionTypeOK'
<1>1. [status |-> status, record |-> record] \in Answers
  BY AnswerFacts
<1> QED
  BY <1>1 DEF Reply, IngestionTypeOK, Answers, Statuses

LEMMA CallFacts ==
  ASSUME IngestionTypeOK, NEW c \in Clients, pc[c] # "done"
  PROVE  /\ call[c] \in CallType
         /\ Key(c) \in Keys
         /\ Bundle(c) \in Bundles
         /\ Bundle(c).correlation_id \in Correlations
         /\ Bundle(c).ticket_id \in Tickets
         /\ pc[c] = "evidence" => /\ nextLog[c] \in DOMAIN Bundle(c).event_ids
                                  /\ Bundle(c).event_ids[nextLog[c]] \in Events
<1>1. call[c] \in CallType /\ Key(c) \in Keys /\ Bundle(c) \in Bundles
  BY DEF IngestionTypeOK, CallType, Key, Bundle
<1> QED
  BY <1>1, BundleFacts DEF IngestionTypeOK, Bundle

LEMMA NewRowFacts ==
  ASSUME NEW c \in Clients, call[c] \in CallType
  PROVE  /\ NewRow(c) \in IncidentRow
         /\ NewRow(c).tx = c
         /\ NewRow(c).incident_id = call[c]
BY DEF NewRow, IncidentRow, Owner

LEMMA NewReceiptFacts ==
  ASSUME NEW c \in Clients, NEW key \in Keys, NEW b \in Bundles, NEW row,
         row = [payload |-> b, response_summary |-> Receipt(key, b), tx |-> c]
  PROVE  /\ row \in ReceiptRow
         /\ row.tx = c
         /\ row.payload = b
         /\ row.response_summary = Receipt(key, b)
BY ReceiptFacts DEF ReceiptRow, Owner

\* Only a transaction can be in a circle of waiting ones.
LEMMA VictimInTransaction ==
  ASSUME IngestionTypeOK, NEW c \in Clients, DeadlockVictim(c)
  PROVE  pc[c] \in InTransaction
<1>1. PICK S \in SUBSET Clients : c \in S /\ {Blocker(d) : d \in S} = S
  BY DEF DeadlockVictim, Deadlocked
<1>2. Blocker(c) \in Clients
  BY <1>1
<1>3. Blocker(c) # Null
  BY <1>2, NullAssumption
<1> QED
  BY <1>3 DEF Blocker, IngestionTypeOK, InTransaction

LEMMA IngestionTypeStep == IngestionTypeOK /\ [Next]_vars => IngestionTypeOK'
<1> SUFFICES ASSUME IngestionTypeOK, [Next]_vars PROVE IngestionTypeOK'
  OBVIOUS
<1>1. CASE UNCHANGED vars
  BY <1>1 DEF vars, tables, IngestionTypeOK
<1>2. ASSUME NEW c \in Clients, Call(c) PROVE IngestionTypeOK'
  <2>1. PICK key \in Keys, b \in Bundles : call' = [call EXCEPT ![c] = [key |-> key, bundle |-> b]]
    BY <1>2 DEF Call
  <2>2. [key |-> key, bundle |-> b] \in CallType /\ [key |-> key, bundle |-> b] # Null
    BY NullAssumption DEF CallType
  <2> HIDE DEF CallType
  <2> QED
    BY <1>2, <2>1, <2>2, AnswerFacts
    DEF Call, IngestionTypeOK, tables, Pending, InTransaction, Answers
<1>3. ASSUME NEW c \in Clients, InsertReceipt(c) PROVE IngestionTypeOK'
  <2>1. Key(c) \in Keys /\ Bundle(c) \in Bundles
    BY <1>3, CallFacts DEF InsertReceipt
  <2>2. event_ingestions' \in [Keys -> ReceiptRow \cup {Null}]
    BY <1>3, <2>1, NewReceiptFacts DEF InsertReceipt, IngestionTypeOK
  <2> QED
    BY <1>3, <2>2 DEF InsertReceipt, IngestionTypeOK, InTransaction
<1>4. ASSUME NEW c \in Clients, CompareReceipt(c) PROVE IngestionTypeOK'
  <2>1. Committed(event_ingestions, Key(c)) =>
          event_ingestions[Key(c)].response_summary \in Receipts
    BY <1>4, CallFacts DEF CompareReceipt, Committed, Row, IngestionTypeOK, ReceiptRow
  <2>2. \E status \in Statuses \ {"pending"}, record \in Receipts \cup {Null} :
          Reply(c, status, record)
    BY <1>4, <2>1 DEF CompareReceipt, Statuses
  <2> QED
    BY <1>4, <2>2, ReplyType DEF CompareReceipt, tables, IngestionTypeOK, InTransaction
<1>5. ASSUME NEW c \in Clients, InsertIncident(c) PROVE IngestionTypeOK'
  <2>1. CASE Rollback(c, "correlation_id_reused")
    BY <1>5, <2>1, RollbackType DEF InsertIncident, InTransaction, Statuses
  <2>2. CASE incidents' = [incidents EXCEPT ![Bundle(c).correlation_id] = NewRow(c)]
    <3>1. incidents' \in [Correlations -> IncidentRow \cup {Null}]
      BY <1>5, <2>2, CallFacts, NewRowFacts DEF InsertIncident, IngestionTypeOK
    <3>2. CASE pc' = [pc EXCEPT ![c] = "ticket"] /\
               UNCHANGED <<event_ingestions, support_tickets, evidence_events, call, nextLog, answer>>
      BY <1>5, <3>1, <3>2 DEF InsertIncident, IngestionTypeOK, InTransaction
    <3> QED
      BY <1>5, <2>1, <3>2 DEF InsertIncident
  <2> QED
    BY <1>5, <2>1, <2>2 DEF InsertIncident
<1>6. ASSUME NEW c \in Clients, InsertTicket(c) PROVE IngestionTypeOK'
  <2>1. CASE Rollback(c, "storage_identity_reused")
    BY <1>6, <2>1, RollbackType DEF InsertTicket, InTransaction, Statuses
  <2>2. CASE /\ support_tickets' = [support_tickets EXCEPT ![Bundle(c).ticket_id] = NewRow(c)]
             /\ pc' = [pc EXCEPT ![c] = "evidence"]
             /\ UNCHANGED <<event_ingestions, incidents, evidence_events, call, nextLog, answer>>
    <3>1. support_tickets' \in [Tickets -> IncidentRow \cup {Null}]
      BY <1>6, <2>2, CallFacts, NewRowFacts DEF InsertTicket, IngestionTypeOK
    <3>2. nextLog[c] = 1 /\ 1 \in DOMAIN call[c].bundle.event_ids
      BY <1>6, CallFacts, BundleFacts DEF InsertTicket, IngestionTypeOK, Bundle
    <3> QED
      BY <1>6, <2>2, <3>1, <3>2 DEF InsertTicket, IngestionTypeOK, InTransaction
  <2> QED
    BY <1>6, <2>1, <2>2 DEF InsertTicket
<1>7. ASSUME NEW c \in Clients, InsertEvidence(c) PROVE IngestionTypeOK'
  <2>1. CASE Rollback(c, "storage_identity_reused")
    BY <1>7, <2>1, RollbackType DEF InsertEvidence, InTransaction, Statuses
  <2> DEFINE id == Bundle(c).event_ids[nextLog[c]]
  <2>2. CASE /\ evidence_events' = [evidence_events EXCEPT ![id] = NewRow(c)]
             /\ ~ Rollback(c, "storage_identity_reused")
    <3>1. evidence_events' \in [Events -> IncidentRow \cup {Null}]
      BY <1>7, <2>2, CallFacts, NewRowFacts DEF InsertEvidence, IngestionTypeOK
    <3>2. nextLog[c] \in 1..Len(call[c].bundle.event_ids)
            /\ DOMAIN call[c].bundle.event_ids = 1..Len(call[c].bundle.event_ids)
            /\ Len(call[c].bundle.event_ids) \in Nat
      BY <1>7, CallFacts, BundleFacts DEF InsertEvidence, IngestionTypeOK, Bundle
    <3>3. CASE nextLog' = [nextLog EXCEPT ![c] = @ + 1] /\ pc' = pc
                 /\ nextLog[c] < Len(call[c].bundle.event_ids)
      BY <1>7, <2>2, <3>1, <3>2, <3>3 DEF InsertEvidence, IngestionTypeOK
    <3>4. CASE nextLog' = [nextLog EXCEPT ![c] = 1] /\ pc' = [pc EXCEPT ![c] = "commit"]
      BY <1>7, <2>2, <3>1, <3>4 DEF InsertEvidence, IngestionTypeOK, InTransaction
    <3> QED
      BY <1>7, <2>2, <3>3, <3>4 DEF InsertEvidence, Bundle
  <2> QED
    BY <1>7, <2>1, <2>2 DEF InsertEvidence
<1>8. ASSUME NEW c \in Clients, Commit(c) PROVE IngestionTypeOK'
  <2>1. /\ event_ingestions' \in [Keys -> ReceiptRow \cup {Null}]
        /\ incidents' \in [Correlations -> IncidentRow \cup {Null}]
        /\ support_tickets' \in [Tickets -> IncidentRow \cup {Null}]
        /\ evidence_events' \in [Events -> IncidentRow \cup {Null}]
    BY <1>8, SealedReceipts, SealedIncidents DEF Commit, IngestionTypeOK
  <2>2. Receipt(Key(c), Bundle(c)) \in Receipts
    BY <1>8, CallFacts, ReceiptFacts DEF Commit
  <2> QED
    BY <1>8, <2>1, <2>2, ReplyType DEF Commit, InTransaction, Statuses
<1>9. ASSUME NEW c \in Clients, LoseConnection(c) PROVE IngestionTypeOK'
  BY <1>9, RollbackType DEF LoseConnection, Statuses
<1>10. ASSUME NEW c \in Clients, DeadlockVictim(c) PROVE IngestionTypeOK'
  <2>1. pc[c] \in InTransaction
    BY <1>10, VictimInTransaction
  <2> QED
    BY <1>10, <2>1, RollbackType DEF DeadlockVictim, Statuses
<1> QED
  BY <1>1, <1>2, <1>3, <1>4, <1>5, <1>6, <1>7, <1>8, <1>9, <1>10 DEF Next, Step

\* Every row, statement counter and answer has its type in every reachable state, for any number
\* of clients, keys and bundles.
THEOREM IngestionTypeCorrect == IngestionSpec => []IngestionTypeOK
<1>1. Init => IngestionTypeOK
  BY AnswerFacts DEF Init, IngestionTypeOK, NoAnswer
<1>2. IngestionTypeOK /\ [Next]_vars => IngestionTypeOK'
  BY IngestionTypeStep
<1> QED
  BY <1>1, <1>2, PTL DEF IngestionSpec

-----------------------------------------------------------------------------
(* What a step of c leaves alone *)

BesideAll(c) ==
  /\ Beside(event_ingestions, event_ingestions', c)
  /\ Beside(incidents, incidents', c)
  /\ Beside(support_tickets, support_tickets', c)
  /\ Beside(evidence_events, evidence_events', c)

OthersStay(c) == \A d \in Clients \ {c} :
  pc'[d] = pc[d] /\ call'[d] = call[d] /\ nextLog'[d] = nextLog[d]

\* The open rows of the other transactions.
OpenStay(table, table2, c) ==
  \A x \in DOMAIN table, d \in Clients \ {c} :
    /\ Mine(table2, x, d) <=> Mine(table, x, d)
    /\ Mine(table, x, d) => table2[x] = table[x]

OpenStayAll(c) ==
  /\ OpenStay(event_ingestions, event_ingestions', c)
  /\ OpenStay(incidents, incidents', c)
  /\ OpenStay(support_tickets, support_tickets', c)
  /\ OpenStay(evidence_events, evidence_events', c)

LEMMA OthersWrite ==
  ASSUME IngestionTypeOK, AllWrite, NEW c \in Clients, OpenStayAll(c), OthersStay(c),
         NEW d \in Clients \ {c}
  PROVE  Writes(d)'
<1>1. pc'[d] = pc[d] /\ call'[d] = call[d] /\ nextLog'[d] = nextLog[d] /\ Writes(d)
  BY DEF OthersStay, AllWrite
<1>2. WritesReceipt(d)'
  BY <1>1 DEF IngestionTypeOK, OpenStayAll, OpenStay, Writes, WritesReceipt, Key, Bundle
<1>3. WritesIncident(d)'
  BY <1>1 DEF IngestionTypeOK, OpenStayAll, OpenStay, Writes, WritesIncident, Bundle
<1>4. WritesTicket(d)'
  BY <1>1 DEF IngestionTypeOK, OpenStayAll, OpenStay, Writes, WritesTicket, Bundle
<1>5. Inserted(d)' = Inserted(d)
  BY <1>1 DEF Inserted, Bundle
<1>6. WritesEvidence(d)'
  BY <1>1, <1>5 DEF IngestionTypeOK, OpenStayAll, OpenStay, Writes, WritesEvidence
<1> QED
  BY <1>2, <1>3, <1>4, <1>6 DEF Writes

\* Nothing is committed or removed, so that what is committed is still whole.
LEMMA CommittedUndisturbed ==
  ASSUME IngestionTypeOK, CommittedWhole, NEW c \in Clients, BesideAll(c)
  PROVE  /\ Accepted' = Accepted
         /\ \A key \in Accepted : event_ingestions'[key] = event_ingestions[key]
         /\ CommittedWhole'
<1>1. /\ Accepted' = Accepted
      /\ \A key \in Accepted : event_ingestions'[key] = event_ingestions[key]
  BY DEF Accepted, BesideAll, Beside, IngestionTypeOK
<1>2. \A key \in Accepted : IncidentOf(key)' = IncidentOf(key)
  BY <1>1 DEF IncidentOf
<1>3. ASSUME NEW table, NEW table2, Beside(table, table2, c)
      PROVE  /\ \A key \in Accepted :
                  {x \in DOMAIN table2 : Committed(table2, x) /\ table2[x].incident_id = IncidentOf(key)}
                  = RowsOf(table, key)
             /\ NoOrphans(table) =>
                  \A x \in DOMAIN table2 : Committed(table2, x) =>
                    \E key \in Accepted : table2[x].incident_id = IncidentOf(key)
  BY <1>3 DEF Beside, RowsOf, NoOrphans
<1>4. \A key \in Accepted :
        /\ RowsOf(incidents, key)' = RowsOf(incidents, key)
        /\ RowsOf(support_tickets, key)' = RowsOf(support_tickets, key)
        /\ RowsOf(evidence_events, key)' = RowsOf(evidence_events, key)
  <2> SUFFICES ASSUME NEW key \in Accepted
               PROVE  /\ RowsOf(incidents, key)' = RowsOf(incidents, key)
                      /\ RowsOf(support_tickets, key)' = RowsOf(support_tickets, key)
                      /\ RowsOf(evidence_events, key)' = RowsOf(evidence_events, key)
    OBVIOUS
  <2>1. RowsOf(incidents, key)' = RowsOf(incidents, key)
    BY <1>2, <1>3 DEF BesideAll, RowsOf
  <2>2. RowsOf(support_tickets, key)' = RowsOf(support_tickets, key)
    BY <1>2, <1>3 DEF BesideAll, RowsOf
  <2>3. RowsOf(evidence_events, key)' = RowsOf(evidence_events, key)
    BY <1>2, <1>3 DEF BesideAll, RowsOf
  <2> QED
    BY <2>1, <2>2, <2>3
<1>5. NoOrphans(incidents)' /\ NoOrphans(support_tickets)' /\ NoOrphans(evidence_events)'
  <2>1. NoOrphans(incidents)'
    BY <1>1, <1>2, <1>3 DEF BesideAll, CommittedWhole, NoOrphans
  <2>2. NoOrphans(support_tickets)'
    BY <1>1, <1>2, <1>3 DEF BesideAll, CommittedWhole, NoOrphans
  <2>3. NoOrphans(evidence_events)'
    BY <1>1, <1>2, <1>3 DEF BesideAll, CommittedWhole, NoOrphans
  <2> QED
    BY <2>1, <2>2, <2>3
<1> QED
  BY <1>1, <1>4, <1>5 DEF CommittedWhole

\* What is left to show of a step that commits nothing.
LEMMA StepBeside ==
  ASSUME IInv, IngestionTypeOK', NEW c \in Clients, BesideAll(c), OthersStay(c),
         Writes(c)', pc'[c] = "compare" => Key(c)' \in Accepted
  PROVE  IInv'
<1>1. AllWrite'
  <2>1. OpenStayAll(c)
    BY DEF BesideAll, Beside, OpenStayAll, OpenStay
  <2> QED
    BY <2>1, OthersWrite DEF IInv, AllWrite
<1>2. CommittedWhole' /\ Accepted' = Accepted
  BY CommittedUndisturbed DEF IInv
<1>3. ReceiptAlwaysFound'
  <2> SUFFICES ASSUME NEW d \in Clients, pc'[d] = "compare" PROVE Key(d)' \in Accepted'
    BY DEF ReceiptAlwaysFound
  <2>1. CASE d = c
    BY <2>1, <1>2
  <2>2. CASE d # c
    BY <2>2, <1>2 DEF OthersStay, Key, IInv, ReceiptAlwaysFound
  <2> QED
    BY <2>1, <2>2
<1> QED
  BY <1>1, <1>2, <1>3 DEF IInv

LEMMA RollbackStep ==
  ASSUME IInv, IngestionTypeOK', NEW c \in Clients, NEW status, Rollback(c, status)
  PROVE  IInv' /\ BesideAll(c)
<1>1. /\ BesideAll(c)
      /\ \A x \in Keys : ~ Mine(event_ingestions', x, c)
      /\ \A x \in Correlations : ~ Mine(incidents', x, c)
      /\ \A x \in Tickets : ~ Mine(support_tickets', x, c)
      /\ \A x \in Events : ~ Mine(evidence_events', x, c)
  BY NullAssumption, RollbackBeside DEF Rollback, IInv, IngestionTypeOK, BesideAll
<1>2. OthersStay(c) /\ pc'[c] = "done"
  BY DEF Rollback, Reply, OthersStay, IInv, IngestionTypeOK
<1>3. Writes(c)'
  BY <1>1, <1>2 DEF Writes, WritesReceipt, WritesIncident, WritesTicket, WritesEvidence,
                    AfterReceipt, AfterIncident, AfterTicket, Inserted
<1> QED
  BY <1>1, <1>2, <1>3, StepBeside

-----------------------------------------------------------------------------
(* The statements keep the invariant *)

LEMMA CallStep ==
  ASSUME IInv, IngestionTypeOK', NEW c \in Clients, Call(c)
  PROVE  IInv' /\ BesideAll(c)
<1>1. BesideAll(c)
  BY UnchangedBeside DEF Call, tables, BesideAll
<1>2. OthersStay(c) /\ pc'[c] = "receipt"
  BY DEF Call, OthersStay, IInv, IngestionTypeOK
<1>3. Writes(c)
  BY DEF IInv, AllWrite
<1>4. Writes(c)'
  BY <1>2, <1>3 DEF Call, tables, Writes, WritesReceipt, WritesIncident, WritesTicket,
       WritesEvidence, AfterReceipt, AfterIncident, AfterTicket, Inserted
<1> QED
  BY <1>1, <1>2, <1>4, StepBeside

LEMMA InsertReceiptStep ==
  ASSUME IInv, IngestionTypeOK', NEW c \in Clients, InsertReceipt(c)
  PROVE  IInv' /\ BesideAll(c)
<1>1. pc[c] = "receipt" /\ Key(c) \in Keys /\ Bundle(c) \in Bundles /\ Writes(c)
  BY CallFacts DEF InsertReceipt, IInv, AllWrite
<1>2. OthersStay(c) /\ Key(c)' = Key(c) /\ Bundle(c)' = Bundle(c)
  BY DEF InsertReceipt, OthersStay, IInv, IngestionTypeOK, Key, Bundle
<1>3. /\ Beside(incidents, incidents', c)
      /\ Beside(support_tickets, support_tickets', c)
      /\ Beside(evidence_events, evidence_events', c)
  BY UnchangedBeside DEF InsertReceipt
<1>4. CASE Committed(event_ingestions, Key(c)) /\ event_ingestions' = event_ingestions
             /\ pc' = [pc EXCEPT ![c] = "compare"]
  <2>1. BesideAll(c)
    BY <1>3, <1>4, UnchangedBeside DEF BesideAll
  <2>2. pc'[c] = "compare" /\ Key(c)' \in Accepted
    BY <1>1, <1>2, <1>4 DEF Accepted, IInv, IngestionTypeOK
  <2>3. Writes(c)'
    BY <1>1, <1>2, <1>4, <2>2 DEF InsertReceipt, Writes, WritesReceipt, WritesIncident,
         WritesTicket, WritesEvidence, AfterReceipt, AfterIncident, AfterTicket, Inserted
  <2> QED
    BY <1>2, <2>1, <2>2, <2>3, StepBeside
<1>5. CASE /\ ~ Row(event_ingestions, Key(c))
           /\ event_ingestions' = [event_ingestions EXCEPT ![Key(c)] =
                [payload |-> Bundle(c), response_summary |-> Receipt(Key(c), Bundle(c)), tx |-> c]]
           /\ pc' = [pc EXCEPT ![c] = "incident"]
  <2> DEFINE row == [payload |-> Bundle(c), response_summary |-> Receipt(Key(c), Bundle(c)),
                     tx |-> c]
  <2>1. /\ row \in ReceiptRow /\ row.tx = c /\ row.payload = Bundle(c)
        /\ row.response_summary = Receipt(Key(c), Bundle(c))
    BY <1>1, NewReceiptFacts
  <2>2. event_ingestions \in [Keys -> ReceiptRow \cup {Null}]
    BY DEF IInv, IngestionTypeOK
  <2>3. event_ingestions' = [event_ingestions EXCEPT ![Key(c)] = row]
    BY <1>5
  <2> HIDE DEF row
  <2>4. /\ Beside(event_ingestions, event_ingestions', c)
        /\ event_ingestions'[Key(c)] = row
        /\ \A key \in Keys : Mine(event_ingestions', key, c)
                               <=> Mine(event_ingestions, key, c) \/ key = Key(c)
    BY <1>1, <1>5, <2>1, <2>2, <2>3, NullAssumption DEF Beside, Row, Committed, Mine
  <2>5. pc'[c] = "incident"
    BY <1>5 DEF IInv, IngestionTypeOK
  <2>6. WritesReceipt(c)'
    BY <1>1, <1>2, <2>1, <2>4, <2>5 DEF Writes, WritesReceipt, AfterReceipt
  <2>7. Writes(c)'
    BY <1>1, <2>5, <2>6 DEF InsertReceipt, Writes, WritesIncident, WritesTicket, WritesEvidence,
         AfterIncident, AfterTicket, Inserted
  <2> QED
    BY <1>2, <1>3, <2>4, <2>5, <2>7, StepBeside DEF BesideAll
<1> QED
  BY <1>4, <1>5 DEF InsertReceipt

LEMMA CompareStep ==
  ASSUME IInv, IngestionTypeOK', NEW c \in Clients, CompareReceipt(c)
  PROVE  IInv' /\ BesideAll(c)
<1>1. BesideAll(c)
  BY UnchangedBeside DEF CompareReceipt, tables, BesideAll
<1>2. pc[c] = "compare" /\ Writes(c)
  BY DEF CompareReceipt, IInv, AllWrite
<1>3. OthersStay(c) /\ pc'[c] = "done"
  BY DEF CompareReceipt, Reply, OthersStay, IInv, IngestionTypeOK
<1>4. Writes(c)'
  BY <1>2, <1>3 DEF CompareReceipt, tables, Writes, WritesReceipt, WritesIncident, WritesTicket,
       WritesEvidence, AfterReceipt, AfterIncident, AfterTicket, Inserted
<1> QED
  BY <1>1, <1>3, <1>4, StepBeside

LEMMA InsertIncidentStep ==
  ASSUME IInv, IngestionTypeOK', NEW c \in Clients, InsertIncident(c)
  PROVE  IInv' /\ BesideAll(c)
<1>1. CASE Rollback(c, "correlation_id_reused")
  BY <1>1, RollbackStep
<1>2. CASE /\ ~ Row(incidents, Bundle(c).correlation_id)
           /\ incidents' = [incidents EXCEPT ![Bundle(c).correlation_id] = NewRow(c)]
           /\ pc' = [pc EXCEPT ![c] = "ticket"]
           /\ UNCHANGED <<event_ingestions, support_tickets, evidence_events, call, nextLog, answer>>
  <2>1. /\ pc[c] = "incident" /\ Bundle(c).correlation_id \in Correlations /\ Writes(c)
        /\ NewRow(c) \in IncidentRow /\ NewRow(c).tx = c /\ NewRow(c).incident_id = call[c]
    BY CallFacts, NewRowFacts DEF InsertIncident, IInv, AllWrite
  <2>2. OthersStay(c) /\ Key(c)' = Key(c) /\ Bundle(c)' = Bundle(c) /\ pc'[c] = "ticket"
    BY <1>2 DEF OthersStay, IInv, IngestionTypeOK, Key, Bundle
  <2>a. incidents \in [Correlations -> IncidentRow \cup {Null}] /\ NewRow(c) # Null
    BY <2>1, NullAssumption DEF IInv, IngestionTypeOK
  <2>3. /\ Beside(incidents, incidents', c)
        /\ incidents'[Bundle(c).correlation_id] = NewRow(c)
        /\ \A id \in Correlations : Mine(incidents', id, c)
             <=> Mine(incidents, id, c) \/ id = Bundle(c).correlation_id
    BY <1>2, <2>1, <2>a, NullAssumption DEF Beside, Row, Committed, Mine
  <2>4. WritesIncident(c)'
    BY <1>2, <2>1, <2>2, <2>3 DEF Writes, WritesIncident, AfterIncident
  <2>5. Writes(c)'
    BY <1>2, <2>1, <2>2, <2>4 DEF Writes, WritesReceipt, WritesTicket, WritesEvidence,
         AfterReceipt, AfterTicket, Inserted
  <2>6. BesideAll(c)
    BY <1>2, <2>3, UnchangedBeside DEF BesideAll
  <2> QED
    BY <2>2, <2>5, <2>6, StepBeside
<1> QED
  BY <1>1, <1>2 DEF InsertIncident

LEMMA InsertTicketStep ==
  ASSUME IInv, IngestionTypeOK', NEW c \in Clients, InsertTicket(c)
  PROVE  IInv' /\ BesideAll(c)
<1>1. CASE Rollback(c, "storage_identity_reused")
  BY <1>1, RollbackStep
<1>2. CASE /\ ~ Row(support_tickets, Bundle(c).ticket_id)
           /\ support_tickets' = [support_tickets EXCEPT ![Bundle(c).ticket_id] = NewRow(c)]
           /\ pc' = [pc EXCEPT ![c] = "evidence"]
           /\ UNCHANGED <<event_ingestions, incidents, evidence_events, call, nextLog, answer>>
  <2>1. /\ pc[c] = "ticket" /\ Bundle(c).ticket_id \in Tickets /\ Writes(c)
        /\ NewRow(c) \in IncidentRow /\ NewRow(c).tx = c /\ NewRow(c).incident_id = call[c]
    BY CallFacts, NewRowFacts DEF InsertTicket, IInv, AllWrite
  <2>2. OthersStay(c) /\ Key(c)' = Key(c) /\ Bundle(c)' = Bundle(c) /\ pc'[c] = "evidence"
    BY <1>2 DEF OthersStay, IInv, IngestionTypeOK, Key, Bundle
  <2>a. support_tickets \in [Tickets -> IncidentRow \cup {Null}] /\ NewRow(c) # Null
    BY <2>1, NullAssumption DEF IInv, IngestionTypeOK
  <2>3. /\ Beside(support_tickets, support_tickets', c)
        /\ support_tickets'[Bundle(c).ticket_id] = NewRow(c)
        /\ \A id \in Tickets : Mine(support_tickets', id, c)
             <=> Mine(support_tickets, id, c) \/ id = Bundle(c).ticket_id
    BY <1>2, <2>1, <2>a, NullAssumption DEF Beside, Row, Committed, Mine
  <2>4. WritesTicket(c)'
    BY <1>2, <2>1, <2>2, <2>3 DEF Writes, WritesTicket, AfterTicket
  <2>5. Inserted(c) = {} /\ Inserted(c)' = {}
    <3>1. nextLog[c] = 1 /\ nextLog'[c] = 1
      BY <1>2, <2>1 DEF IInv, IngestionTypeOK
    <3>2. \A n \in DOMAIN Bundle(c).event_ids : ~ (n < 1)
      BY <2>1, CallFacts, BundleFacts DEF IInv
    <3> QED
      BY <2>1, <2>2, <3>1, <3>2 DEF Inserted
  <2>6. Writes(c)'
    BY <1>2, <2>1, <2>2, <2>4, <2>5 DEF Writes, WritesReceipt, WritesIncident, WritesEvidence,
         AfterReceipt, AfterIncident
  <2>7. BesideAll(c)
    BY <1>2, <2>3, UnchangedBeside DEF BesideAll
  <2> QED
    BY <2>2, <2>6, <2>7, StepBeside
<1> QED
  BY <1>1, <1>2 DEF InsertTicket

LEMMA InsertEvidenceStep ==
  ASSUME IInv, IngestionTypeOK', NEW c \in Clients, InsertEvidence(c)
  PROVE  IInv' /\ BesideAll(c)
<1> DEFINE logs == Bundle(c).event_ids
           id == logs[nextLog[c]]
<1>1. CASE Rollback(c, "storage_identity_reused")
  BY <1>1, RollbackStep
<1>2. CASE /\ ~ Row(evidence_events, id)
           /\ evidence_events' = [evidence_events EXCEPT ![id] = NewRow(c)]
           /\ \/ /\ nextLog[c] < Len(logs)
                 /\ nextLog' = [nextLog EXCEPT ![c] = @ + 1]
                 /\ pc' = pc
              \/ /\ nextLog[c] = Len(logs)
                 /\ nextLog' = [nextLog EXCEPT ![c] = 1]
                 /\ pc' = [pc EXCEPT ![c] = "commit"]
           /\ UNCHANGED <<event_ingestions, incidents, support_tickets, call, answer>>
  <2>1. /\ pc[c] = "evidence" /\ id \in Events /\ Writes(c) /\ nextLog[c] \in DOMAIN logs
        /\ NewRow(c) \in IncidentRow /\ NewRow(c).tx = c /\ NewRow(c).incident_id = call[c]
    BY CallFacts, NewRowFacts DEF InsertEvidence, IInv, AllWrite
  <2>2. DOMAIN logs = 1..Len(logs) /\ Len(logs) \in Nat /\ \A n \in DOMAIN logs : logs[n] \in Events
    BY <2>1, CallFacts, BundleFacts DEF IInv
  <2>3. OthersStay(c) /\ Key(c)' = Key(c) /\ Bundle(c)' = Bundle(c)
    BY <1>2 DEF OthersStay, IInv, IngestionTypeOK, Key, Bundle
  <2>a. evidence_events \in [Events -> IncidentRow \cup {Null}] /\ NewRow(c) # Null
    BY <2>1, NullAssumption DEF IInv, IngestionTypeOK
  <2>4. /\ Beside(evidence_events, evidence_events', c)
        /\ evidence_events'[id] = NewRow(c)
        /\ \A x \in Events : Mine(evidence_events', x, c) <=> Mine(evidence_events, x, c) \/ x = id
        /\ \A x \in Events : x # id => evidence_events'[x] = evidence_events[x]
    BY <1>2, <2>1, <2>a, NullAssumption DEF Beside, Row, Committed, Mine
  <2>5. pc'[c] \in {"evidence", "commit"}
    BY <1>2, <2>1 DEF IInv, IngestionTypeOK
  <2>6. Inserted(c)' = Inserted(c) \cup {id}
    <3> HIDE DEF id
    <3>1. Inserted(c) = {x \in Events : \E n \in DOMAIN logs : n < nextLog[c] /\ x = logs[n]}
      BY <2>1 DEF Inserted
    <3>2. CASE nextLog[c] < Len(logs) /\ nextLog' = [nextLog EXCEPT ![c] = @ + 1] /\ pc' = pc
      <4>1. pc'[c] = "evidence" /\ nextLog'[c] = nextLog[c] + 1
        BY <2>1, <3>2 DEF IInv, IngestionTypeOK
      <4>2. Inserted(c)' = {x \in Events : \E n \in DOMAIN logs : n < nextLog[c] + 1 /\ x = logs[n]}
        BY <2>3, <4>1 DEF Inserted
      <4> QED
        BY <2>1, <2>2, <3>1, <4>2 DEF id
    <3>3. CASE nextLog[c] = Len(logs) /\ pc' = [pc EXCEPT ![c] = "commit"]
      <4>1. pc'[c] = "commit"
        BY <3>3 DEF IInv, IngestionTypeOK
      <4>2. Inserted(c)' = {x \in Events : \E n \in DOMAIN logs : x = logs[n]}
        BY <2>3, <4>1 DEF Inserted, EventsOf
      <4> QED
        BY <2>1, <2>2, <3>1, <3>3, <4>2 DEF id
    <3> QED
      BY <1>2, <3>2, <3>3
  <2> HIDE DEF logs, id
  <2>7. WritesEvidence(c)'
    BY <1>2, <2>1, <2>4, <2>6 DEF Writes, WritesEvidence
  <2>8. Writes(c)'
    BY <1>2, <2>1, <2>3, <2>5, <2>7 DEF Writes, WritesReceipt, WritesIncident, WritesTicket,
         AfterReceipt, AfterIncident, AfterTicket
  <2>9. BesideAll(c)
    BY <1>2, <2>4, UnchangedBeside DEF BesideAll
  <2> QED
    BY <2>3, <2>5, <2>8, <2>9, StepBeside
<1> QED
  BY <1>1, <1>2 DEF InsertEvidence

-----------------------------------------------------------------------------
(* A commit adds one whole bundle *)

LEMMA SealedRows ==
  ASSUME NEW c \in Clients, call[c] \in CallType, Key(c) \notin Accepted,
         NEW table, NEW table2, SealedBy(table, table2, c), NoOrphans(table),
         \A x \in DOMAIN table : Row(table, x) => table2[x].incident_id = table[x].incident_id,
         \A x \in DOMAIN table : Mine(table, x, c) => table[x].incident_id = call[c]
  PROVE  /\ \A key \in Accepted :
              {x \in DOMAIN table2 : Committed(table2, x) /\ table2[x].incident_id = IncidentOf(key)}
              = RowsOf(table, key)
         /\ {x \in DOMAIN table2 : Committed(table2, x) /\ table2[x].incident_id = call[c]}
            = {x \in DOMAIN table : Mine(table, x, c)}
         /\ \A x \in DOMAIN table2 : Committed(table2, x) =>
              \/ table2[x].incident_id = call[c]
              \/ \E key \in Accepted : table2[x].incident_id = IncidentOf(key)
<1>1. \A key \in Accepted : IncidentOf(key) # call[c]
  BY DEF IncidentOf, Key, CallType
<1>2. \A x \in DOMAIN table : Committed(table, x) \/ Mine(table, x, c) => Row(table, x)
  BY DEF Committed, Mine
<1>3. \A x \in DOMAIN table : Committed(table, x) =>
        \E key \in Accepted : table[x].incident_id = IncidentOf(key)
  BY DEF NoOrphans
<1>4. \A x \in DOMAIN table : Committed(table, x) => ~ Mine(table, x, c)
  BY NullAssumption DEF Committed, Mine
<1> QED
  BY <1>1, <1>2, <1>3, <1>4 DEF SealedBy, RowsOf

LEMMA SealedAll ==
  ASSUME IngestionTypeOK, NEW c \in Clients, Commit(c)
  PROVE  /\ SealedBy(event_ingestions, event_ingestions', c)
         /\ SealedBy(incidents, incidents', c)
         /\ SealedBy(support_tickets, support_tickets', c)
         /\ SealedBy(evidence_events, evidence_events', c)
<1>c. /\ event_ingestions \in [Keys -> ReceiptRow \cup {Null}]
      /\ incidents \in [Correlations -> IncidentRow \cup {Null}]
      /\ support_tickets \in [Tickets -> IncidentRow \cup {Null}]
      /\ evidence_events \in [Events -> IncidentRow \cup {Null}]
      /\ event_ingestions' = Sealed(event_ingestions, c)
      /\ incidents' = Sealed(incidents, c)
      /\ support_tickets' = Sealed(support_tickets, c)
      /\ evidence_events' = Sealed(evidence_events, c)
  BY DEF Commit, IngestionTypeOK
<1>1. SealedBy(event_ingestions, event_ingestions', c)
  BY <1>c, SealedReceipts
<1>2. SealedBy(incidents, incidents', c)
  BY <1>c, SealedIncidents
<1>3. SealedBy(support_tickets, support_tickets', c)
  BY <1>c, SealedIncidents
<1>4. SealedBy(evidence_events, evidence_events', c)
  BY <1>c, SealedIncidents
<1> QED
  BY <1>1, <1>2, <1>3, <1>4

LEMMA CommitStep ==
  ASSUME IInv, IngestionTypeOK', NEW c \in Clients, Commit(c)
  PROVE  /\ IInv'
         /\ Key(c) \in Keys \ Accepted
         /\ Accepted' = Accepted \cup {Key(c)}
         /\ \A key \in Accepted : event_ingestions'[key] = event_ingestions[key]
         /\ event_ingestions'[Key(c)].payload = Bundle(c)
<1>a. Key(c) \in Keys /\ Bundle(c) \in Bundles
  BY CallFacts DEF Commit, IInv
<1>b. PICK k \in Keys, b \in Bundles : k = Key(c) /\ b = Bundle(c)
  BY <1>a
<1>1. pc[c] = "commit" /\ Writes(c) /\ call[c] \in CallType
  BY CallFacts DEF Commit, IInv, AllWrite
<1>c. /\ event_ingestions \in [Keys -> ReceiptRow \cup {Null}]
      /\ incidents \in [Correlations -> IncidentRow \cup {Null}]
      /\ support_tickets \in [Tickets -> IncidentRow \cup {Null}]
      /\ evidence_events \in [Events -> IncidentRow \cup {Null}]
      /\ event_ingestions' = Sealed(event_ingestions, c)
      /\ incidents' = Sealed(incidents, c)
      /\ support_tickets' = Sealed(support_tickets, c)
      /\ evidence_events' = Sealed(evidence_events, c)
  BY DEF Commit, IInv, IngestionTypeOK
<1>2. /\ SealedBy(event_ingestions, event_ingestions', c)
      /\ \A x \in Keys : Row(event_ingestions, x) =>
           /\ event_ingestions'[x].payload = event_ingestions[x].payload
           /\ event_ingestions'[x].response_summary = event_ingestions[x].response_summary
  BY <1>c, SealedReceipts
<1>3. /\ SealedBy(incidents, incidents', c)
      /\ \A x \in Correlations : Row(incidents, x) =>
           incidents'[x].incident_id = incidents[x].incident_id
  BY <1>c, SealedIncidents
<1>4. /\ SealedBy(support_tickets, support_tickets', c)
      /\ \A x \in Tickets : Row(support_tickets, x) =>
           support_tickets'[x].incident_id = support_tickets[x].incident_id
  BY <1>c, SealedIncidents
<1>5. /\ SealedBy(evidence_events, evidence_events', c)
      /\ \A x \in Events : Row(evidence_events, x) =>
           evidence_events'[x].incident_id = evidence_events[x].incident_id
  BY <1>c, SealedIncidents
<1>6. /\ Mine(event_ingestions, k, c)
      /\ event_ingestions[k].payload = b
      /\ event_ingestions[k].response_summary = Receipt(k, b)
      /\ \A key \in Keys : Mine(event_ingestions, key, c) => key = k
  BY <1>1, <1>b DEF Writes, WritesReceipt, AfterReceipt
<1>7. k \notin Accepted
  BY <1>6, NullAssumption DEF Accepted, Committed, Mine
<1>8. DOMAIN event_ingestions = Keys
  BY DEF IInv, IngestionTypeOK
<1>9. Accepted' = Accepted \cup {k}
  BY <1>1, <1>2, <1>6, <1>8 DEF SealedBy, Accepted
<1>10. \A key \in Accepted : event_ingestions'[key] = event_ingestions[key]
  BY <1>2, <1>6, <1>7, <1>8 DEF SealedBy, Accepted
<1>11. event_ingestions'[k].payload = b /\ event_ingestions'[k].response_summary = Receipt(k, b)
  BY <1>2, <1>6 DEF Mine
<1>12. \A key \in Accepted : IncidentOf(key)' = IncidentOf(key)
  BY <1>10 DEF IncidentOf
<1>13. IncidentOf(k)' = call[c]
  BY <1>1, <1>11, <1>b DEF IncidentOf, Key, Bundle, CallType
<1>14. /\ {x \in Correlations : Mine(incidents, x, c)} = {b.correlation_id}
       /\ \A x \in Correlations : Mine(incidents, x, c) => incidents[x].incident_id = call[c]
  BY <1>1, <1>b, BundleFacts DEF Writes, WritesIncident, AfterIncident
<1>15. /\ {x \in Tickets : Mine(support_tickets, x, c)} = {b.ticket_id}
       /\ \A x \in Tickets : Mine(support_tickets, x, c) => support_tickets[x].incident_id = call[c]
  BY <1>1, <1>b, BundleFacts DEF Writes, WritesTicket, AfterTicket
<1>16. /\ {x \in Events : Mine(evidence_events, x, c)} = EventsOf(b)
       /\ \A x \in Events : Mine(evidence_events, x, c) => evidence_events[x].incident_id = call[c]
  BY <1>1, <1>b, BundleFacts DEF Writes, WritesEvidence, Inserted
<1>17. /\ DOMAIN incidents = Correlations
       /\ DOMAIN support_tickets = Tickets
       /\ DOMAIN evidence_events = Events
       /\ NoOrphans(incidents) /\ NoOrphans(support_tickets) /\ NoOrphans(evidence_events)
  BY DEF IInv, IngestionTypeOK, CommittedWhole
<1>18. /\ \A key \in Accepted : RowsOf(incidents, key)' = RowsOf(incidents, key)
       /\ RowsOf(incidents, k)' = {b.correlation_id}
       /\ NoOrphans(incidents)'
  <2>1. /\ \A key \in Accepted :
             {x \in DOMAIN incidents' : Committed(incidents', x)
                                          /\ incidents'[x].incident_id = IncidentOf(key)}
             = RowsOf(incidents, key)
        /\ {x \in DOMAIN incidents' : Committed(incidents', x)
                                        /\ incidents'[x].incident_id = call[c]}
           = {x \in DOMAIN incidents : Mine(incidents, x, c)}
        /\ \A x \in DOMAIN incidents' : Committed(incidents', x) =>
             \/ incidents'[x].incident_id = call[c]
             \/ \E key \in Accepted : incidents'[x].incident_id = IncidentOf(key)
    BY <1>1, <1>b, <1>3, <1>7, <1>14, <1>17, SealedRows
  <2> QED
    BY <1>9, <1>12, <1>13, <1>14, <1>17, <2>1 DEF RowsOf, NoOrphans
<1>19. /\ \A key \in Accepted : RowsOf(support_tickets, key)' = RowsOf(support_tickets, key)
       /\ RowsOf(support_tickets, k)' = {b.ticket_id}
       /\ NoOrphans(support_tickets)'
  <2>1. /\ \A key \in Accepted :
             {x \in DOMAIN support_tickets' : Committed(support_tickets', x)
                                          /\ support_tickets'[x].incident_id = IncidentOf(key)}
             = RowsOf(support_tickets, key)
        /\ {x \in DOMAIN support_tickets' : Committed(support_tickets', x)
                                        /\ support_tickets'[x].incident_id = call[c]}
           = {x \in DOMAIN support_tickets : Mine(support_tickets, x, c)}
        /\ \A x \in DOMAIN support_tickets' : Committed(support_tickets', x) =>
             \/ support_tickets'[x].incident_id = call[c]
             \/ \E key \in Accepted : support_tickets'[x].incident_id = IncidentOf(key)
    BY <1>1, <1>b, <1>4, <1>7, <1>15, <1>17, SealedRows
  <2> QED
    BY <1>9, <1>12, <1>13, <1>15, <1>17, <2>1 DEF RowsOf, NoOrphans
<1>20. /\ \A key \in Accepted : RowsOf(evidence_events, key)' = RowsOf(evidence_events, key)
       /\ RowsOf(evidence_events, k)' = EventsOf(b)
       /\ NoOrphans(evidence_events)'
  <2>1. /\ \A key \in Accepted :
             {x \in DOMAIN evidence_events' : Committed(evidence_events', x)
                                          /\ evidence_events'[x].incident_id = IncidentOf(key)}
             = RowsOf(evidence_events, key)
        /\ {x \in DOMAIN evidence_events' : Committed(evidence_events', x)
                                        /\ evidence_events'[x].incident_id = call[c]}
           = {x \in DOMAIN evidence_events : Mine(evidence_events, x, c)}
        /\ \A x \in DOMAIN evidence_events' : Committed(evidence_events', x) =>
             \/ evidence_events'[x].incident_id = call[c]
             \/ \E key \in Accepted : evidence_events'[x].incident_id = IncidentOf(key)
    BY <1>1, <1>b, <1>5, <1>7, <1>16, <1>17, SealedRows
  <2> QED
    BY <1>9, <1>12, <1>13, <1>16, <1>17, <2>1 DEF RowsOf, NoOrphans
<1>21. CommittedWhole'
  BY <1>9, <1>10, <1>11, <1>18, <1>19, <1>20 DEF CommittedWhole, IInv
<1>22. OthersStay(c) /\ pc'[c] = "done"
  BY DEF Commit, Reply, OthersStay, IInv, IngestionTypeOK
<1>23. OpenStayAll(c)
  BY <1>2, <1>3, <1>4, <1>5 DEF SealedBy, OpenStayAll, OpenStay, Mine
<1>24. Writes(c)'
  BY <1>2, <1>3, <1>4, <1>5, <1>8, <1>17, <1>22 DEF SealedBy, Writes, WritesReceipt, WritesIncident,
       WritesTicket, WritesEvidence, AfterReceipt, AfterIncident, AfterTicket, Inserted
<1>25. AllWrite'
  BY <1>22, <1>23, <1>24, OthersWrite DEF AllWrite, IInv
<1>26. ReceiptAlwaysFound'
  BY <1>9, <1>22 DEF ReceiptAlwaysFound, OthersStay, Key, IInv
<1> QED
  BY <1>1, <1>7, <1>9, <1>10, <1>11, <1>21, <1>25, <1>26, <1>b DEF IInv

-----------------------------------------------------------------------------
(* Invariants *)

LEMMA IInvStep == IInv /\ [Next]_vars => IInv'
<1> SUFFICES ASSUME IInv, [Next]_vars PROVE IInv'
  OBVIOUS
<1>t. IngestionTypeOK'
  BY IngestionTypeStep DEF IInv
<1>1. CASE UNCHANGED vars
  <2>1. AllWrite'
    BY <1>1 DEF vars, tables, IInv, AllWrite, Writes, WritesReceipt, WritesIncident, WritesTicket,
         WritesEvidence, Inserted, Key, Bundle
  <2>2. ReceiptAlwaysFound' /\ CommittedWhole'
    BY <1>1 DEF vars, tables, IInv, ReceiptAlwaysFound, CommittedWhole, Accepted, RowsOf,
         NoOrphans, IncidentOf, Key
  <2> QED
    BY <1>t, <2>1, <2>2 DEF IInv
<1>2. ASSUME NEW c \in Clients, Call(c) PROVE IInv'
  BY <1>t, <1>2, CallStep
<1>3. ASSUME NEW c \in Clients, InsertReceipt(c) PROVE IInv'
  BY <1>t, <1>3, InsertReceiptStep
<1>4. ASSUME NEW c \in Clients, CompareReceipt(c) PROVE IInv'
  BY <1>t, <1>4, CompareStep
<1>5. ASSUME NEW c \in Clients, InsertIncident(c) PROVE IInv'
  BY <1>t, <1>5, InsertIncidentStep
<1>6. ASSUME NEW c \in Clients, InsertTicket(c) PROVE IInv'
  BY <1>t, <1>6, InsertTicketStep
<1>7. ASSUME NEW c \in Clients, InsertEvidence(c) PROVE IInv'
  BY <1>t, <1>7, InsertEvidenceStep
<1>8. ASSUME NEW c \in Clients, Commit(c) PROVE IInv'
  BY <1>t, <1>8, CommitStep
<1>9. ASSUME NEW c \in Clients, LoseConnection(c) PROVE IInv'
  BY <1>t, <1>9, RollbackStep DEF LoseConnection
<1>10. ASSUME NEW c \in Clients, DeadlockVictim(c) PROVE IInv'
  BY <1>t, <1>10, RollbackStep DEF DeadlockVictim
<1> QED
  BY <1>1, <1>2, <1>3, <1>4, <1>5, <1>6, <1>7, <1>8, <1>9, <1>10 DEF Next, Step

LEMMA IInvInit == Init => IInv
<1> SUFFICES ASSUME Init PROVE IInv
  OBVIOUS
<1>1. IngestionTypeOK
  BY AnswerFacts DEF Init, IngestionTypeOK, NoAnswer
<1>2. AllWrite
  BY DEF Init, AllWrite, Writes, WritesReceipt, WritesIncident, WritesTicket, WritesEvidence,
    Inserted, AfterReceipt, AfterIncident, AfterTicket, Mine, Row
<1>3. ReceiptAlwaysFound /\ CommittedWhole
  BY DEF Init, ReceiptAlwaysFound, CommittedWhole, Accepted, NoOrphans, Committed, Row
<1> QED
  BY <1>1, <1>2, <1>3 DEF IInv

LEMMA IngestionInductive == IngestionSpec => []IInv
BY IInvInit, IInvStep, PTL DEF IngestionSpec

\* Whatever calls overlap, fail or deadlock: a committed receipt has its whole incident, and no
\* committed row is without one (PostgresIngestionStore.ingest, one transaction).
THEOREM BundlesAreWhole == IngestionSpec => []CommittedWhole
<1>1. IInv => CommittedWhole
  BY DEF IInv
<1> QED
  BY <1>1, IngestionInductive, PTL

\* The reread of a receipt after ON CONFLICT DO NOTHING never comes back empty.
THEOREM RereadFindsReceipt == IngestionSpec => []ReceiptAlwaysFound
<1>1. IInv => ReceiptAlwaysFound
  BY DEF IInv
<1> QED
  BY <1>1, IngestionInductive, PTL

-----------------------------------------------------------------------------
(* Committed rows stay *)

LEMMA BesideKeeps ==
  ASSUME NEW table, NEW table2, NEW c, Beside(table, table2, c)
  PROVE  Keeps(table, table2)
BY DEF Beside, Keeps

LEMMA SealedKeeps ==
  ASSUME NEW table, NEW table2, NEW c \in Clients, SealedBy(table, table2, c)
  PROVE  Keeps(table, table2)
BY NullAssumption DEF SealedBy, Keeps, Committed, Mine

AllKeep ==
  /\ Keeps(event_ingestions, event_ingestions')
  /\ Keeps(incidents, incidents')
  /\ Keeps(support_tickets, support_tickets')
  /\ Keeps(evidence_events, evidence_events')

LEMMA StepBesideOrCommit ==
  ASSUME IInv, Next
  PROVE  \E c \in Clients : BesideAll(c) \/ Commit(c)
<1>t. IngestionTypeOK'
  BY IngestionTypeStep DEF IInv
<1>1. PICK c \in Clients : Call(c) \/ Step(c) \/ LoseConnection(c)
  BY DEF Next
<1>2. CASE Call(c)
  BY <1>t, <1>2, CallStep
<1>3. CASE InsertReceipt(c)
  BY <1>t, <1>3, InsertReceiptStep
<1>4. CASE CompareReceipt(c)
  BY <1>t, <1>4, CompareStep
<1>5. CASE InsertIncident(c)
  BY <1>t, <1>5, InsertIncidentStep
<1>6. CASE InsertTicket(c)
  BY <1>t, <1>6, InsertTicketStep
<1>7. CASE InsertEvidence(c)
  BY <1>t, <1>7, InsertEvidenceStep
<1>8. CASE DeadlockVictim(c) \/ LoseConnection(c)
  BY <1>t, <1>8, RollbackStep DEF DeadlockVictim, LoseConnection
<1> QED
  BY <1>1, <1>2, <1>3, <1>4, <1>5, <1>6, <1>7, <1>8 DEF Step

\* No replay, conflict, abort or other commit changes a committed row of the four tables.
THEOREM CommittedRowsStay == IngestionSpec => CommittedStays
<1>1. IInv /\ [Next]_vars => [AllKeep]_vars
  <2> SUFFICES ASSUME IInv, Next PROVE AllKeep
    BY DEF vars
  <2>1. ASSUME NEW c \in Clients, BesideAll(c) PROVE AllKeep
    BY <2>1, BesideKeeps DEF BesideAll, AllKeep
  <2>2. ASSUME NEW c \in Clients, Commit(c) PROVE AllKeep
    <3>0. IngestionTypeOK
      BY DEF IInv
    <3>1. /\ SealedBy(event_ingestions, event_ingestions', c)
          /\ SealedBy(incidents, incidents', c)
          /\ SealedBy(support_tickets, support_tickets', c)
          /\ SealedBy(evidence_events, evidence_events', c)
      BY <2>2, <3>0, SealedAll
    <3> QED
      BY <3>1, SealedKeeps DEF AllKeep
  <2> QED
    BY <2>1, <2>2, StepBesideOrCommit
<1> QED
  BY <1>1, IngestionInductive, PTL DEF IngestionSpec, CommittedStays, AllKeep

-----------------------------------------------------------------------------
(* The ledger *)

LEMMA LedgerUndisturbed ==
  ASSUME IInv, NEW c \in Clients, BesideAll(c)
  PROVE  AcceptedBundles' = AcceptedBundles
BY CommittedUndisturbed DEF IInv, AcceptedBundles

LEMMA LedgerFacts ==
  ASSUME IInv
  PROVE  /\ \A key \in Keys : key \in Accepted <=> AcceptedBundles[key] # Null
         /\ \A key \in Accepted : /\ AcceptedBundles[key] = event_ingestions[key].payload
                                  /\ AcceptedBundles[key] \in Bundles
         /\ Accepted \subseteq Keys
         /\ Ledger!Taken = Accepted
<1>1. \A key \in Accepted : event_ingestions[key].payload \in Bundles
  BY DEF IInv, IngestionTypeOK, Accepted, Committed, Row, ReceiptRow
<1>2. Null \notin Bundles
  BY BundlesAssumption
<1> QED
  BY <1>1, <1>2 DEF AcceptedBundles, Accepted, Ledger!Taken

\* A row that is committed belongs to an accepted bundle with that identity.
LEMMA OwnersAccepted ==
  ASSUME IInv
  PROVE  /\ \A id \in Correlations : Committed(incidents, id) =>
              \E key \in Accepted : AcceptedBundles[key].correlation_id = id
         /\ \A id \in Tickets : Committed(support_tickets, id) =>
              \E key \in Accepted : AcceptedBundles[key].ticket_id = id
         /\ \A id \in Events : Committed(evidence_events, id) =>
              \E key \in Accepted : id \in EventsOf(AcceptedBundles[key])
         /\ \A key \in Accepted :
              /\ Committed(incidents, AcceptedBundles[key].correlation_id)
              /\ Committed(support_tickets, AcceptedBundles[key].ticket_id)
              /\ \A id \in EventsOf(AcceptedBundles[key]) : Committed(evidence_events, id)
BY LedgerFacts DEF IInv, IngestionTypeOK, CommittedWhole, NoOrphans, RowsOf

LEMMA AnswerStep ==
  ASSUME IInv, NEW c \in Clients, pc[c] \in InTransaction, NEW status, NEW record,
         Reply(c, status, record)
  PROVE  Ledger!Answer(c, status, record) /\ call[c] # Null
BY DEF IInv, IngestionTypeOK, InTransaction, Reply, Ledger!Answer

\* A rolled back call that is answered as unavailable is one the ledger never saw.
LEMMA UnavailableStep ==
  ASSUME IInv, NEW c \in Clients, pc[c] \in InTransaction, AcceptedBundles' = AcceptedBundles,
         Reply(c, "storage_unavailable", Null)
  PROVE  Ledger!Next
<1>1. Ledger!Answer(c, "storage_unavailable", Null) /\ call[c] # Null
  BY AnswerStep
<1> QED
  BY <1>1 DEF Ledger!Next, Ledger!Unavailable

\* While a call holds the key of its receipt, no bundle is accepted under that key; while it
\* holds its correlation, none with that correlation; and so on.
LEMMA OwnIdentitiesFree ==
  ASSUME IInv, NEW c \in Clients
  PROVE  /\ pc[c] \in AfterReceipt => AcceptedBundles[Key(c)] = Null
         /\ pc[c] \in AfterIncident => \A other \in Accepted :
              AcceptedBundles[other].correlation_id # Bundle(c).correlation_id
         /\ pc[c] = "commit" => \A other \in Accepted :
              StoredIdentities(AcceptedBundles[other]) \cap StoredIdentities(Bundle(c)) = {}
<1>1. Writes(c) /\ IngestionTypeOK
  BY DEF IInv, AllWrite
<1>2. pc[c] # "done" => /\ Key(c) \in Keys /\ Bundle(c) \in Bundles
                        /\ Bundle(c).correlation_id \in Correlations
                        /\ Bundle(c).ticket_id \in Tickets
                        /\ EventsOf(Bundle(c)) \subseteq Events
  BY <1>1, CallFacts, BundleFacts
<1>3. pc[c] \in AfterReceipt => AcceptedBundles[Key(c)] = Null
  <2>1. pc[c] \in AfterReceipt => Key(c) \notin Accepted
    BY <1>1, <1>2, NullAssumption
    DEF Writes, WritesReceipt, AfterReceipt, Accepted, Committed, Mine
  <2> QED
    BY <1>2, <2>1 DEF AcceptedBundles, AfterReceipt
<1>4. pc[c] \in AfterIncident => ~ Committed(incidents, Bundle(c).correlation_id)
  BY <1>1, <1>2, NullAssumption DEF Writes, WritesIncident, AfterIncident, Committed, Mine
<1>5. pc[c] = "commit" => ~ Committed(support_tickets, Bundle(c).ticket_id)
  BY <1>1, <1>2, NullAssumption DEF Writes, WritesTicket, AfterTicket, Committed, Mine
<1>6. pc[c] = "commit" => \A id \in EventsOf(Bundle(c)) : ~ Committed(evidence_events, id)
  BY <1>1, <1>2, NullAssumption DEF Writes, WritesEvidence, Inserted, Committed, Mine
<1>7. pc[c] \in AfterIncident => \A other \in Accepted :
        AcceptedBundles[other].correlation_id # Bundle(c).correlation_id
  BY <1>4, OwnersAccepted
<1>8. ASSUME pc[c] = "commit", NEW other \in Accepted
      PROVE  StoredIdentities(AcceptedBundles[other]) \cap StoredIdentities(Bundle(c)) = {}
  <2>1. AcceptedBundles[other].ticket_id # Bundle(c).ticket_id
    BY <1>5, <1>8, OwnersAccepted
  <2>2. EventsOf(AcceptedBundles[other]) \cap EventsOf(Bundle(c)) = {}
    BY <1>6, <1>8, OwnersAccepted
  <2>3. \A x, y : <<"ticket", x>> # <<"event", y>>
    OBVIOUS
  <2> QED
    BY <2>1, <2>2, <2>3 DEF StoredIdentities
<1> QED
  BY <1>3, <1>7, <1>8

LEMMA IdentityStep ==
  ASSUME IInv, NEW c \in Clients, pc[c] \in AfterIncident, AcceptedBundles' = AcceptedBundles,
         Rollback(c, "storage_identity_reused"),
         \E other \in Accepted :
           StoredIdentities(AcceptedBundles[other]) \cap StoredIdentities(Bundle(c)) # {}
  PROVE  Ledger!Next
<1>1. Ledger!Answer(c, "storage_identity_reused", Null) /\ call[c] # Null
  BY AnswerStep DEF Rollback, InTransaction, AfterIncident
<1>2. /\ AcceptedBundles[Key(c)] = Null
      /\ \A other \in Accepted :
           AcceptedBundles[other].correlation_id # Bundle(c).correlation_id
  BY OwnIdentitiesFree DEF AfterReceipt, AfterIncident
<1>3. Ledger!IdentityReused(c)
  BY <1>1, <1>2, LedgerFacts DEF Ledger!IdentityReused, Key, Bundle
<1> QED
  BY <1>1, <1>3 DEF Ledger!Next

LEMMA LedgerStep == IInv /\ [Next]_vars => [Ledger!Next]_(Ledger!vars)
<1> SUFFICES ASSUME IInv, [Next]_vars PROVE Ledger!Next \/ UNCHANGED Ledger!vars
  OBVIOUS
<1>t. IngestionTypeOK /\ IngestionTypeOK'
  BY IngestionTypeStep DEF IInv
<1>1. CASE UNCHANGED vars
  BY <1>1 DEF vars, tables, Ledger!vars, AcceptedBundles, Accepted
<1>2. ASSUME NEW c \in Clients, Call(c) PROVE Ledger!Next
  <2>1. AcceptedBundles' = AcceptedBundles
    BY <1>t, <1>2, CallStep, LedgerUndisturbed
  <2>2. answer[c].status # "pending"
    BY <1>t, <1>2 DEF Call, IngestionTypeOK
  <2>3. Ledger!Call(c)
    BY <1>2, <2>1, <2>2 DEF Call, Ledger!Call, Pending, Ledger!Pending
  <2> QED
    BY <2>3 DEF Ledger!Next
<1>3. ASSUME NEW c \in Clients, InsertReceipt(c) PROVE UNCHANGED Ledger!vars
  <2>1. AcceptedBundles' = AcceptedBundles
    BY <1>t, <1>3, InsertReceiptStep, LedgerUndisturbed
  <2> QED
    BY <1>3, <2>1 DEF InsertReceipt, Ledger!vars
<1>4. ASSUME NEW c \in Clients, CompareReceipt(c) PROVE Ledger!Next
  <2>1. AcceptedBundles' = AcceptedBundles
    BY <1>t, <1>4, CompareStep, LedgerUndisturbed
  <2>2. pc[c] \in InTransaction /\ Key(c) \in Keys
    BY <1>t, <1>4, CallFacts DEF CompareReceipt, InTransaction
  <2>3. Committed(event_ingestions, Key(c)) =>
          /\ AcceptedBundles[Key(c)] = event_ingestions[Key(c)].payload
          /\ AcceptedBundles[Key(c)] # Null
          /\ event_ingestions[Key(c)].response_summary
               = Receipt(Key(c), event_ingestions[Key(c)].payload)
    BY <2>2, LedgerFacts DEF Accepted, IInv, CommittedWhole
  <2>4. CASE Reply(c, "storage_unavailable", Null)
    BY <2>1, <2>2, <2>4, UnavailableStep
  <2>5. CASE /\ Committed(event_ingestions, Key(c))
             /\ event_ingestions[Key(c)].payload # Bundle(c)
             /\ Reply(c, "idempotency_key_reused", Null)
    <3>1. Ledger!Answer(c, "idempotency_key_reused", Null) /\ call[c] # Null
      BY <2>2, <2>5, AnswerStep
    <3> QED
      BY <2>1, <2>3, <2>5, <3>1 DEF Ledger!Next, Ledger!KeyReused, Key, Bundle
  <2>6. CASE /\ Committed(event_ingestions, Key(c))
             /\ event_ingestions[Key(c)].payload = Bundle(c)
             /\ Reply(c, "duplicate", event_ingestions[Key(c)].response_summary)
    <3>1. /\ Ledger!Answer(c, "duplicate", event_ingestions[Key(c)].response_summary)
          /\ call[c] # Null
      BY <2>2, <2>6, AnswerStep
    <3> QED
      BY <2>1, <2>3, <2>6, <3>1
      DEF Ledger!Next, Ledger!Duplicate, Key, Bundle, Receipt, Ledger!Receipt
  <2> QED
    BY <1>4, <2>4, <2>5, <2>6 DEF CompareReceipt
<1>5. ASSUME NEW c \in Clients, InsertIncident(c) PROVE Ledger!Next \/ UNCHANGED Ledger!vars
  <2>1. AcceptedBundles' = AcceptedBundles
    BY <1>t, <1>5, InsertIncidentStep, LedgerUndisturbed
  <2>2. CASE UNCHANGED <<call, answer>>
    BY <2>1, <2>2 DEF Ledger!vars
  <2>3. CASE /\ Committed(incidents, Bundle(c).correlation_id)
             /\ Rollback(c, "correlation_id_reused")
    <3>1. Ledger!Answer(c, "correlation_id_reused", Null) /\ call[c] # Null
      BY <1>5, <2>3, AnswerStep DEF InsertIncident, Rollback, InTransaction
    <3>2. AcceptedBundles[Key(c)] = Null
      BY <1>5, OwnIdentitiesFree DEF InsertIncident, AfterReceipt
    <3>3. \E other \in Ledger!Taken :
            AcceptedBundles[other].correlation_id = Bundle(c).correlation_id
      BY <1>5, <1>t, <2>3, CallFacts, LedgerFacts, OwnersAccepted DEF InsertIncident
    <3> QED
      BY <2>1, <3>1, <3>2, <3>3 DEF Ledger!Next, Ledger!CorrelationReused, Key, Bundle
  <2> QED
    BY <1>5, <2>2, <2>3 DEF InsertIncident
<1>6. ASSUME NEW c \in Clients, InsertTicket(c) PROVE Ledger!Next \/ UNCHANGED Ledger!vars
  <2>1. AcceptedBundles' = AcceptedBundles
    BY <1>t, <1>6, InsertTicketStep, LedgerUndisturbed
  <2>2. CASE UNCHANGED <<call, answer>>
    BY <2>1, <2>2 DEF Ledger!vars
  <2>3. CASE /\ Committed(support_tickets, Bundle(c).ticket_id)
             /\ Rollback(c, "storage_identity_reused")
    <3>1. \E other \in Accepted : AcceptedBundles[other].ticket_id = Bundle(c).ticket_id
      BY <1>6, <1>t, <2>3, CallFacts, OwnersAccepted DEF InsertTicket
    <3>2. \E other \in Accepted :
            StoredIdentities(AcceptedBundles[other]) \cap StoredIdentities(Bundle(c)) # {}
      BY <3>1 DEF StoredIdentities
    <3> QED
      BY <1>6, <2>1, <2>3, <3>2, IdentityStep DEF InsertTicket, AfterIncident
  <2> QED
    BY <1>6, <2>2, <2>3 DEF InsertTicket
<1>7. ASSUME NEW c \in Clients, InsertEvidence(c) PROVE Ledger!Next \/ UNCHANGED Ledger!vars
  <2>1. AcceptedBundles' = AcceptedBundles
    BY <1>t, <1>7, InsertEvidenceStep, LedgerUndisturbed
  <2>2. CASE UNCHANGED <<call, answer>>
    BY <2>1, <2>2 DEF Ledger!vars
  <2>3. CASE /\ Committed(evidence_events, Bundle(c).event_ids[nextLog[c]])
             /\ Rollback(c, "storage_identity_reused")
    <3>1. /\ Bundle(c).event_ids[nextLog[c]] \in Events
          /\ Bundle(c).event_ids[nextLog[c]] \in EventsOf(Bundle(c))
      BY <1>7, <1>t, CallFacts DEF InsertEvidence, EventsOf
    <3>2. \E other \in Accepted :
            Bundle(c).event_ids[nextLog[c]] \in EventsOf(AcceptedBundles[other])
      BY <2>3, <3>1, OwnersAccepted
    <3>3. \E other \in Accepted :
            StoredIdentities(AcceptedBundles[other]) \cap StoredIdentities(Bundle(c)) # {}
      BY <3>1, <3>2 DEF StoredIdentities
    <3> QED
      BY <1>7, <2>1, <2>3, <3>3, IdentityStep DEF InsertEvidence, AfterIncident
  <2> QED
    BY <1>7, <2>2, <2>3 DEF InsertEvidence
<1>8. ASSUME NEW c \in Clients, Commit(c) PROVE Ledger!Next
  <2>1. /\ Key(c) \in Keys \ Accepted
        /\ Accepted' = Accepted \cup {Key(c)}
        /\ \A key \in Accepted : event_ingestions'[key] = event_ingestions[key]
        /\ event_ingestions'[Key(c)].payload = Bundle(c)
    BY <1>t, <1>8, CommitStep
  <2>2. AcceptedBundles' = [AcceptedBundles EXCEPT ![Key(c)] = Bundle(c)]
    BY <2>1 DEF AcceptedBundles
  <2>3. pc[c] = "commit" /\ pc[c] \in InTransaction
    BY <1>8 DEF Commit, InTransaction
  <2>4. /\ AcceptedBundles[Key(c)] = Null
        /\ \A other \in Ledger!Taken :
             /\ AcceptedBundles[other].correlation_id # Bundle(c).correlation_id
             /\ StoredIdentities(AcceptedBundles[other]) \cap StoredIdentities(Bundle(c)) = {}
    BY <2>3, OwnIdentitiesFree, LedgerFacts DEF AfterReceipt, AfterIncident
  <2>5. /\ call[c] # Null
        /\ \/ Ledger!Answer(c, "accepted", Receipt(Key(c), Bundle(c)))
           \/ Ledger!Answer(c, "storage_unavailable", Null)
    BY <1>8, <2>3, AnswerStep DEF Commit
  <2>6. Ledger!Accept(c)
    BY <2>2, <2>4, <2>5 DEF Ledger!Accept, Key, Bundle, Receipt, Ledger!Receipt
  <2> QED
    BY <2>5, <2>6 DEF Ledger!Next
<1>9. ASSUME NEW c \in Clients, LoseConnection(c) PROVE Ledger!Next
  <2>1. AcceptedBundles' = AcceptedBundles
    BY <1>t, <1>9, RollbackStep, LedgerUndisturbed DEF LoseConnection
  <2> QED
    BY <1>9, <2>1, UnavailableStep DEF LoseConnection, Rollback
<1>10. ASSUME NEW c \in Clients, DeadlockVictim(c) PROVE Ledger!Next
  <2>1. AcceptedBundles' = AcceptedBundles /\ pc[c] \in InTransaction
    BY <1>t, <1>10, RollbackStep, LedgerUndisturbed, VictimInTransaction DEF DeadlockVictim
  <2> QED
    BY <1>10, <2>1, UnavailableStep DEF DeadlockVictim, Rollback
<1> QED
  BY <1>1, <1>2, <1>3, <1>4, <1>5, <1>6, <1>7, <1>8, <1>9, <1>10 DEF Next, Step

\* PostgresIngestionStore answers every call as one ledger would at one instant of the call,
\* for any clients, keys and bundles, whatever overlaps, deadlocks or is lost.
THEOREM IngestionImplementsLedger == IngestionSpec => ImplementsLedger
<1>1. Init => Ledger!Init
  BY DEF Init, Ledger!Init, AcceptedBundles, Accepted, Committed, Row, NoAnswer, Ledger!NoAnswer
<1> QED
  BY <1>1, LedgerStep, IngestionInductive, PTL DEF IngestionSpec, ImplementsLedger, Ledger!Spec
=============================================================================
