-------------------------- MODULE MemoryIngestion --------------------------
(***************************************************************************)
(* InMemoryIngestionStore: POST /events on the memory backend.  The calls  *)
(* of one process run on threads that may be switched between any two      *)
(* accesses to the three dictionaries; the lock is held from the first     *)
(* lookup to the return.                                                   *)
(***************************************************************************)
EXTENDS EventBundles

CONSTANT Clients   \* threads that call POST /events, one call at a time

ASSUME NullAssumption == Null \notin Clients \cup Receipts \cup [key : Keys, bundle : Bundles]

VARIABLES
  records_by_key,         \* key |-> IngestionRecord or Null
  payload_hash_by_key,    \* key |-> bundle (its hash) or Null
  key_by_correlation_id,  \* correlation_id |-> key or Null
  lock,                   \* the thread that holds _lock, or Null
  pc, call, answer        \* client |-> where it is, its last call and its answer

dicts == <<records_by_key, payload_hash_by_key, key_by_correlation_id>>
vars == <<dicts, lock, pc, call, answer>>

Inside == {"lookup", "correlation", "record", "hash", "index"}

MemoryTypeOK ==
  /\ \A key \in Keys : records_by_key[key] # Null => records_by_key[key].idempotency_key = key
  /\ payload_hash_by_key \in [Keys -> Bundles \cup {Null}]
  /\ key_by_correlation_id \in [Correlations -> Keys \cup {Null}]
  /\ lock \in Clients \cup {Null}
  /\ pc \in [Clients -> Inside \cup {"waiting", "done"}]
  /\ call \in [Clients -> [key : Keys, bundle : Bundles] \cup {Null}]
  /\ answer \in [Clients -> Answers]

Init ==
  /\ records_by_key = [key \in Keys |-> Null]
  /\ payload_hash_by_key = [key \in Keys |-> Null]
  /\ key_by_correlation_id = [id \in Correlations |-> Null]
  /\ lock = Null
  /\ pc = [c \in Clients |-> "done"]
  /\ call = [c \in Clients |-> Null]
  /\ answer = [c \in Clients |-> NoAnswer]

Key(c) == call[c].key
Bundle(c) == call[c].bundle

GoTo(c, at) == pc' = [pc EXCEPT ![c] = at]

Call(c) ==
  /\ pc[c] = "done"
  /\ \E key \in Keys, b \in Bundles : call' = [call EXCEPT ![c] = [key |-> key, bundle |-> b]]
  /\ answer' = [answer EXCEPT ![c] = Pending]
  /\ GoTo(c, "waiting")
  /\ UNCHANGED <<dicts, lock>>

\* Faulty: there is no lock.
OpenDoor(c) == TRUE

Unlocked(c) == lock = Null

Enter(c) ==
  /\ pc[c] = "waiting"
  /\ Unlocked(c)
  /\ lock' = c
  /\ GoTo(c, "lookup")
  /\ UNCHANGED <<dicts, call, answer>>

\* The end of the with block: return or raise.
Leave(c, status, record) ==
  /\ lock' = Null
  /\ GoTo(c, "done")
  /\ answer' = [answer EXCEPT ![c] = [status |-> status, record |-> record]]
  /\ call' = call

LookUp(c) ==
  /\ pc[c] = "lookup"
  /\ UNCHANGED dicts
  /\ \/ /\ records_by_key[Key(c)] = Null
        /\ GoTo(c, "correlation")
        /\ UNCHANGED <<lock, call, answer>>
     \/ /\ records_by_key[Key(c)] # Null
        /\ payload_hash_by_key[Key(c)] # Bundle(c)
        /\ Leave(c, "idempotency_key_reused", Null)
     \/ /\ records_by_key[Key(c)] # Null
        /\ payload_hash_by_key[Key(c)] = Bundle(c)
        /\ Leave(c, "duplicate", records_by_key[Key(c)])

\* Faulty: the correlation is not looked up.
CheckNothing(c) ==
  /\ pc[c] = "correlation"
  /\ GoTo(c, "record")
  /\ UNCHANGED <<dicts, lock, call, answer>>

CheckCorrelation(c) ==
  LET existing_key == key_by_correlation_id[Bundle(c).correlation_id]
  IN  /\ pc[c] = "correlation"
      /\ UNCHANGED dicts
      /\ \/ /\ existing_key = Null
            /\ GoTo(c, "record")
            /\ UNCHANGED <<lock, call, answer>>
         \/ /\ existing_key # Null
            /\ Leave(c, "correlation_id_reused", Null)

SaveRecord(c) ==
  /\ pc[c] = "record"
  /\ records_by_key' = [records_by_key EXCEPT ![Key(c)] = Receipt(Key(c), Bundle(c))]
  /\ GoTo(c, "hash")
  /\ UNCHANGED <<payload_hash_by_key, key_by_correlation_id, lock, call, answer>>

SaveHash(c) ==
  /\ pc[c] = "hash"
  /\ payload_hash_by_key' = [payload_hash_by_key EXCEPT ![Key(c)] = Bundle(c)]
  /\ GoTo(c, "index")
  /\ UNCHANGED <<records_by_key, key_by_correlation_id, lock, call, answer>>

SaveCorrelation(c) ==
  /\ pc[c] = "index"
  /\ key_by_correlation_id' = [key_by_correlation_id EXCEPT ![Bundle(c).correlation_id] = Key(c)]
  /\ Leave(c, "accepted", Receipt(Key(c), Bundle(c)))
  /\ UNCHANGED <<records_by_key, payload_hash_by_key>>

Next ==
  \E c \in Clients :
    \/ Call(c)
    \/ Enter(c)
    \/ LookUp(c)
    \/ CheckCorrelation(c)
    \/ SaveRecord(c)
    \/ SaveHash(c)
    \/ SaveCorrelation(c)

MemorySpec == Init /\ [][Next]_vars

-----------------------------------------------------------------------------
(* Correctness *)

\* The lookup of a receipt's hash never raises KeyError, and the three dictionaries agree
\* whenever no call is between its first and its last write (ingestion.py:68, 81-83).
DictionariesAgree ==
  /\ MemoryTypeOK
  /\ \A c \in Clients :
       pc[c] = "lookup" /\ records_by_key[Key(c)] # Null => payload_hash_by_key[Key(c)] # Null
  /\ (\A c \in Clients : pc[c] \notin {"hash", "index"}) =>
       \A key \in Keys :
         IF records_by_key[key] = Null
         THEN \A id \in Correlations : key_by_correlation_id[id] # key
         ELSE LET b == payload_hash_by_key[key]
              IN  /\ records_by_key[key] = Receipt(key, b)
                  /\ {id \in Correlations : key_by_correlation_id[id] = key} = {b.correlation_id}

Accepted == {key_by_correlation_id[id] : id \in Correlations} \ {Null}
LedgerOf == [key \in Keys |-> IF key \in Accepted THEN payload_hash_by_key[key] ELSE Null]

\* Nothing but keys and correlations is compared.
NoIdentities(b) == {}
Ledger == INSTANCE IngestionLedger WITH ledger <- LedgerOf, Identities <- NoIdentities

\* Calls that overlap are answered as the same calls one after the other would be.
MemoryImplementsLedger == Ledger!Spec

StoredIdentities(b) == {<<"ticket", b.ticket_id>>} \cup {<<"event", id>> : id \in EventsOf(b)}
DurableLedger == INSTANCE IngestionLedger WITH
  ledger <- LedgerOf, Identities <- StoredIdentities

\* "The in-memory adapter matches the durable adapter's duplicate and conflict contract"
\* (docs/superpowers/specs/2026-09-04-foundation-first-persistence-design.md:199): it answers
\* by the ledger that PostgresIngestionStore implements.
MatchesDurableContract == DurableLedger!Spec
=============================================================================
