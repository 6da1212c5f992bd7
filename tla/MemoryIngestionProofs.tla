------------------------ MODULE MemoryIngestionProofs ------------------------
(***************************************************************************)
(* Proofs about InMemoryIngestionStore, for any number of threads, keys    *)
(* and bundles.                                                            *)
(***************************************************************************)
EXTENDS MemoryIngestion, TLAPS

-----------------------------------------------------------------------------
(* The inductive invariant *)

Types ==
  /\ records_by_key \in [Keys -> Receipts \cup {Null}]
  /\ payload_hash_by_key \in [Keys -> Bundles \cup {Null}]
  /\ key_by_correlation_id \in [Correlations -> Keys \cup {Null}]
  /\ lock \in Clients \cup {Null}
  /\ pc \in [Clients -> Inside \cup {"waiting", "done"}]
  /\ call \in [Clients -> [key : Keys, bundle : Bundles] \cup {Null}]
  /\ answer \in [Clients -> Answers]

\* A dictionary that is written later names only what an earlier one holds, and lags behind it
\* by the key that is being saved.
DictionariesInv ==
  /\ \A key \in Keys : payload_hash_by_key[key] # Null =>
       records_by_key[key] = Receipt(key, payload_hash_by_key[key])
  /\ \A id \in Correlations : key_by_correlation_id[id] # Null =>
       /\ payload_hash_by_key[key_by_correlation_id[id]] # Null
       /\ payload_hash_by_key[key_by_correlation_id[id]].correlation_id = id
  /\ \A key \in Keys : records_by_key[key] # Null /\ payload_hash_by_key[key] = Null =>
       \E c \in Clients : pc[c] = "hash" /\ Key(c) = key
  /\ \A key \in Keys :
       payload_hash_by_key[key] # Null =>
         \/ key_by_correlation_id[payload_hash_by_key[key].correlation_id] = key
         \/ \E c \in Clients : pc[c] = "index" /\ Key(c) = key

\* What the thread of c has found and written so far still stands.
ClientInv(c) ==
  /\ pc[c] \in Inside <=> lock = c
  /\ pc[c] = "done" <=> answer[c].status # "pending"
  /\ pc[c] # "done" => call[c] # Null
  /\ pc[c] \in {"correlation", "record"} => records_by_key[Key(c)] = Null
  /\ pc[c] \in {"record", "hash", "index"} =>
       key_by_correlation_id[Bundle(c).correlation_id] = Null
  /\ pc[c] \in {"hash", "index"} => records_by_key[Key(c)] = Receipt(Key(c), Bundle(c))
  /\ pc[c] = "hash" => payload_hash_by_key[Key(c)] = Null
  /\ pc[c] = "index" => payload_hash_by_key[Key(c)] = Bundle(c)

MemoryInv == Types /\ DictionariesInv /\ \A c \in Clients : ClientInv(c)

-----------------------------------------------------------------------------
(* Facts about the state *)

LEMMA BundleFacts ==
  ASSUME NEW key \in Keys, NEW b \in Bundles
  PROVE  /\ b.correlation_id \in Correlations /\ b # Null
         /\ Receipt(key, b) \in Receipts /\ Receipt(key, b) # Null
BY BundlesAssumption, NullAssumption DEF EventBundle, Receipts

LEMMA AnswerFacts ==
  ASSUME NEW status \in Statuses, NEW record \in Receipts \cup {Null}
  PROVE  [status |-> status, record |-> record] \in Answers
BY DEF Answers

\* The call of a thread that is inside, whose lock it is.
LEMMA InsideFacts ==
  ASSUME MemoryInv, NEW c \in Clients, pc[c] \in Inside
  PROVE  /\ lock = c /\ Key(c) \in Keys /\ Bundle(c) \in Bundles
         /\ call[c] # Null /\ answer[c].status = "pending"
         /\ \A d \in Clients \ {c} : pc[d] \notin Inside
BY DEF MemoryInv, Types, ClientInv, Inside, Key, Bundle

\* What a thread outside relies on is its own.
LEMMA OutsideLeftAlone ==
  ASSUME NEW d \in Clients, ClientInv(d), pc[d] \notin Inside, lock' # d,
         pc'[d] = pc[d], call'[d] = call[d], answer'[d] = answer[d]
  PROVE  ClientInv(d)'
BY DEF ClientInv, Inside

LEMMA ClientLeftAlone ==
  ASSUME NEW d \in Clients, ClientInv(d), UNCHANGED <<dicts, lock>>,
         pc'[d] = pc[d], call'[d] = call[d], answer'[d] = answer[d]
  PROVE  ClientInv(d)'
BY DEF ClientInv, dicts, Key, Bundle

\* The threads that wait while another is inside or leaves.
LEMMA OthersLeftAlone ==
  ASSUME MemoryInv, NEW c \in Clients, pc[c] \in Inside, lock' \in {c, Null},
         \A d \in Clients \ {c} : pc'[d] = pc[d] /\ call'[d] = call[d] /\ answer'[d] = answer[d],
         ClientInv(c)'
  PROVE  \A d \in Clients : ClientInv(d)'
BY InsideFacts, OutsideLeftAlone, NullAssumption DEF MemoryInv

LEMMA DictionariesLeftAlone ==
  ASSUME DictionariesInv, UNCHANGED dicts, NEW c \in Clients, pc[c] \notin {"hash", "index"},
         \A d \in Clients \ {c} : pc'[d] = pc[d] /\ call'[d] = call[d]
  PROVE  DictionariesInv'
<1>1. ASSUME NEW key \in Keys, NEW at \in {"hash", "index"},
             \E d \in Clients : pc[d] = at /\ Key(d) = key
      PROVE  \E d \in Clients : pc'[d] = at /\ Key(d)' = key
  BY <1>1 DEF Key
<1> QED
  BY <1>1 DEF DictionariesInv, dicts

\* What the dictionaries say of a bundle while nobody saves one.
LEMMA DictionariesAtRest ==
  ASSUME MemoryInv, \A c \in Clients : pc[c] \notin {"hash", "index"}, NEW key \in Keys,
         records_by_key[key] # Null
  PROVE  /\ payload_hash_by_key[key] \in Bundles
         /\ records_by_key[key] = Receipt(key, payload_hash_by_key[key])
         /\ key_by_correlation_id[payload_hash_by_key[key].correlation_id] = key
BY DEF MemoryInv, Types, DictionariesInv

LEMMA UnknownKey ==
  ASSUME MemoryInv, NEW key \in Keys, payload_hash_by_key[key] = Null
  PROVE  \A id \in Correlations : key_by_correlation_id[id] # key
BY BundlesAssumption DEF MemoryInv, Types, DictionariesInv

LEMMA NoRecordNoHash ==
  ASSUME MemoryInv, NEW key \in Keys, records_by_key[key] = Null
  PROVE  payload_hash_by_key[key] = Null
BY BundleFacts DEF MemoryInv, Types, DictionariesInv

-----------------------------------------------------------------------------
(* Each action preserves the invariant *)

LEMMA MemoryInitInv == Init => MemoryInv
<1> SUFFICES ASSUME Init PROVE MemoryInv
  OBVIOUS
<1>1. Types
  BY AnswerFacts DEF Init, Types, NoAnswer, Statuses
<1>2. DictionariesInv
  BY DEF Init, DictionariesInv
<1>3. \A c \in Clients : ClientInv(c)
  BY NullAssumption DEF Init, ClientInv, Inside, NoAnswer
<1> QED
  BY <1>1, <1>2, <1>3 DEF MemoryInv

LEMMA CallKeepsInv ==
  ASSUME MemoryInv, NEW c \in Clients, Call(c)
  PROVE  MemoryInv'
<1>1. PICK key \in Keys, b \in Bundles : call' = [call EXCEPT ![c] = [key |-> key, bundle |-> b]]
  BY DEF Call
<1>2. /\ pc[c] = "done" /\ pc' = [pc EXCEPT ![c] = "waiting"]
      /\ answer' = [answer EXCEPT ![c] = Pending] /\ UNCHANGED <<dicts, lock>>
  BY DEF Call, GoTo
<1>3. Types'
  <2>1. Pending \in Answers
    BY AnswerFacts DEF Pending, Statuses
  <2> QED
    BY <1>1, <1>2, <2>1 DEF MemoryInv, Types, dicts
<1>4. DictionariesInv'
  BY <1>1, <1>2, DictionariesLeftAlone DEF MemoryInv, Types
<1>5. ClientInv(c)'
  BY <1>1, <1>2, NullAssumption DEF MemoryInv, Types, ClientInv, Inside, Pending
<1>6. ASSUME NEW d \in Clients \ {c} PROVE ClientInv(d)'
  BY <1>1, <1>2, ClientLeftAlone DEF MemoryInv, Types
<1> QED
  BY <1>3, <1>4, <1>5, <1>6 DEF MemoryInv

LEMMA EnterKeepsInv ==
  ASSUME MemoryInv, NEW c \in Clients, Enter(c)
  PROVE  MemoryInv'
<1>1. /\ pc[c] = "waiting" /\ lock = Null /\ lock' = c
      /\ pc' = [pc EXCEPT ![c] = "lookup"] /\ UNCHANGED <<dicts, call, answer>>
  BY DEF Enter, Unlocked, GoTo
<1>2. Types'
  BY <1>1 DEF MemoryInv, Types, dicts, Inside
<1>3. DictionariesInv'
  BY <1>1, DictionariesLeftAlone DEF MemoryInv, Types
<1>4. ClientInv(c)'
  BY <1>1 DEF MemoryInv, Types, ClientInv, Inside
<1>5. ASSUME NEW d \in Clients \ {c} PROVE ClientInv(d)'
  BY <1>1, OutsideLeftAlone, NullAssumption DEF MemoryInv, Types, ClientInv
<1> QED
  BY <1>2, <1>3, <1>4, <1>5 DEF MemoryInv

\* Leaving the block with an answer, from where nothing has been written or all has.
LEMMA LeaveKeepsClients ==
  ASSUME MemoryInv, NEW c \in Clients, pc[c] \in Inside,
         NEW status \in Statuses \ {"pending"}, NEW record, Leave(c, status, record)
  PROVE  \A d \in Clients : ClientInv(d)'
<1>1. ClientInv(c)'
  BY InsideFacts, NullAssumption DEF MemoryInv, Types, ClientInv, Leave, GoTo, Inside
<1> QED
  BY <1>1, OthersLeftAlone DEF MemoryInv, Types, Leave, GoTo

LEMMA LeaveKeepsTypes ==
  ASSUME MemoryInv, NEW c \in Clients, NEW status \in Statuses,
         NEW record \in Receipts \cup {Null}, Leave(c, status, record)
  PROVE  /\ lock' \in Clients \cup {Null}
         /\ pc' \in [Clients -> Inside \cup {"waiting", "done"}]
         /\ call' \in [Clients -> [key : Keys, bundle : Bundles] \cup {Null}]
         /\ answer' \in [Clients -> Answers]
BY AnswerFacts DEF MemoryInv, Types, Leave, GoTo

LEMMA RefuseKeepsInv ==
  ASSUME MemoryInv, NEW c \in Clients, pc[c] \in {"lookup", "correlation"}, UNCHANGED dicts,
         NEW status \in Statuses \ {"pending"}, NEW record \in Receipts \cup {Null},
         Leave(c, status, record)
  PROVE  MemoryInv'
<1>1. Types'
  BY LeaveKeepsTypes DEF MemoryInv, Types, dicts
<1>2. DictionariesInv'
  BY DictionariesLeftAlone DEF MemoryInv, Types, Leave, GoTo
<1>3. \A d \in Clients : ClientInv(d)'
  BY LeaveKeepsClients DEF Inside
<1> QED
  BY <1>1, <1>2, <1>3 DEF MemoryInv

LEMMA LookUpKeepsInv ==
  ASSUME MemoryInv, NEW c \in Clients, LookUp(c)
  PROVE  MemoryInv'
<1>1. pc[c] = "lookup" /\ UNCHANGED dicts /\ Key(c) \in Keys
  BY InsideFacts DEF LookUp, Inside
<1>2. CASE /\ records_by_key[Key(c)] = Null
           /\ GoTo(c, "correlation")
           /\ UNCHANGED <<lock, call, answer>>
  <2>1. Types'
    BY <1>1, <1>2 DEF MemoryInv, Types, dicts, GoTo, Inside
  <2>2. DictionariesInv'
    BY <1>1, <1>2, DictionariesLeftAlone DEF MemoryInv, Types, GoTo
  <2>3. ClientInv(c)'
    BY <1>1, <1>2 DEF MemoryInv, Types, ClientInv, dicts, GoTo, Inside, Key
  <2>4. lock = c
    BY <1>1, InsideFacts DEF Inside
  <2>5. \A d \in Clients : ClientInv(d)'
    BY <1>1, <1>2, <2>3, <2>4, OthersLeftAlone DEF MemoryInv, Types, GoTo, Inside
  <2> QED
    BY <2>1, <2>2, <2>5 DEF MemoryInv
<1>3. CASE Leave(c, "idempotency_key_reused", Null)
  BY <1>1, <1>3, RefuseKeepsInv DEF Statuses
<1>4. CASE Leave(c, "duplicate", records_by_key[Key(c)])
  BY <1>1, <1>4, RefuseKeepsInv DEF Statuses, MemoryInv, Types
<1> QED
  BY <1>2, <1>3, <1>4 DEF LookUp

LEMMA CheckCorrelationKeepsInv ==
  ASSUME MemoryInv, NEW c \in Clients, CheckCorrelation(c)
  PROVE  MemoryInv'
<1>1. pc[c] = "correlation" /\ UNCHANGED dicts /\ lock = c
  BY InsideFacts DEF CheckCorrelation, Inside
<1>2. CASE /\ key_by_correlation_id[Bundle(c).correlation_id] = Null
           /\ GoTo(c, "record")
           /\ UNCHANGED <<lock, call, answer>>
  <2>1. Types'
    BY <1>1, <1>2 DEF MemoryInv, Types, dicts, GoTo, Inside
  <2>2. DictionariesInv'
    BY <1>1, <1>2, DictionariesLeftAlone DEF MemoryInv, Types, GoTo
  <2>3. ClientInv(c)'
    BY <1>1, <1>2 DEF MemoryInv, Types, ClientInv, dicts, GoTo, Inside, Key, Bundle
  <2>4. \A d \in Clients : ClientInv(d)'
    BY <1>1, <1>2, <2>3, OthersLeftAlone DEF MemoryInv, Types, GoTo, Inside
  <2> QED
    BY <2>1, <2>2, <2>4 DEF MemoryInv
<1>3. CASE Leave(c, "correlation_id_reused", Null)
  BY <1>1, <1>3, RefuseKeepsInv DEF Statuses
<1> QED
  BY <1>2, <1>3 DEF CheckCorrelation

LEMMA SaveRecordKeepsInv ==
  ASSUME MemoryInv, NEW c \in Clients, SaveRecord(c)
  PROVE  MemoryInv'
<1>1. /\ pc[c] = "record" /\ lock = c /\ Key(c) \in Keys /\ Bundle(c) \in Bundles
      /\ records_by_key[Key(c)] = Null
  BY InsideFacts DEF SaveRecord, Inside, MemoryInv, ClientInv
<1>2. payload_hash_by_key[Key(c)] = Null
  BY <1>1, NoRecordNoHash
<1>3. /\ records_by_key' = [records_by_key EXCEPT ![Key(c)] = Receipt(Key(c), Bundle(c))]
      /\ pc' = [pc EXCEPT ![c] = "hash"]
      /\ UNCHANGED <<payload_hash_by_key, key_by_correlation_id, lock, call, answer>>
  BY DEF SaveRecord, GoTo
<1>4. Types'
  BY <1>1, <1>3, BundleFacts DEF MemoryInv, Types, Inside
<1>5. ASSUME NEW key \in Keys, records_by_key'[key] # Null, payload_hash_by_key'[key] = Null
      PROVE  \E d \in Clients : pc'[d] = "hash" /\ Key(d)' = key
  <2>1. CASE key = Key(c)
    BY <1>3, <2>1 DEF MemoryInv, Types, Key
  <2>2. CASE key # Key(c)
    <3>1. PICK d \in Clients : pc[d] = "hash" /\ Key(d) = key
      BY <1>3, <1>5, <2>2 DEF MemoryInv, Types, DictionariesInv
    <3> QED
      BY <1>1, <3>1, InsideFacts DEF Inside
  <2> QED
    BY <2>1, <2>2
<1>6. ASSUME NEW key \in Keys, NEW d \in Clients, pc[d] = "index", Key(d) = key
      PROVE  FALSE
  BY <1>1, <1>6, InsideFacts DEF Inside
<1>7. DictionariesInv'
  BY <1>1, <1>2, <1>3, <1>5, <1>6 DEF MemoryInv, Types, DictionariesInv
<1>8. ClientInv(c)'
  BY <1>1, <1>2, <1>3 DEF MemoryInv, Types, ClientInv, Inside, Key, Bundle
<1>9. \A d \in Clients : ClientInv(d)'
  BY <1>1, <1>3, <1>8, OthersLeftAlone DEF MemoryInv, Types, Inside
<1> QED
  BY <1>4, <1>7, <1>9 DEF MemoryInv

LEMMA SaveHashKeepsInv ==
  ASSUME MemoryInv, NEW c \in Clients, SaveHash(c)
  PROVE  MemoryInv'
<1>1. /\ pc[c] = "hash" /\ lock = c /\ Key(c) \in Keys /\ Bundle(c) \in Bundles
      /\ records_by_key[Key(c)] = Receipt(Key(c), Bundle(c))
      /\ payload_hash_by_key[Key(c)] = Null
  BY InsideFacts DEF SaveHash, Inside, MemoryInv, ClientInv
<1>2. \A id \in Correlations : key_by_correlation_id[id] # Key(c)
  BY <1>1, UnknownKey
<1>3. /\ payload_hash_by_key' = [payload_hash_by_key EXCEPT ![Key(c)] = Bundle(c)]
      /\ pc' = [pc EXCEPT ![c] = "index"]
      /\ UNCHANGED <<records_by_key, key_by_correlation_id, lock, call, answer>>
  BY DEF SaveHash, GoTo
<1>4. Types'
  BY <1>1, <1>3 DEF MemoryInv, Types, Inside
<1>5. \A d \in Clients \ {c} : pc[d] \notin {"hash", "index"}
  BY <1>1, InsideFacts DEF Inside
<1>6. \A key \in Keys \ {Key(c)} : payload_hash_by_key'[key] = payload_hash_by_key[key]
  BY <1>3 DEF MemoryInv, Types
<1>7. payload_hash_by_key'[Key(c)] = Bundle(c) /\ pc'[c] = "index" /\ Key(c)' = Key(c)
  BY <1>1, <1>3 DEF MemoryInv, Types, Key
<1>8. ASSUME NEW key \in Keys
      PROVE  /\ payload_hash_by_key'[key] # Null =>
                  records_by_key'[key] = Receipt(key, payload_hash_by_key'[key])
             /\ records_by_key'[key] # Null => payload_hash_by_key'[key] # Null
             /\ payload_hash_by_key'[key] # Null =>
                  \/ key_by_correlation_id'[payload_hash_by_key'[key].correlation_id] = key
                  \/ key = Key(c)
  <2>1. CASE key = Key(c)
    BY <1>1, <1>3, <1>7, <2>1, BundleFacts
  <2>2. CASE key # Key(c)
    BY <1>1, <1>3, <1>5, <1>6, <2>2 DEF MemoryInv, DictionariesInv
  <2> QED
    BY <2>1, <2>2
<1>9. ASSUME NEW id \in Correlations, key_by_correlation_id'[id] # Null
      PROVE  /\ payload_hash_by_key'[key_by_correlation_id'[id]] # Null
             /\ payload_hash_by_key'[key_by_correlation_id'[id]].correlation_id = id
  BY <1>2, <1>3, <1>6, <1>9 DEF MemoryInv, Types, DictionariesInv
<1>10. DictionariesInv'
  BY <1>7, <1>8, <1>9 DEF DictionariesInv
<1>11. ClientInv(c)'
  BY <1>1, <1>3, <1>7 DEF MemoryInv, ClientInv, Inside, Key, Bundle
<1>12. \A d \in Clients : ClientInv(d)'
  BY <1>1, <1>3, <1>11, OthersLeftAlone DEF MemoryInv, Types, Inside
<1> QED
  BY <1>4, <1>10, <1>12 DEF MemoryInv

LEMMA SaveCorrelationKeepsInv ==
  ASSUME MemoryInv, NEW c \in Clients, SaveCorrelation(c)
  PROVE  MemoryInv'
<1> DEFINE id == Bundle(c).correlation_id
<1>1. /\ pc[c] = "index" /\ lock = c /\ Key(c) \in Keys /\ Bundle(c) \in Bundles
      /\ id \in Correlations /\ payload_hash_by_key[Key(c)] = Bundle(c)
      /\ key_by_correlation_id[id] = Null
  BY InsideFacts, BundleFacts DEF SaveCorrelation, Inside, MemoryInv, ClientInv
<1>2. /\ key_by_correlation_id' = [key_by_correlation_id EXCEPT ![id] = Key(c)]
      /\ Leave(c, "accepted", Receipt(Key(c), Bundle(c)))
      /\ UNCHANGED <<records_by_key, payload_hash_by_key>>
  BY DEF SaveCorrelation
<1>3. Receipt(Key(c), Bundle(c)) \in Receipts
  BY <1>1, BundleFacts
<1>4. Types'
  <2>1. key_by_correlation_id' \in [Correlations -> Keys \cup {Null}]
    BY <1>1, <1>2 DEF MemoryInv, Types
  <2>2. "accepted" \in Statuses
    BY DEF Statuses
  <2> QED
    BY <1>2, <1>3, <2>1, <2>2, LeaveKeepsTypes DEF MemoryInv, Types
<1>5. \A d \in Clients \ {c} : pc[d] \notin {"hash", "index"}
  BY <1>1, InsideFacts DEF Inside
<1>6. ASSUME NEW i \in Correlations
      PROVE  key_by_correlation_id'[i] = IF i = id THEN Key(c) ELSE key_by_correlation_id[i]
  BY <1>1, <1>2 DEF MemoryInv, Types
<1>7. ASSUME NEW i \in Correlations, key_by_correlation_id'[i] # Null
      PROVE  /\ payload_hash_by_key[key_by_correlation_id'[i]] # Null
             /\ payload_hash_by_key[key_by_correlation_id'[i]].correlation_id = i
  BY <1>1, <1>6, <1>7, BundleFacts DEF MemoryInv, DictionariesInv
<1>8. ASSUME NEW key \in Keys, payload_hash_by_key[key] # Null
      PROVE  key_by_correlation_id'[payload_hash_by_key[key].correlation_id] = key
  <2>1. CASE key = Key(c)
    BY <1>1, <1>6, <2>1
  <2>2. CASE key # Key(c)
    <3>1. payload_hash_by_key[key] \in Bundles
      BY <1>8 DEF MemoryInv, Types
    <3>2. payload_hash_by_key[key].correlation_id \in Correlations
      BY <3>1, BundleFacts
    <3>3. key_by_correlation_id[payload_hash_by_key[key].correlation_id] = key
      BY <1>5, <1>8, <2>2 DEF MemoryInv, DictionariesInv
    <3>4. key # Null
      BY BundlesAssumption
    <3> QED
      BY <1>1, <1>6, <3>2, <3>3, <3>4
  <2> QED
    BY <2>1, <2>2
<1>9. ASSUME NEW key \in Keys, records_by_key[key] # Null PROVE payload_hash_by_key[key] # Null
  BY <1>1, <1>5, <1>9, BundleFacts DEF MemoryInv, DictionariesInv
<1>10. DictionariesInv'
  BY <1>2, <1>7, <1>8, <1>9 DEF MemoryInv, DictionariesInv
<1>11. \A d \in Clients : ClientInv(d)'
  BY <1>1, <1>2, LeaveKeepsClients DEF Inside, Statuses
<1> QED
  BY <1>4, <1>10, <1>11 DEF MemoryInv

LEMMA MemoryStutterInv ==
  ASSUME MemoryInv, UNCHANGED vars
  PROVE  MemoryInv'
BY DEF MemoryInv, Types, DictionariesInv, ClientInv, vars, dicts, Key, Bundle

LEMMA MemoryInvHolds == MemorySpec => []MemoryInv
<1>1. MemoryInv /\ [Next]_vars => MemoryInv'
  BY CallKeepsInv, EnterKeepsInv, LookUpKeepsInv, CheckCorrelationKeepsInv, SaveRecordKeepsInv,
     SaveHashKeepsInv, SaveCorrelationKeepsInv, MemoryStutterInv DEF Next
<1> QED
  BY <1>1, MemoryInitInv, PTL DEF MemorySpec

LEMMA MemoryInvImplies == MemoryInv => DictionariesAgree
<1> SUFFICES ASSUME MemoryInv PROVE DictionariesAgree
  OBVIOUS
<1>1. MemoryTypeOK
  <2>1. ASSUME NEW key \in Keys, records_by_key[key] # Null
        PROVE  records_by_key[key].idempotency_key = key
    <3>1. PICK b : records_by_key[key] = Receipt(key, b)
      <4>1. CASE payload_hash_by_key[key] # Null
        BY <4>1 DEF MemoryInv, DictionariesInv
      <4>2. CASE payload_hash_by_key[key] = Null
        BY <2>1, <4>2 DEF MemoryInv, DictionariesInv, ClientInv
      <4> QED
        BY <4>1, <4>2
    <3> QED
      BY <3>1 DEF Receipt
  <2> QED
    BY <2>1 DEF MemoryInv, Types, MemoryTypeOK
<1>2. ASSUME NEW c \in Clients, pc[c] = "lookup", records_by_key[Key(c)] # Null
      PROVE  payload_hash_by_key[Key(c)] # Null
  <2>1. Key(c) \in Keys /\ \A d \in Clients : pc[d] \notin {"hash", "index"}
    BY <1>2, InsideFacts DEF Inside
  <2> QED
    BY <1>2, <2>1, DictionariesAtRest, BundlesAssumption
<1>3. ASSUME \A c \in Clients : pc[c] \notin {"hash", "index"}, NEW key \in Keys,
             records_by_key[key] # Null
      PROVE  LET b == payload_hash_by_key[key] IN
             /\ records_by_key[key] = Receipt(key, b)
             /\ {id \in Correlations : key_by_correlation_id[id] = key} = {b.correlation_id}
  <2>1. /\ payload_hash_by_key[key] \in Bundles
        /\ records_by_key[key] = Receipt(key, payload_hash_by_key[key])
        /\ key_by_correlation_id[payload_hash_by_key[key].correlation_id] = key
    BY <1>3, DictionariesAtRest
  <2>2. payload_hash_by_key[key].correlation_id \in Correlations /\ key # Null
    BY <2>1, BundleFacts, BundlesAssumption
  <2>3. ASSUME NEW id \in Correlations, key_by_correlation_id[id] = key
        PROVE  id = payload_hash_by_key[key].correlation_id
    BY <2>2, <2>3 DEF MemoryInv, DictionariesInv
  <2> QED
    BY <2>1, <2>2, <2>3
<1>4. ASSUME NEW key \in Keys, records_by_key[key] = Null
      PROVE  \A id \in Correlations : key_by_correlation_id[id] # key
  BY <1>4, NoRecordNoHash, UnknownKey
<1> QED
  BY <1>1, <1>2, <1>3, <1>4 DEF DictionariesAgree

\* No lookup of a stored hash raises KeyError, and the three dictionaries agree whenever nobody
\* is between the first and the last write of a bundle (ingestion.py:68, 81-83).
THEOREM DictionariesStayTrue == MemorySpec => []DictionariesAgree
  BY MemoryInvHolds, MemoryInvImplies, PTL

-----------------------------------------------------------------------------
(* The threads implement the ledger *)

LEMMA AcceptedFacts ==
  ASSUME MemoryInv
  PROVE  /\ Accepted \subseteq Keys /\ Ledger!Taken = Accepted
         /\ \A key \in Keys : key \notin Accepted => LedgerOf[key] = Null
         /\ \A key \in Accepted :
              /\ LedgerOf[key] = payload_hash_by_key[key] /\ LedgerOf[key] \in Bundles
              /\ LedgerOf[key] # Null
              /\ key_by_correlation_id[LedgerOf[key].correlation_id] = key
<1>1. Accepted \subseteq Keys
  BY DEF MemoryInv, Types, Accepted
<1>2. ASSUME NEW key \in Accepted
      PROVE  /\ payload_hash_by_key[key] \in Bundles
             /\ key_by_correlation_id[payload_hash_by_key[key].correlation_id] = key
  BY <1>1 DEF Accepted, MemoryInv, Types, DictionariesInv
<1>3. \A key \in Keys :
        LedgerOf[key] = IF key \in Accepted THEN payload_hash_by_key[key] ELSE Null
  BY DEF LedgerOf
<1>4. Null \notin Bundles
  BY BundlesAssumption
<1> QED
  BY <1>1, <1>2, <1>3, <1>4 DEF Ledger!Taken

LEMMA LedgerLeftAlone ==
  ASSUME UNCHANGED <<payload_hash_by_key, key_by_correlation_id>>
  PROVE  LedgerOf' = LedgerOf
BY DEF LedgerOf, Accepted

LEMMA MemoryRefinesInit == Init => Ledger!Init
BY DEF Init, Ledger!Init, LedgerOf, Accepted, NoAnswer, Ledger!NoAnswer

LEMMA LeaveAnswers ==
  ASSUME MemoryInv, NEW c \in Clients, pc[c] \in Inside, NEW status, NEW record,
         Leave(c, status, record)
  PROVE  call[c] # Null /\ Ledger!Answer(c, status, record)
BY InsideFacts DEF Leave, Ledger!Answer

LEMMA LookUpStep ==
  ASSUME MemoryInv, NEW c \in Clients, LookUp(c)
  PROVE  Ledger!Next \/ UNCHANGED Ledger!vars
<1>1. /\ pc[c] \in Inside /\ Key(c) \in Keys /\ LedgerOf' = LedgerOf
      /\ \A d \in Clients : pc[d] \notin {"hash", "index"}
  BY InsideFacts, LedgerLeftAlone DEF LookUp, Inside, dicts
<1>2. CASE UNCHANGED <<lock, call, answer>>
  BY <1>1, <1>2 DEF Ledger!vars
<1>3. ASSUME records_by_key[Key(c)] # Null
      PROVE  /\ LedgerOf[Key(c)] = payload_hash_by_key[Key(c)] /\ LedgerOf[Key(c)] # Null
             /\ records_by_key[Key(c)] = Receipt(Key(c), LedgerOf[Key(c)])
  <2>1. /\ payload_hash_by_key[Key(c)] \in Bundles
        /\ records_by_key[Key(c)] = Receipt(Key(c), payload_hash_by_key[Key(c)])
        /\ key_by_correlation_id[payload_hash_by_key[Key(c)].correlation_id] = Key(c)
    BY <1>1, <1>3, DictionariesAtRest
  <2>2. Key(c) \in Accepted
    <3>1. payload_hash_by_key[Key(c)].correlation_id \in Correlations /\ Key(c) # Null
      BY <1>1, <2>1, BundleFacts, BundlesAssumption
    <3> QED
      BY <2>1, <3>1 DEF Accepted
  <2> QED
    BY <2>1, <2>2, AcceptedFacts
<1>4. CASE /\ records_by_key[Key(c)] # Null /\ payload_hash_by_key[Key(c)] # Bundle(c)
           /\ Leave(c, "idempotency_key_reused", Null)
  <2>1. Ledger!KeyReused(c) /\ call[c] # Null
    BY <1>1, <1>3, <1>4, LeaveAnswers DEF Ledger!KeyReused, Key, Bundle
  <2> QED
    BY <2>1 DEF Ledger!Next
<1>5. CASE /\ records_by_key[Key(c)] # Null /\ payload_hash_by_key[Key(c)] = Bundle(c)
           /\ Leave(c, "duplicate", records_by_key[Key(c)])
  <2>1. Ledger!Duplicate(c) /\ call[c] # Null
    BY <1>1, <1>3, <1>5, LeaveAnswers
       DEF Ledger!Duplicate, Key, Bundle, Receipt, Ledger!Receipt
  <2> QED
    BY <2>1 DEF Ledger!Next
<1> QED
  BY <1>2, <1>4, <1>5 DEF LookUp

LEMMA CheckCorrelationStep ==
  ASSUME MemoryInv, NEW c \in Clients, CheckCorrelation(c)
  PROVE  Ledger!Next \/ UNCHANGED Ledger!vars
<1> DEFINE existing_key == key_by_correlation_id[Bundle(c).correlation_id]
<1>1. /\ pc[c] \in Inside /\ Key(c) \in Keys /\ Bundle(c).correlation_id \in Correlations
      /\ LedgerOf' = LedgerOf /\ records_by_key[Key(c)] = Null
  BY InsideFacts, BundleFacts, LedgerLeftAlone
     DEF CheckCorrelation, Inside, dicts, MemoryInv, ClientInv
<1>2. CASE UNCHANGED <<lock, call, answer>>
  BY <1>1, <1>2 DEF Ledger!vars
<1>3. CASE existing_key # Null /\ Leave(c, "correlation_id_reused", Null)
  <2>1. existing_key \in Accepted
    BY <1>1, <1>3 DEF Accepted
  <2>2. existing_key \in Ledger!Taken
        /\ LedgerOf[existing_key].correlation_id = Bundle(c).correlation_id
    BY <1>1, <1>3, <2>1, AcceptedFacts DEF MemoryInv, DictionariesInv
  <2>3. LedgerOf[Key(c)] = Null
    BY <1>1, NoRecordNoHash, AcceptedFacts
  <2>4. Ledger!CorrelationReused(c) /\ call[c] # Null
    BY <1>1, <1>3, <2>2, <2>3, LeaveAnswers DEF Ledger!CorrelationReused, Key, Bundle
  <2> QED
    BY <2>4 DEF Ledger!Next
<1> QED
  BY <1>2, <1>3 DEF CheckCorrelation

\* The hash of a key that no correlation names yet is not part of the ledger.
LEMMA SaveHashStep ==
  ASSUME MemoryInv, NEW c \in Clients, SaveHash(c)
  PROVE  UNCHANGED Ledger!vars
<1>1. payload_hash_by_key[Key(c)] = Null /\ Key(c) \in Keys
  BY InsideFacts DEF SaveHash, Inside, MemoryInv, ClientInv
<1>2. Key(c) \notin Accepted
  BY <1>1, UnknownKey DEF Accepted
<1>3. Accepted' = Accepted
  BY DEF SaveHash, Accepted
<1>4. \A key \in Keys \ {Key(c)} : payload_hash_by_key'[key] = payload_hash_by_key[key]
  BY DEF SaveHash, MemoryInv, Types
<1>5. LedgerOf' = LedgerOf
  BY <1>2, <1>3, <1>4 DEF LedgerOf
<1> QED
  BY <1>5 DEF SaveHash, Ledger!vars

LEMMA SaveCorrelationStep ==
  ASSUME MemoryInv, NEW c \in Clients, SaveCorrelation(c)
  PROVE  Ledger!Next
<1> DEFINE id == Bundle(c).correlation_id
<1>1. /\ pc[c] \in Inside /\ Key(c) \in Keys /\ Bundle(c) \in Bundles /\ id \in Correlations
      /\ payload_hash_by_key[Key(c)] = Bundle(c) /\ key_by_correlation_id[id] = Null
      /\ Key(c) # Null
  BY InsideFacts, BundleFacts, BundlesAssumption
     DEF SaveCorrelation, Inside, MemoryInv, ClientInv
<1>2. \A key \in Accepted : LedgerOf[key].correlation_id # id
  <2>1. SUFFICES ASSUME NEW key \in Accepted, LedgerOf[key].correlation_id = id PROVE FALSE
    OBVIOUS
  <2>2. key_by_correlation_id[id] = key /\ key \in Keys
    BY <2>1, AcceptedFacts
  <2>3. Null \notin Keys
    BY BundlesAssumption
  <2> HIDE DEF id
  <2> QED
    BY <1>1, <2>2, <2>3
<1>3. Key(c) \notin Accepted
  BY <1>1, <1>2, AcceptedFacts
<1>4. key_by_correlation_id' = [key_by_correlation_id EXCEPT ![id] = Key(c)]
  BY DEF SaveCorrelation
<1>5. Accepted' = Accepted \cup {Key(c)}
  <2>1. \A i \in Correlations :
          key_by_correlation_id'[i] = IF i = id THEN Key(c) ELSE key_by_correlation_id[i]
    BY <1>4 DEF MemoryInv, Types
  <2> QED
    BY <1>1, <2>1 DEF Accepted
<1>6. LedgerOf' = [LedgerOf EXCEPT ![Key(c)] = Bundle(c)]
  BY <1>1, <1>5 DEF LedgerOf, SaveCorrelation
<1>7. LedgerOf[Key(c)] = Null
  BY <1>1, <1>3, AcceptedFacts
<1>8. call[c] # Null /\ Ledger!Answer(c, "accepted", Receipt(Key(c), Bundle(c)))
  BY <1>1, LeaveAnswers DEF SaveCorrelation
<1>9. Ledger!Accept(c)
  BY <1>2, <1>6, <1>7, <1>8, AcceptedFacts
     DEF Ledger!Accept, NoIdentities, Key, Bundle, Receipt, Ledger!Receipt
<1> QED
  BY <1>8, <1>9 DEF Ledger!Next

LEMMA MemoryRefinesStep ==
  MemoryInv /\ [Next]_vars => [Ledger!Next]_(Ledger!vars)
<1> SUFFICES ASSUME MemoryInv, [Next]_vars PROVE Ledger!Next \/ UNCHANGED Ledger!vars
  OBVIOUS
<1>1. ASSUME NEW c \in Clients, Call(c) PROVE Ledger!Next
  <2>1. LedgerOf' = LedgerOf /\ answer[c].status # "pending"
    BY <1>1, LedgerLeftAlone DEF Call, dicts, MemoryInv, ClientInv
  <2>2. Ledger!Call(c)
    BY <1>1, <2>1 DEF Call, Ledger!Call, Pending, Ledger!Pending
  <2> QED
    BY <2>2 DEF Ledger!Next
<1>2. ASSUME NEW c \in Clients, Enter(c) \/ SaveRecord(c) PROVE UNCHANGED Ledger!vars
  BY <1>2, LedgerLeftAlone DEF Enter, SaveRecord, dicts, Ledger!vars
<1>3. CASE UNCHANGED vars
  BY <1>3, LedgerLeftAlone DEF vars, dicts, Ledger!vars
<1> QED
  BY <1>1, <1>2, <1>3, LookUpStep, CheckCorrelationStep, SaveHashStep, SaveCorrelationStep
     DEF Next

\* InMemoryIngestionStore answers calls that overlap as the same calls one after the other, for
\* any number of threads, keys and bundles: by its ledger as it is at one instant of the call.
THEOREM MemoryIsLedger == MemorySpec => MemoryImplementsLedger
  BY MemoryRefinesInit, MemoryInvHolds, MemoryRefinesStep, PTL
     DEF MemorySpec, MemoryImplementsLedger, Ledger!Spec
=============================================================================
