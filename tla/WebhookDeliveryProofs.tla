------------------------ MODULE WebhookDeliveryProofs ------------------------
(***************************************************************************)
(* Proofs about the recording of webhook deliveries, for any number of     *)
(* threads, keys, requests and status codes.                               *)
(***************************************************************************)
EXTENDS WebhookDelivery, FiniteSetTheorems, TLAPS

-----------------------------------------------------------------------------
(* The inductive invariant *)

Used == {key \in Keys : records_by_key[key] # Null}

Types ==
  /\ records_by_key \in [Keys -> Record \cup {Null}]
  /\ request_hash_by_key \in [Keys -> Requests \cup {Null}]
  /\ lock \in Clients \cup {Null} /\ minted \in DeliveryIds \cup {0}
  /\ pc \in [Clients -> {"done", "enter", "look_up", "compare", "save", "save_hash"}]
  /\ existing_record \in [Clients -> Record \cup {Null}]
  /\ call \in [Clients -> CallType \cup {Null}]
  /\ answer \in [Clients -> [outcome : Outcomes, record : Record \cup {Null}]]

\* The dictionary of hashes lags behind the other by the one key that is being saved, and every
\* id drawn is on one receipt.
DictionariesInv ==
  /\ minted = Cardinality(Used)
  /\ \A key \in Used : records_by_key[key].delivery_id \in 1..minted
  /\ \A k, l \in Used :
       records_by_key[k].delivery_id = records_by_key[l].delivery_id => k = l
  /\ \A key \in Keys : request_hash_by_key[key] # Null => key \in Used
  /\ \A key \in Used : request_hash_by_key[key] = Null =>
       \E c \in Clients : pc[c] = "save_hash" /\ call[c].key = key

\* What the thread of c has seen of its key still holds.
ClientInv(c) ==
  LET record == records_by_key[call[c].key] IN
  /\ pc[c] \notin {"done", "enter"} <=> lock = c
  /\ pc[c] = "done" <=> answer[c].outcome # "pending"
  /\ pc[c] # "done" => call[c] \in CallType
  /\ pc[c] = "compare" => record # Null /\ existing_record[c] = record
  /\ pc[c] = "save" => record = Null
  /\ pc[c] = "save_hash" =>
       /\ record # Null /\ existing_record[c] = record
       /\ record.status = StatusFromCode(call[c].status_code)
       /\ request_hash_by_key[call[c].key] = Null

WebhookInv == Types /\ DictionariesInv /\ \A c \in Clients : ClientInv(c)

-----------------------------------------------------------------------------
(* Facts about the state *)

\* There are as many keys as ids at most, and one id is left while a key is unused.
LEMMA UsedIsFinite ==
  IsFiniteSet(Used) /\ Cardinality(Used) \in Nat /\ Cardinality(Used) <= Cardinality(Keys)
BY FS_Subset, FS_CardinalityType, DeliveryIdsAssumption DEF Used

LEMMA IdsAreLeft ==
  ASSUME minted = Cardinality(Used), NEW key \in Keys, key \notin Used
  PROVE  minted \in Nat /\ minted + 1 \in DeliveryIds
<1>1. IsFiniteSet(Used \cup {key}) /\ Cardinality(Used \cup {key}) = minted + 1
  BY UsedIsFinite, FS_AddElement
<1>2. Used \cup {key} \subseteq Keys
  BY DEF Used
<1>3. minted + 1 <= Cardinality(Keys) /\ Cardinality(Keys) \in Nat
  BY <1>1, <1>2, FS_Subset, FS_CardinalityType, DeliveryIdsAssumption
<1>4. minted \in Nat
  BY UsedIsFinite
<1> QED
  BY <1>3, <1>4, DeliveryIdsAssumption

\* Whoever is inside is alone there.
LEMMA OthersAreOutside ==
  ASSUME WebhookInv, NEW c \in Clients, lock \in {c, Null}, NEW d \in Clients \ {c}
  PROVE  pc[d] \in {"done", "enter"}
BY NullAssumption DEF WebhookInv, Types, ClientInv

\* What a thread outside relies on is its own.
LEMMA OutsideLeftAlone ==
  ASSUME NEW d \in Clients, ClientInv(d), pc[d] \in {"done", "enter"}, lock' # d,
         pc'[d] = pc[d], call'[d] = call[d], answer'[d] = answer[d]
  PROVE  ClientInv(d)'
BY DEF ClientInv

\* Nothing moves for a thread while the dictionaries and the lock stay.
LEMMA ClientLeftAlone ==
  ASSUME NEW d \in Clients, ClientInv(d), UNCHANGED <<store, lock>>,
         pc'[d] = pc[d], call'[d] = call[d], answer'[d] = answer[d],
         existing_record'[d] = existing_record[d]
  PROVE  ClientInv(d)'
BY DEF ClientInv, store

LEMMA DictionariesLeftAlone ==
  ASSUME DictionariesInv, UNCHANGED store, NEW c \in Clients, pc[c] # "save_hash",
         \A d \in Clients \ {c} : pc'[d] = pc[d] /\ call'[d] = call[d]
  PROVE  DictionariesInv'
<1>1. Used' = Used
  BY DEF Used, store
<1>2. ASSUME NEW key \in Used', request_hash_by_key'[key] = Null
      PROVE  \E d \in Clients : pc'[d] = "save_hash" /\ call'[d].key = key
  <2>1. PICK d \in Clients : pc[d] = "save_hash" /\ call[d].key = key
    BY <1>1, <1>2 DEF DictionariesInv, store
  <2> QED
    BY <2>1
<1> QED
  BY <1>1, <1>2 DEF DictionariesInv, store

-----------------------------------------------------------------------------
(* Each action preserves the invariant *)

LEMMA WebhookInitInv == Init => WebhookInv
<1> SUFFICES ASSUME Init PROVE WebhookInv
  OBVIOUS
<1>1. Types
  BY DEF Init, Types, Outcomes
<1>2. Used = {}
  BY DEF Used, Init
<1>3. DictionariesInv
  BY <1>2, FS_EmptySet DEF Init, DictionariesInv
<1>4. \A c \in Clients : ClientInv(c)
  BY NullAssumption DEF Init, ClientInv
<1> QED
  BY <1>1, <1>3, <1>4 DEF WebhookInv

LEMMA CallKeepsInv ==
  ASSUME WebhookInv, NEW c \in Clients, Call(c)
  PROVE  WebhookInv'
<1>1. PICK request \in CallType : call' = [call EXCEPT ![c] = request]
  BY DEF Call
<1>2. Types'
  BY <1>1 DEF WebhookInv, Types, Call, store, Outcomes
<1>3. DictionariesInv'
  BY <1>1, DictionariesLeftAlone DEF WebhookInv, Types, Call
<1>4. ClientInv(c)'
  BY <1>1 DEF WebhookInv, Types, ClientInv, Call, store
<1>5. ASSUME NEW d \in Clients \ {c} PROVE ClientInv(d)'
  BY <1>1, ClientLeftAlone DEF WebhookInv, Types, Call
<1> QED
  BY <1>2, <1>3, <1>4, <1>5 DEF WebhookInv

LEMMA EnterKeepsInv ==
  ASSUME WebhookInv, NEW c \in Clients, Enter(c)
  PROVE  WebhookInv'
<1>1. Types'
  BY DEF WebhookInv, Types, Enter, store
<1>2. DictionariesInv'
  BY DictionariesLeftAlone DEF WebhookInv, Types, Enter
<1>3. ClientInv(c)'
  BY DEF WebhookInv, Types, ClientInv, Enter, store
<1>4. ASSUME NEW d \in Clients \ {c} PROVE ClientInv(d)'
  BY OthersAreOutside, OutsideLeftAlone DEF WebhookInv, Types, Enter, Unlocked
<1> QED
  BY <1>1, <1>2, <1>3, <1>4 DEF WebhookInv

LEMMA LookUpKeepsInv ==
  ASSUME WebhookInv, NEW c \in Clients, LookUp(c)
  PROVE  WebhookInv'
<1>1. lock = c /\ call[c] \in CallType /\ call[c].key \in Keys
  BY DEF WebhookInv, Types, ClientInv, LookUp, CallType
<1>2. Types'
  BY <1>1 DEF WebhookInv, Types, LookUp, store
<1>3. DictionariesInv'
  BY DictionariesLeftAlone DEF WebhookInv, Types, LookUp
<1>4. ClientInv(c)'
  BY <1>1 DEF WebhookInv, Types, ClientInv, LookUp, store
<1>5. ASSUME NEW d \in Clients \ {c} PROVE ClientInv(d)'
  BY <1>1, OthersAreOutside, OutsideLeftAlone DEF WebhookInv, Types, LookUp
<1> QED
  BY <1>2, <1>3, <1>4, <1>5 DEF WebhookInv

\* Leaving the block, with the answer that goes with it.
LEMMA ReplyKeepsClients ==
  ASSUME WebhookInv, NEW c \in Clients, lock = c, pc[c] \notin {"done", "enter"},
         NEW outcome \in Outcomes \ {"pending"}, NEW record, Reply(c, outcome, record)
  PROVE  \A d \in Clients : ClientInv(d)'
<1>1. ClientInv(c)'
  BY NullAssumption DEF WebhookInv, Types, ClientInv, Reply
<1>2. ASSUME NEW d \in Clients \ {c} PROVE ClientInv(d)'
  BY OthersAreOutside, OutsideLeftAlone, NullAssumption DEF WebhookInv, Types, Reply
<1> QED
  BY <1>1, <1>2

LEMMA CompareKeepsInv ==
  ASSUME WebhookInv, NEW c \in Clients, Compare(c)
  PROVE  WebhookInv'
<1>1. lock = c /\ pc[c] = "compare" /\ UNCHANGED store
  BY DEF WebhookInv, Types, ClientInv, Compare
<1>2. PICK outcome \in {"idempotency_key_reused", "duplicate"}, record \in Record \cup {Null} :
        Reply(c, outcome, record)
  BY DEF WebhookInv, Types, Compare
<1>3. Types'
  BY <1>1, <1>2 DEF WebhookInv, Types, Reply, store, Outcomes
<1>4. DictionariesInv'
  BY <1>1, <1>2, DictionariesLeftAlone DEF WebhookInv, Types, Reply
<1>5. \A d \in Clients : ClientInv(d)'
  BY <1>1, <1>2, ReplyKeepsClients DEF Outcomes
<1> QED
  BY <1>3, <1>4, <1>5 DEF WebhookInv

LEMMA SaveKeepsInv ==
  ASSUME WebhookInv, NEW c \in Clients, Save(c)
  PROVE  WebhookInv'
<1> DEFINE key == call[c].key
           record == [delivery_id |-> minted + 1, status |-> StatusFromCode(call[c].status_code)]
<1>1. /\ lock = c /\ call[c] \in CallType /\ key \in Keys /\ records_by_key[key] = Null
      /\ request_hash_by_key[key] = Null
  BY DEF WebhookInv, Types, ClientInv, DictionariesInv, Used, Save, CallType
<1>2. minted \in Nat /\ minted + 1 \in DeliveryIds /\ record \in Record /\ record # Null
  BY <1>1, IdsAreLeft, NullAssumption
     DEF WebhookInv, DictionariesInv, Used, Record, StatusFromCode, WebhookDeliveryStatus
<1>3. /\ records_by_key' = [records_by_key EXCEPT ![key] = record]
      /\ minted' = minted + 1 /\ UNCHANGED <<request_hash_by_key, lock, call, answer>>
      /\ existing_record' = [existing_record EXCEPT ![c] = record]
      /\ pc' = [pc EXCEPT ![c] = "save_hash"]
  BY DEF Save
<1>4. Types'
  BY <1>1, <1>2, <1>3 DEF WebhookInv, Types
<1>5. Used' = Used \cup {key} /\ key \notin Used
  BY <1>1, <1>2, <1>3 DEF WebhookInv, Types, Used
<1>6. DictionariesInv'
  <2>1. minted' = Cardinality(Used')
    BY <1>3, <1>5, UsedIsFinite, FS_AddElement DEF WebhookInv, DictionariesInv
  <2>2. records_by_key'[key].delivery_id = minted + 1
    BY <1>1, <1>3 DEF WebhookInv, Types
  <2>3. ASSUME NEW k \in Used
        PROVE  records_by_key'[k] = records_by_key[k] /\ records_by_key[k].delivery_id \in 1..minted
    BY <1>3, <1>5 DEF WebhookInv, Types, DictionariesInv, Used
  <2>4. \A k \in Used' : records_by_key'[k].delivery_id \in 1..minted'
    BY <1>2, <1>3, <1>5, <2>2, <2>3
  <2>5. \A k, l \in Used' :
          records_by_key'[k].delivery_id = records_by_key'[l].delivery_id => k = l
    BY <1>2, <1>5, <2>2, <2>3 DEF WebhookInv, DictionariesInv
  <2>6. ASSUME NEW k \in Used', request_hash_by_key'[k] = Null
        PROVE  \E d \in Clients : pc'[d] = "save_hash" /\ call'[d].key = k
    <3>1. CASE k = key
      BY <1>3, <3>1 DEF WebhookInv, Types
    <3>2. CASE k # key
      <4>1. PICK d \in Clients : pc[d] = "save_hash" /\ call[d].key = k
        BY <1>3, <1>5, <2>6, <3>2 DEF WebhookInv, DictionariesInv
      <4> QED
        BY <1>3, <4>1 DEF WebhookInv, Types
    <3> QED
      BY <3>1, <3>2
  <2> QED
    BY <1>3, <1>5, <2>1, <2>4, <2>5, <2>6 DEF WebhookInv, DictionariesInv
<1>7. ClientInv(c)'
  <2>1. records_by_key'[key] = record /\ record.status = StatusFromCode(call[c].status_code)
    BY <1>1, <1>3 DEF WebhookInv, Types
  <2> HIDE DEF record
  <2>2. pc'[c] = "save_hash" /\ pc[c] = "save" /\ existing_record'[c] = record /\ call'[c] = call[c]
    BY <1>3 DEF WebhookInv, Types, Save
  <2>3. answer'[c] = answer[c] /\ ClientInv(c)
    BY <1>3 DEF WebhookInv
  <2> QED
    BY <1>1, <1>2, <1>3, <2>1, <2>2, <2>3 DEF ClientInv
<1>8. ASSUME NEW d \in Clients \ {c} PROVE ClientInv(d)'
  BY <1>1, <1>3, OthersAreOutside, OutsideLeftAlone DEF WebhookInv, Types
<1> QED
  BY <1>4, <1>6, <1>7, <1>8 DEF WebhookInv

LEMMA SaveHashKeepsInv ==
  ASSUME WebhookInv, NEW c \in Clients, SaveHash(c)
  PROVE  WebhookInv'
<1> DEFINE key == call[c].key
<1>1. /\ lock = c /\ pc[c] = "save_hash" /\ call[c] \in CallType /\ key \in Keys
      /\ call[c].request \in Requests /\ key \in Used /\ existing_record[c] \in Record \cup {Null}
  BY DEF WebhookInv, Types, ClientInv, Used, SaveHash, CallType
<1>2. /\ request_hash_by_key' = [request_hash_by_key EXCEPT ![key] = call[c].request]
      /\ UNCHANGED <<records_by_key, minted>>
      /\ Reply(c, "recorded", existing_record[c])
  BY DEF SaveHash
<1>3. Types'
  BY <1>1, <1>2 DEF WebhookInv, Types, Reply, Outcomes
<1>4. Used' = Used
  BY <1>2 DEF Used
<1>5. ASSUME NEW k \in Used', request_hash_by_key'[k] = Null
      PROVE  \E d \in Clients : pc'[d] = "save_hash" /\ call'[d].key = k
  <2>1. k # key /\ k \in Used /\ k \in Keys
    BY <1>1, <1>2, <1>4, <1>5, NullAssumption DEF WebhookInv, Types, Used
  <2>2. PICK d \in Clients : pc[d] = "save_hash" /\ call[d].key = k
    BY <1>2, <1>5, <2>1 DEF WebhookInv, Types, DictionariesInv
  <2>3. d # c
    BY <2>1, <2>2
  <2> QED
    BY <1>2, <2>2, <2>3 DEF WebhookInv, Types, Reply
<1>6. DictionariesInv'
  BY <1>1, <1>2, <1>4, <1>5 DEF WebhookInv, Types, DictionariesInv
<1>7. \A d \in Clients : ClientInv(d)'
  BY <1>1, <1>2, ReplyKeepsClients DEF Outcomes
<1> QED
  BY <1>3, <1>6, <1>7 DEF WebhookInv

LEMMA WebhookStutterInv ==
  ASSUME WebhookInv, UNCHANGED vars
  PROVE  WebhookInv'
BY DEF WebhookInv, Types, DictionariesInv, ClientInv, Used, vars, store

LEMMA WebhookInvHolds == WebhookSpec => []WebhookInv
<1>1. WebhookInv /\ [Next]_vars => WebhookInv'
  BY CallKeepsInv, EnterKeepsInv, LookUpKeepsInv, CompareKeepsInv, SaveKeepsInv,
     SaveHashKeepsInv, WebhookStutterInv DEF Next
<1> QED
  BY <1>1, WebhookInitInv, PTL DEF WebhookSpec

\* Threads never share the block of record_webhook_delivery, every variable keeps its type, and
\* outside of the block the two dictionaries have the same keys (webhooks.py:62-86).
THEOREM WebhookTypeCorrect == WebhookSpec => []WebhookTypeOK
<1>1. ASSUME WebhookInv, lock = Null, NEW key \in Keys
      PROVE  records_by_key[key] = Null <=> request_hash_by_key[key] = Null
  <2>1. \A c \in Clients : pc[c] # "save_hash"
    BY <1>1, NullAssumption DEF WebhookInv, ClientInv
  <2> QED
    BY <1>1, <2>1 DEF WebhookInv, DictionariesInv, Used
<1>2. WebhookInv => WebhookTypeOK
  BY <1>1 DEF WebhookInv, Types, ClientInv, WebhookTypeOK
<1> QED
  BY <1>2, WebhookInvHolds, PTL

-----------------------------------------------------------------------------
(* The threads implement receipts recorded in one step *)

\* A receipt is complete with its hash, for its record is written first.
LEMMA ReceiptOf ==
  ASSUME WebhookInv, NEW key \in Keys
  PROVE  /\ request_hash_by_key[key] = Null => Receipts[key] = Null
         /\ request_hash_by_key[key] # Null =>
              /\ key \in Used /\ records_by_key[key] \in Record
              /\ Receipts[key] = [request |-> request_hash_by_key[key],
                                  record |-> records_by_key[key]]
              /\ Receipts[key].request = request_hash_by_key[key]
              /\ Receipts[key].record = records_by_key[key]
              /\ Receipts[key] # Null
BY NullAssumption DEF WebhookInv, Types, DictionariesInv, Used, Receipts

LEMMA KeptIsHashed ==
  ASSUME WebhookInv
  PROVE  Delivery!Kept = {key \in Keys : request_hash_by_key[key] # Null}
BY ReceiptOf DEF Delivery!Kept

LEMMA StatusIsOutcome ==
  ASSUME NEW code \in Codes
  PROVE  StatusFromCode(code) = Delivery!Outcome(code)
BY DeliveryIdsAssumption DEF StatusFromCode, Delivery!Outcome

LEMMA WebhookRefinesInit == Init => Delivery!Init
BY DEF Init, Delivery!Init, Receipts

LEMMA CompareAnswers ==
  ASSUME WebhookInv, NEW c \in Clients, Compare(c)
  PROVE  Delivery!Again(c) \/ Delivery!Conflict(c)
<1> DEFINE key == call[c].key
<1>1. /\ lock = c /\ pc[c] = "compare" /\ call[c] \in CallType /\ key \in Keys
      /\ answer[c].outcome = "pending" /\ key \in Used /\ existing_record[c] = records_by_key[key]
  BY DEF WebhookInv, Types, ClientInv, Used, Compare, CallType
<1>2. request_hash_by_key[key] # Null
  <2>1. SUFFICES ASSUME request_hash_by_key[key] = Null PROVE FALSE
    OBVIOUS
  <2>2. PICK d \in Clients : pc[d] = "save_hash"
    BY <1>1, <2>1 DEF WebhookInv, DictionariesInv
  <2> QED
    BY <1>1, <2>2, OthersAreOutside
<1>3. /\ key \in Delivery!Kept /\ Receipts[key].request = request_hash_by_key[key]
      /\ Receipts[key].record = existing_record[c]
  <2>1. key \in Delivery!Kept
    BY <1>1, <1>2, KeptIsHashed
  <2> QED
    BY <1>1, <1>2, <2>1, ReceiptOf
<1>4. Receipts' = Receipts /\ call' = call
  BY DEF Compare, Reply, store, Receipts
<1>5. CASE request_hash_by_key[key] # call[c].request
  BY <1>1, <1>3, <1>4, <1>5 DEF Compare, Reply, Delivery!Conflict, Delivery!Answer
<1>6. CASE request_hash_by_key[key] = call[c].request
  BY <1>1, <1>3, <1>4, <1>6 DEF Compare, Reply, Delivery!Again, Delivery!Answer
<1> QED
  BY <1>5, <1>6

\* Until the hash is written there is no receipt.
LEMMA SaveIsSilent ==
  ASSUME WebhookInv, NEW c \in Clients, Save(c)
  PROVE  UNCHANGED <<Receipts, call, answer>>
<1>1. request_hash_by_key[call[c].key] = Null
  BY DEF WebhookInv, Types, ClientInv, DictionariesInv, Used, Save, CallType
<1>2. ASSUME NEW key \in Keys, key # call[c].key
      PROVE  records_by_key'[key] = records_by_key[key]
  BY <1>2 DEF WebhookInv, Types, Save
<1>3. Receipts' = Receipts
  BY <1>1, <1>2 DEF Receipts, Save
<1> QED
  BY <1>3 DEF Save

LEMMA SaveHashIsFirst ==
  ASSUME WebhookInv, NEW c \in Clients, SaveHash(c)
  PROVE  Delivery!First(c)
<1> DEFINE key == call[c].key
           record == existing_record[c]
<1>1. /\ pc[c] = "save_hash" /\ call[c] \in CallType /\ key \in Keys
      /\ call[c].request \in Requests /\ call[c].status_code \in Codes
      /\ key \in Used /\ record = records_by_key[key] /\ record \in Record
      /\ record.status = StatusFromCode(call[c].status_code)
      /\ request_hash_by_key[key] = Null /\ answer[c].outcome = "pending"
  BY DEF WebhookInv, Types, ClientInv, Used, SaveHash, CallType
<1>2. /\ request_hash_by_key' = [request_hash_by_key EXCEPT ![key] = call[c].request]
      /\ records_by_key' = records_by_key
      /\ answer' = [answer EXCEPT ![c] = [outcome |-> "recorded", record |-> record]]
      /\ call' = call
  BY DEF SaveHash, Reply
<1>3. key \notin Delivery!Kept
  BY <1>1, KeptIsHashed
<1>4. Receipts' = [Receipts EXCEPT ![key] = [request |-> call[c].request, record |-> record]]
  BY <1>1, <1>2, NullAssumption DEF WebhookInv, Types, Receipts, Used
<1>5. record = [delivery_id |-> record.delivery_id,
                status |-> Delivery!Outcome(call[c].status_code)]
  BY <1>1, StatusIsOutcome DEF Record
<1>6. ASSUME NEW k \in Delivery!Kept PROVE Receipts[k].record.delivery_id # record.delivery_id
  <2>1. k \in Keys /\ request_hash_by_key[k] # Null /\ k # key
    BY <1>3, <1>6, KeptIsHashed
  <2>2. k \in Used /\ Receipts[k].record = records_by_key[k]
    BY <2>1, ReceiptOf
  <2> QED
    BY <1>1, <2>1, <2>2 DEF WebhookInv, DictionariesInv
<1>7. record.delivery_id \in DeliveryIds \ {Receipts[k].record.delivery_id : k \in Delivery!Kept}
  BY <1>1, <1>6 DEF Record
<1>8. Delivery!Answer(c, "recorded", record)
  BY <1>1, <1>2 DEF Delivery!Answer
<1> HIDE DEF record
<1> QED
  BY <1>3, <1>4, <1>5, <1>7, <1>8 DEF Delivery!First

LEMMA WebhookRefinesStep ==
  WebhookInv /\ [Next]_vars => [Delivery!Next]_(Delivery!vars)
<1> SUFFICES ASSUME WebhookInv, [Next]_vars PROVE [Delivery!Next]_(Delivery!vars)
  OBVIOUS
<1>1. ASSUME NEW c \in Clients, Call(c) PROVE Delivery!Call(c)
  BY <1>1 DEF WebhookInv, ClientInv, Call, store, Receipts, CallType,
              Delivery!Call, Delivery!CallType, Delivery!Pending
<1>2. ASSUME NEW c \in Clients, Enter(c) \/ LookUp(c) PROVE UNCHANGED Delivery!vars
  BY <1>2 DEF Enter, LookUp, store, Receipts, Delivery!vars
<1>3. ASSUME NEW c \in Clients, Save(c) PROVE UNCHANGED Delivery!vars
  BY <1>3, SaveIsSilent DEF Delivery!vars
<1>4. ASSUME NEW c \in Clients, Compare(c) \/ SaveHash(c)
      PROVE  call[c] # Null /\ (Delivery!First(c) \/ Delivery!Again(c) \/ Delivery!Conflict(c))
  <2>1. call[c] \in CallType
    BY <1>4 DEF WebhookInv, ClientInv, Compare, SaveHash
  <2> QED
    BY <1>4, <2>1, CompareAnswers, SaveHashIsFirst, NullAssumption
<1>5. CASE UNCHANGED vars
  BY <1>5 DEF vars, store, Receipts, Delivery!vars
<1> QED
  BY <1>1, <1>2, <1>3, <1>4, <1>5 DEF Next, Delivery!Next

\* For any number of overlapping threads: a key gets one receipt with an id of its own, the same
\* request again is answered by that receipt whatever its status code, and every other request
\* under the key is refused.
THEOREM DeliveriesAreReceipts == WebhookSpec => ImplementsDelivery
  BY WebhookRefinesInit, WebhookInvHolds, WebhookRefinesStep, PTL
     DEF WebhookSpec, ImplementsDelivery, Delivery!Spec
=============================================================================
