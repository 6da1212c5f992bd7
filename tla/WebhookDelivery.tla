--------------------------- MODULE WebhookDelivery ---------------------------
(***************************************************************************)
(* record_webhook_delivery behind POST /webhooks/deliveries/preview, run   *)
(* by the threads of one process: one action per access to one of the      *)
(* store's two dictionaries, between which threads may be switched.        *)
(*                                                                         *)
(* A request stands for its canonical JSON and hash.  The receipt keeps    *)
(* what the request does not determine: the delivery id and the status.    *)
(***************************************************************************)
EXTENDS Naturals, FiniteSets

CONSTANTS
  Clients,      \* threads that serve requests
  Keys,         \* idempotency keys
  Requests,
  Codes,        \* status codes of the delivery; the route passes 202
  DeliveryIds,  \* uuid4: numbered in the order they are drawn
  Null

CallType == [key : Keys, request : Requests, status_code : Codes]
WebhookDeliveryStatus == {"delivered", "retry_pending", "failed"}
Record == [delivery_id : DeliveryIds, status : WebhookDeliveryStatus]
Outcomes == {"none", "pending", "recorded", "duplicate", "idempotency_key_reused"}

\* No more ids are drawn than there are keys.
ASSUME DeliveryIdsAssumption ==
  /\ IsFiniteSet(Keys) /\ 1..Cardinality(Keys) \subseteq DeliveryIds
  /\ Codes \subseteq Nat

ASSUME NullAssumption ==
  /\ Null \notin Clients \cup Requests \cup Record \cup CallType
  /\ Null \notin [request : Requests, record : Record]

VARIABLES
  records_by_key,       \* key |-> record or Null
  request_hash_by_key,  \* key |-> request or Null
  lock,                 \* the thread inside, or Null
  minted,               \* delivery ids drawn: uuid4 never repeats
  pc, existing_record, call, answer

store == <<records_by_key, request_hash_by_key, minted>>
vars == <<store, lock, pc, existing_record, call, answer>>

Init ==
  /\ records_by_key = [key \in Keys |-> Null]
  /\ request_hash_by_key = [key \in Keys |-> Null]
  /\ lock = Null /\ minted = 0
  /\ pc = [c \in Clients |-> "done"]
  /\ existing_record = [c \in Clients |-> Null]
  /\ call = [c \in Clients |-> Null]
  /\ answer = [c \in Clients |-> [outcome |-> "none", record |-> Null]]

StatusFromCode(status_code) ==
  IF status_code \in 200..299 THEN "delivered"
  ELSE IF status_code \in {408, 425, 429} \cup 500..599 THEN "retry_pending" ELSE "failed"

-----------------------------------------------------------------------------
(* Operations *)

Call(c) ==
  /\ pc[c] = "done"
  /\ \E request \in CallType : call' = [call EXCEPT ![c] = request]
  /\ pc' = [pc EXCEPT ![c] = "enter"]
  /\ answer' = [answer EXCEPT ![c] = [outcome |-> "pending", record |-> Null]]
  /\ UNCHANGED <<store, lock, existing_record>>

\* Leaves the block by return or raise.
Reply(c, outcome, record) ==
  /\ lock' = Null
  /\ pc' = [pc EXCEPT ![c] = "done"]
  /\ existing_record' = [existing_record EXCEPT ![c] = Null]
  /\ answer' = [answer EXCEPT ![c] = [outcome |-> outcome, record |-> record]]
  /\ call' = call

\* Faulty: nobody waits.
NeverLocked == TRUE

Unlocked == lock = Null

Enter(c) ==
  /\ pc[c] = "enter" /\ Unlocked
  /\ lock' = c
  /\ pc' = [pc EXCEPT ![c] = "look_up"]
  /\ UNCHANGED <<store, existing_record, call, answer>>

LookUp(c) ==
  /\ pc[c] = "look_up"
  /\ existing_record' = [existing_record EXCEPT ![c] = records_by_key[call[c].key]]
  /\ pc' = [pc EXCEPT ![c] = IF records_by_key[call[c].key] # Null THEN "compare" ELSE "save"]
  /\ UNCHANGED <<store, lock, call, answer>>

Compare(c) ==
  /\ pc[c] = "compare"
  /\ IF request_hash_by_key[call[c].key] # call[c].request
     THEN Reply(c, "idempotency_key_reused", Null)
     ELSE Reply(c, "duplicate", existing_record[c])
  /\ UNCHANGED store

\* Faulty: the request is not remembered.
SaveAndReturn(c) ==
  LET record == [delivery_id |-> minted + 1, status |-> StatusFromCode(call[c].status_code)]
  IN  /\ pc[c] = "save"
      /\ records_by_key' = [records_by_key EXCEPT ![call[c].key] = record]
      /\ minted' = minted + 1
      /\ UNCHANGED request_hash_by_key
      /\ Reply(c, "recorded", record)

\* uuid4, store.save: the record is kept as "existing_record" for the return.
Save(c) ==
  LET record == [delivery_id |-> minted + 1, status |-> StatusFromCode(call[c].status_code)]
  IN  /\ pc[c] = "save"
      /\ records_by_key' = [records_by_key EXCEPT ![call[c].key] = record]
      /\ minted' = minted + 1
      /\ existing_record' = [existing_record EXCEPT ![c] = record]
      /\ pc' = [pc EXCEPT ![c] = "save_hash"]
      /\ UNCHANGED <<request_hash_by_key, lock, call, answer>>

SaveHash(c) ==
  /\ pc[c] = "save_hash"
  /\ request_hash_by_key' = [request_hash_by_key EXCEPT ![call[c].key] = call[c].request]
  /\ UNCHANGED <<records_by_key, minted>>
  /\ Reply(c, "recorded", existing_record[c])

Next == \E c \in Clients :
  Call(c) \/ Enter(c) \/ LookUp(c) \/ Compare(c) \/ Save(c) \/ SaveHash(c)

WebhookSpec == Init /\ [][Next]_vars

-----------------------------------------------------------------------------
(* Correctness *)

\* Every variable has its type, one thread is inside the block, and outside of it the two
\* dictionaries have the same keys (webhooks.py:84-85).
WebhookTypeOK ==
  /\ records_by_key \in [Keys -> Record \cup {Null}]
  /\ request_hash_by_key \in [Keys -> Requests \cup {Null}]
  /\ lock \in Clients \cup {Null} /\ minted \in DeliveryIds \cup {0}
  /\ pc \in [Clients -> {"done", "enter", "look_up", "compare", "save", "save_hash"}]
  /\ existing_record \in [Clients -> Record \cup {Null}]
  /\ call \in [Clients -> CallType \cup {Null}]
  /\ answer \in [Clients -> [outcome : Outcomes, record : Record \cup {Null}]]
  /\ \A c \in Clients : pc[c] \notin {"done", "enter"} <=> lock = c
  /\ lock = Null =>
       \A key \in Keys : records_by_key[key] = Null <=> request_hash_by_key[key] = Null

\* A receipt takes effect when both of its parts are written.
Receipts == [key \in Keys |->
  IF records_by_key[key] = Null \/ request_hash_by_key[key] = Null THEN Null
  ELSE [request |-> request_hash_by_key[key], record |-> records_by_key[key]]]
Delivery == INSTANCE DeliveryReceipts WITH receipts <- Receipts

\* However threads overlap, a key gets one receipt, every repetition of its request is answered by
\* that receipt whatever its status code, and every other request is refused (webhooks.py:65).
ImplementsDelivery == Delivery!Spec
=============================================================================
