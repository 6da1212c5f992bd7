--------------------------- MODULE DeliveryReceipts ---------------------------
(***************************************************************************)
(* What recording webhook deliveries promises: the first delivery under a  *)
(* key fixes its receipt, the same request again is told so with that      *)
(* receipt, and another request under the key is refused.  A later status  *)
(* code changes nothing.                                                   *)
(***************************************************************************)
EXTENDS Naturals

CONSTANTS Clients, Keys, Requests, Codes, DeliveryIds, Null

CallType == [key : Keys, request : Requests, status_code : Codes]
Pending == [outcome |-> "pending", record |-> Null]

VARIABLES
  receipts,  \* key |-> Null or its [request, record]
  call,      \* client |-> its last call, Null before the first
  answer     \* client |-> the answer to it

vars == <<receipts, call, answer>>

Init ==
  /\ receipts = [key \in Keys |-> Null]
  /\ call = [c \in Clients |-> Null]
  /\ answer = [c \in Clients |-> [outcome |-> "none", record |-> Null]]

Kept == {key \in Keys : receipts[key] # Null}
Outcome(code) ==
  CASE code \in 200..299 -> "delivered"
    [] code \in {408, 425, 429} \cup 500..599 -> "retry_pending"
    [] OTHER -> "failed"

Call(c) ==
  /\ answer[c].outcome # "pending"
  /\ \E request \in CallType : call' = [call EXCEPT ![c] = request]
  /\ answer' = [answer EXCEPT ![c] = Pending]
  /\ receipts' = receipts

Answer(c, outcome, record) ==
  /\ answer[c].outcome = "pending"
  /\ answer' = [answer EXCEPT ![c] = [outcome |-> outcome, record |-> record]]
  /\ call' = call

First(c) ==
  /\ call[c].key \notin Kept
  /\ \E id \in DeliveryIds \ {receipts[key].record.delivery_id : key \in Kept} :
       LET record == [delivery_id |-> id, status |-> Outcome(call[c].status_code)]
       IN  /\ receipts' = [receipts EXCEPT ![call[c].key] =
                             [request |-> call[c].request, record |-> record]]
           /\ Answer(c, "recorded", record)

Again(c) ==
  /\ call[c].key \in Kept
  /\ receipts[call[c].key].request = call[c].request
  /\ Answer(c, "duplicate", receipts[call[c].key].record)
  /\ receipts' = receipts

Conflict(c) ==
  /\ call[c].key \in Kept
  /\ receipts[call[c].key].request # call[c].request
  /\ Answer(c, "idempotency_key_reused", Null)
  /\ receipts' = receipts

Next == \E c \in Clients : Call(c) \/ (call[c] # Null /\ (First(c) \/ Again(c) \/ Conflict(c)))

Spec == Init /\ [][Next]_vars
=============================================================================
