-------------------------- MODULE IngestionLedger --------------------------
(***************************************************************************)
(* What POST /events promises, whatever stores the bundles: every call     *)
(* takes effect at one instant between its start and its answer, and is    *)
(* answered by what the ledger of accepted bundles says at that instant.   *)
(***************************************************************************)
EXTENDS EventBundles

CONSTANTS
  Clients,
  Identities(_)   \* bundle |-> identities no two accepted bundles may share

VARIABLES
  ledger,   \* key |-> the bundle accepted under it, or Null
  call,     \* client |-> [key, bundle] of its last call, Null before the first
  answer    \* client |-> [status, record] of its last call

vars == <<ledger, call, answer>>

TypeOK ==
  /\ ledger \in [Keys -> Bundles \cup {Null}]
  /\ call \in [Clients -> [key : Keys, bundle : Bundles] \cup {Null}]
  /\ answer \in [Clients -> Answers]

Init ==
  /\ ledger = [key \in Keys |-> Null]
  /\ call = [c \in Clients |-> Null]
  /\ answer = [c \in Clients |-> NoAnswer]

Taken == {key \in Keys : ledger[key] # Null}

Answer(c, status, record) ==
  /\ answer[c].status = "pending"
  /\ answer' = [answer EXCEPT ![c] = [status |-> status, record |-> record]]
  /\ call' = call

Call(c) ==
  /\ answer[c].status # "pending"
  /\ \E key \in Keys, b \in Bundles : call' = [call EXCEPT ![c] = [key |-> key, bundle |-> b]]
  /\ answer' = [answer EXCEPT ![c] = Pending]
  /\ ledger' = ledger

\* The bundle is accepted; the answer may be lost on its way.
Accept(c) ==
  LET key == call[c].key  b == call[c].bundle
  IN  /\ ledger[key] = Null
      /\ \A other \in Taken :
           /\ ledger[other].correlation_id # b.correlation_id
           /\ Identities(ledger[other]) \cap Identities(b) = {}
      /\ ledger' = [ledger EXCEPT ![key] = b]
      /\ \/ Answer(c, "accepted", Receipt(key, b))
         \/ Answer(c, "storage_unavailable", Null)

Duplicate(c) ==
  /\ ledger[call[c].key] = call[c].bundle
  /\ Answer(c, "duplicate", Receipt(call[c].key, call[c].bundle))
  /\ ledger' = ledger

KeyReused(c) ==
  /\ ledger[call[c].key] \notin {Null, call[c].bundle}
  /\ Answer(c, "idempotency_key_reused", Null)
  /\ ledger' = ledger

CorrelationReused(c) ==
  /\ ledger[call[c].key] = Null
  /\ \E other \in Taken : ledger[other].correlation_id = call[c].bundle.correlation_id
  /\ Answer(c, "correlation_id_reused", Null)
  /\ ledger' = ledger

IdentityReused(c) ==
  /\ ledger[call[c].key] = Null
  /\ \A other \in Taken : ledger[other].correlation_id # call[c].bundle.correlation_id
  /\ \E other \in Taken : Identities(ledger[other]) \cap Identities(call[c].bundle) # {}
  /\ Answer(c, "storage_identity_reused", Null)
  /\ ledger' = ledger

Unavailable(c) ==
  /\ Answer(c, "storage_unavailable", Null)
  /\ ledger' = ledger

Next ==
  \E c \in Clients :
    \/ Call(c)
    \/ call[c] # Null /\ (\/ Accept(c)
                          \/ Duplicate(c)
                          \/ KeyReused(c)
                          \/ CorrelationReused(c)
                          \/ IdentityReused(c)
                          \/ Unavailable(c))

Spec == Init /\ [][Next]_vars
=============================================================================
