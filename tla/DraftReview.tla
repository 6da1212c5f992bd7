----------------------------- MODULE DraftReview -----------------------------
(***************************************************************************)
(* What the review of response drafts promises: a draft gets one decision, *)
(* of a named operator or admin, and keeps it; every call to decide takes  *)
(* effect at one instant and is answered by what is decided then.          *)
(***************************************************************************)
CONSTANTS
  Drafts,
  OperatorIds,
  Clients,      \* threads that decide, one call at a time
  Null

Roles == {"viewer", "operator", "admin"}
Decisions == {"approved", "rejected"}

\* OperatorClaims, of a verified token, and what a client asks for
Claims == [operator_id : OperatorIds, role : Roles]
CallType == [draft_id : Drafts, decision : Decisions, operator : Claims]

\* The answers by their problem codes
Statuses ==
  {"none", "pending", "decided", "insufficient_role", "draft_not_found",
   "draft_already_decided", "storage_unavailable"}
Undecided == [decision |-> Null, operator |-> Null]

VARIABLES
  review,   \* draft |-> Null (there is none), Undecided or its [decision, operator]
  call,     \* client |-> its last call, Null before the first
  answer    \* client |-> the answer to it

vars == <<review, call, answer>>

Verdict(c) == [decision |-> call[c].decision, operator |-> call[c].operator]

Init ==
  /\ review = [d \in Drafts |-> Null]
  /\ call = [c \in Clients |-> Null]
  /\ answer = [c \in Clients |-> "none"]

Create(d) ==
  /\ review[d] = Null
  /\ review' = [review EXCEPT ![d] = Undecided]
  /\ UNCHANGED <<call, answer>>

Call(c) ==
  /\ answer[c] # "pending"
  /\ \E request \in CallType : call' = [call EXCEPT ![c] = request]
  /\ answer' = [answer EXCEPT ![c] = "pending"]
  /\ review' = review

Answer(c, status) ==
  /\ answer[c] = "pending"
  /\ answer' = [answer EXCEPT ![c] = status]
  /\ call' = call

\* The decision is recorded; the answer may be lost on its way.
Decide(c) ==
  /\ call[c].operator.role \in {"operator", "admin"}
  /\ review[call[c].draft_id] = Undecided
  /\ review' = [review EXCEPT ![call[c].draft_id] = Verdict(c)]
  /\ Answer(c, "decided") \/ Answer(c, "storage_unavailable")

Refuse(c) ==
  /\ \/ call[c].operator.role = "viewer" /\ Answer(c, "insufficient_role")
     \/ /\ call[c].operator.role # "viewer"
        /\ \/ review[call[c].draft_id] = Null /\ Answer(c, "draft_not_found")
           \/ /\ review[call[c].draft_id] \notin {Null, Undecided}
              /\ Answer(c, "draft_already_decided")
           \/ Answer(c, "storage_unavailable")
  /\ review' = review

Next ==
  \/ \E d \in Drafts : Create(d)
  \/ \E c \in Clients : Call(c) \/ (call[c] # Null /\ (Decide(c) \/ Refuse(c)))

Spec == Init /\ [][Next]_vars
=============================================================================
