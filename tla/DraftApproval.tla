---------------------------- MODULE DraftApproval ----------------------------
(***************************************************************************)
(* PostgresApprovalRepository behind the routes that create, read and      *)
(* decide response drafts.  decide is one action per statement of its      *)
(* transaction, run by any number of API threads and processes at once:    *)
(* a row lock and a unique decision row each keep the second decision out. *)
(*                                                                         *)
(* The content of a draft, its author and the reasons given are left out:  *)
(* nothing is decided by them.                                             *)
(***************************************************************************)
EXTENDS Naturals

CONSTANTS
  Drafts,
  OperatorIds,
  Clients,      \* threads that decide, one call at a time
  Null

Roles == {"viewer", "operator", "admin"}
Decisions == {"approved", "rejected"}
DraftStatus == {"pending_review"} \cup Decisions

\* OperatorClaims and the requests to POST /drafts/{id}/approve and /reject
Claims == [operator_id : OperatorIds, role : Roles]
CallType == [draft_id : Drafts, decision : Decisions, operator : Claims]

\* "locked_by" is the client whose transaction holds the row, "update" the status it has
\* written and not committed; "tx" is the client whose open transaction wrote the row.
DraftRow ==
  [status : DraftStatus, locked_by : Clients \cup {Null}, update : Decisions \cup {Null}]
DecisionRow ==
  [decision : Decisions, operator_id : OperatorIds, operator_role : Roles,
   tx : Clients \cup {Null}]
DraftRecord == [draft_id : Drafts, status : DraftStatus, decision : Decisions \cup {Null}]

ASSUME NullAssumption ==
  /\ Null \notin Clients /\ Null \notin Decisions
  /\ Null \notin CallType /\ Null \notin DraftRow /\ Null \notin DecisionRow
  /\ Null \notin DraftRecord
  /\ Null \notin [decision : Decisions \cup {Null}, operator : Claims \cup {Null}]

VARIABLES
  response_drafts,     \* draft |-> its row, or Null
  approval_decisions,  \* draft |-> its row, or Null
  pc,                  \* client |-> the statement it is at
  call,                \* client |-> its last call, Null before the first
  answer,              \* client |-> the answer to it
  view                 \* the last record get_draft returned to anybody

tables == <<response_drafts, approval_decisions>>
vars == <<tables, pc, call, answer, view>>

InTransaction == {"select", "insert", "update", "commit"}
Holding == {"insert", "update", "commit"}
Answers ==
  {"none", "pending", "decided", "insufficient_role", "draft_not_found",
   "draft_already_decided", "storage_unavailable"}

Init ==
  /\ response_drafts = [d \in Drafts |-> Null]
  /\ approval_decisions = [d \in Drafts |-> Null]
  /\ pc = [c \in Clients |-> "done"]
  /\ call = [c \in Clients |-> Null]
  /\ answer = [c \in Clients |-> "none"]
  /\ view = Null

-----------------------------------------------------------------------------
(* Ends of a call *)

Reply(c, status) ==
  /\ pc' = [pc EXCEPT ![c] = "done"]
  /\ answer' = [answer EXCEPT ![c] = status]
  /\ UNCHANGED <<call, view>>

Unlocked(row) == [row EXCEPT !.locked_by = Null, !.update = Null]

Released(c) ==
  [d \in Drafts |->
     IF response_drafts[d] # Null /\ response_drafts[d].locked_by = c
     THEN Unlocked(response_drafts[d]) ELSE response_drafts[d]]

\* Faulty: the lock outlives a refused call.
RollbackKeepsLock(c, status) == UNCHANGED tables /\ Reply(c, status)

\* engine.begin(): an exception rolls back, and decides the answer.
Rollback(c, status) ==
  /\ response_drafts' = Released(c)
  /\ approval_decisions' =
       [d \in Drafts |->
          IF approval_decisions[d] # Null /\ approval_decisions[d].tx = c
          THEN Null ELSE approval_decisions[d]]
  /\ Reply(c, status)

-----------------------------------------------------------------------------
(* Operations *)

\* create_draft, one INSERT.
CreateDraft(d) ==
  /\ response_drafts[d] = Null
  /\ response_drafts' = [response_drafts EXCEPT ![d] =
       [status |-> "pending_review", locked_by |-> Null, update |-> Null]]
  /\ UNCHANGED <<approval_decisions, pc, call, answer, view>>

Committed(d) == approval_decisions[d] # Null /\ approval_decisions[d].tx = Null

\* Faulty: the status is read by a statement of its own, before the decision.
GetDraftInTwo(d) ==
  /\ response_drafts[d] # Null
  /\ \E status \in {"pending_review", response_drafts[d].status} :
       view' = [draft_id |-> d, status |-> status,
                decision |-> IF Committed(d) THEN approval_decisions[d].decision ELSE Null]
  /\ UNCHANGED <<tables, pc, call, answer>>

\* get_draft: draft and decision in one SELECT, from one snapshot of what is committed.
GetDraft(d) ==
  /\ response_drafts[d] # Null
  /\ view' = [draft_id |-> d, status |-> response_drafts[d].status,
              decision |-> IF Committed(d) THEN approval_decisions[d].decision ELSE Null]
  /\ UNCHANGED <<tables, pc, call, answer>>

Call(c) ==
  /\ pc[c] = "done"
  /\ \E request \in CallType : call' = [call EXCEPT ![c] = request]
  /\ pc' = [pc EXCEPT ![c] = "authorize"]
  /\ answer' = [answer EXCEPT ![c] = "pending"]
  /\ UNCHANGED <<tables, view>>

\* Faulty: whoever has a valid token may decide.
AuthorizeAnyone(operator, minimum_role) == TRUE

RoleLevel == [viewer |-> 1, operator |-> 2, admin |-> 3]
Authorize(operator, minimum_role) == RoleLevel[operator.role] >= RoleLevel[minimum_role]

\* Checked by the route and again by the service, on the same claims.
RequireRole(c) ==
  /\ pc[c] = "authorize"
  /\ \/ /\ Authorize(call[c].operator, "operator")
        /\ pc' = [pc EXCEPT ![c] = "select"]
        /\ UNCHANGED <<call, answer, view>>
     \/ ~ Authorize(call[c].operator, "operator") /\ Reply(c, "insufficient_role")
  /\ UNCHANGED tables

\* SELECT ... FOR UPDATE waits while another transaction holds the row, and then sees what
\* that one committed.
SelectDraft(c) ==
  LET d == call[c].draft_id
      current == response_drafts[d]
  IN  /\ pc[c] = "select"
      /\ \/ current = Null /\ Rollback(c, "draft_not_found")
         \/ /\ current # Null
            /\ current.locked_by = Null
            /\ current.status # "pending_review"
            /\ Rollback(c, "draft_already_decided")
         \/ /\ current # Null
            /\ current.locked_by = Null
            /\ current.status = "pending_review"
            /\ response_drafts' = [response_drafts EXCEPT ![d].locked_by = c]
            /\ pc' = [pc EXCEPT ![c] = "insert"]
            /\ UNCHANGED <<approval_decisions, call, answer, view>>

\* Faulty: the decision is committed by a transaction of its own.
InsertDecisionAlone(c) ==
  /\ pc[c] = "insert"
  /\ approval_decisions[call[c].draft_id] = Null
  /\ approval_decisions' = [approval_decisions EXCEPT ![call[c].draft_id] =
       [decision |-> call[c].decision, operator_id |-> call[c].operator.operator_id,
        operator_role |-> call[c].operator.role, tx |-> Null]]
  /\ pc' = [pc EXCEPT ![c] = "update"]
  /\ UNCHANGED <<response_drafts, call, answer, view>>

\* uq_approval_decisions_draft_id waits for an open row and refuses (IntegrityError) beside a
\* committed one; ck_approval_decisions_operator_role refuses a viewer.
InsertDecision(c) ==
  LET d == call[c].draft_id
      operator == call[c].operator
  IN  /\ pc[c] = "insert"
      /\ \/ /\ approval_decisions[d] = Null /\ operator.role # "viewer"
            /\ approval_decisions' = [approval_decisions EXCEPT ![d] =
                 [decision |-> call[c].decision, operator_id |-> operator.operator_id,
                  operator_role |-> operator.role, tx |-> c]]
            /\ pc' = [pc EXCEPT ![c] = "update"]
            /\ UNCHANGED <<response_drafts, call, answer, view>>
         \/ /\ Committed(d) \/ operator.role = "viewer"
            /\ Rollback(c, "draft_already_decided")

UpdateStatus(c) ==
  /\ pc[c] = "update"
  /\ response_drafts' = [response_drafts EXCEPT ![call[c].draft_id].update = call[c].decision]
  /\ pc' = [pc EXCEPT ![c] = "commit"]
  /\ UNCHANGED <<approval_decisions, call, answer, view>>

\* The commit is acknowledged, or its acknowledgement (or the response) is lost.
Commit(c) ==
  /\ pc[c] = "commit"
  /\ response_drafts' =
       [d \in Drafts |->
          IF response_drafts[d] # Null /\ response_drafts[d].locked_by = c
          THEN [Unlocked(response_drafts[d]) EXCEPT !.status = response_drafts[d].update]
          ELSE response_drafts[d]]
  /\ approval_decisions' =
       [d \in Drafts |->
          IF approval_decisions[d] # Null /\ approval_decisions[d].tx = c
          THEN [approval_decisions[d] EXCEPT !.tx = Null] ELSE approval_decisions[d]]
  /\ Reply(c, "decided") \/ Reply(c, "storage_unavailable")

\* The connection or the process is lost at any statement; PostgreSQL rolls back.
LoseConnection(c) ==
  /\ pc[c] \in InTransaction
  /\ Rollback(c, "storage_unavailable")

-----------------------------------------------------------------------------
(* Specification *)

Step(c) ==
  \/ RequireRole(c)
  \/ SelectDraft(c)
  \/ InsertDecision(c)
  \/ UpdateStatus(c)
  \/ Commit(c)

Next ==
  \/ \E d \in Drafts : CreateDraft(d) \/ GetDraft(d)
  \/ \E c \in Clients : Call(c) \/ Step(c) \/ LoseConnection(c)

\* Statements return, and a transaction that waits for a row is not passed over for ever.
Fairness == \A c \in Clients : SF_vars(Step(c))

DraftSpec == Init /\ [][Next]_vars /\ Fairness

-----------------------------------------------------------------------------
(* Correctness *)

\* Every variable has its type, and a draft's row is locked by the transaction that has
\* found it pending, until that transaction ends (postgres_approvals.py:91).
DraftTypeOK ==
  /\ response_drafts \in [Drafts -> DraftRow \cup {Null}]
  /\ approval_decisions \in [Drafts -> DecisionRow \cup {Null}]
  /\ pc \in [Clients -> InTransaction \cup {"authorize", "done"}]
  /\ call \in [Clients -> CallType \cup {Null}]
  /\ answer \in [Clients -> Answers]
  /\ view \in DraftRecord \cup {Null}
  /\ \A c \in Clients :
       /\ pc[c] # "done" => call[c] # Null
       /\ pc[c] # "done" <=> answer[c] = "pending"
       /\ pc[c] \in Holding =>
            /\ response_drafts[call[c].draft_id] # Null
            /\ response_drafts[call[c].draft_id].locked_by = c

\* A draft is approved or rejected exactly when its decision row says so, and the row names
\* somebody who may decide, at every moment and whatever crashes: two tables written by two
\* statements (postgres_approvals.py:99-117).
StatusMatchesDecision ==
  \A d \in Drafts :
    /\ Committed(d) =>
         /\ response_drafts[d] # Null
         /\ response_drafts[d].status = approval_decisions[d].decision
         /\ approval_decisions[d].operator_role \in {"operator", "admin"}
    /\ response_drafts[d] # Null /\ response_drafts[d].status # "pending_review" => Committed(d)

\* A decision, once committed, is never changed, replaced or withdrawn by a later, refused or
\* failing call: approval_decisions is append-only.
DecisionIsFinal ==
  [][\A d \in Drafts :
       Committed(d) => approval_decisions'[d] = approval_decisions[d]]_vars

\* get_draft never shows a decided draft without its decision, or the reverse, however the read
\* falls between the statements of a decision (postgres_approvals.py:50-66).
ReadsAgree ==
  view # Null =>
    IF view.status = "pending_review" THEN view.decision = Null
    ELSE view.decision = view.status

ReviewOf(d) ==
  IF response_drafts[d] = Null THEN Null
  ELSE IF ~ Committed(d) THEN [decision |-> Null, operator |-> Null]
  ELSE [decision |-> approval_decisions[d].decision,
        operator |-> [operator_id |-> approval_decisions[d].operator_id,
                      role |-> approval_decisions[d].operator_role]]
Reviews == [d \in Drafts |-> ReviewOf(d)]
Review == INSTANCE DraftReview WITH review <- Reviews

\* Of the calls for one draft at most one is told "decided", its decision stands, everybody else
\* is refused for a decision that is already there, and a viewer never decides.
ImplementsReview == Review!Spec

\* Every call to decide is answered, also when it waits for another one's row lock.
DecisionsAnswered == \A c \in Clients : pc[c] = "authorize" ~> pc[c] = "done"
=============================================================================
