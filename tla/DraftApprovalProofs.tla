------------------------- MODULE DraftApprovalProofs -------------------------
(***************************************************************************)
(* DraftApproval for any number of drafts, people and clients.  The        *)
(* argument: a transaction holds its draft's row from the statement that   *)
(* found it pending to its end, so that nobody else writes either row      *)
(* meanwhile, and what it has written is a function of its statement.      *)
(***************************************************************************)
EXTENDS DraftApproval, TLAPS

Held(d, c) == response_drafts[d] # Null /\ response_drafts[d].locked_by = c
Wrote(d, c) == approval_decisions[d] # Null /\ approval_decisions[d].tx = c

Permitted == {"operator", "admin"}

\* What the transaction of c has done to the rows of d.
Owns(d, c) ==
  /\ Held(d, c) <=> pc[c] \in Holding /\ call[c].draft_id = d
  /\ Wrote(d, c) <=> pc[c] \in {"update", "commit"} /\ call[c].draft_id = d
  /\ Held(d, c) => response_drafts[d].status = "pending_review"
  /\ Held(d, c) /\ pc[c] = "commit" => response_drafts[d].update = call[c].decision
  /\ Wrote(d, c) =>
       /\ approval_decisions[d].decision = call[c].decision
       /\ approval_decisions[d].operator_id = call[c].operator.operator_id
       /\ approval_decisions[d].operator_role = call[c].operator.role

AllOwn == \A d \in Drafts, c \in Clients : Owns(d, c)

Authorized == \A c \in Clients : pc[c] \in InTransaction => call[c].operator.role \in Permitted

IInv == DraftTypeOK /\ AllOwn /\ Authorized /\ StatusMatchesDecision /\ ReadsAgree

-----------------------------------------------------------------------------
(* Types *)

LEMMA RowFacts ==
  /\ \A row \in DraftRow : /\ Unlocked(row) \in DraftRow
                           /\ Unlocked(row) # Null
                           /\ Unlocked(row).locked_by = Null
                           /\ Unlocked(row).status = row.status
  /\ \A row \in DraftRow, v \in Decisions :
       /\ [Unlocked(row) EXCEPT !.status = v] \in DraftRow
       /\ [Unlocked(row) EXCEPT !.status = v] # Null
       /\ [Unlocked(row) EXCEPT !.status = v].status = v
       /\ [Unlocked(row) EXCEPT !.status = v].locked_by = Null
  /\ \A row \in DecisionRow :
       /\ [row EXCEPT !.tx = Null] \in DecisionRow
       /\ [row EXCEPT !.tx = Null] # Null
       /\ [row EXCEPT !.tx = Null].tx = Null
       /\ [row EXCEPT !.tx = Null].decision = row.decision
       /\ [row EXCEPT !.tx = Null].operator_id = row.operator_id
       /\ [row EXCEPT !.tx = Null].operator_role = row.operator_role
<1>1. ASSUME NEW row \in DraftRow
      PROVE  /\ Unlocked(row) \in DraftRow
             /\ Unlocked(row).locked_by = Null
             /\ Unlocked(row).status = row.status
  BY DEF Unlocked, DraftRow
<1>2. ASSUME NEW row \in DraftRow, NEW v \in Decisions
      PROVE  /\ [Unlocked(row) EXCEPT !.status = v] \in DraftRow
             /\ [Unlocked(row) EXCEPT !.status = v].status = v
             /\ [Unlocked(row) EXCEPT !.status = v].locked_by = Null
  BY DEF Unlocked, DraftRow, DraftStatus
<1>3. ASSUME NEW row \in DecisionRow
      PROVE  /\ [row EXCEPT !.tx = Null] \in DecisionRow
             /\ [row EXCEPT !.tx = Null].tx = Null
             /\ [row EXCEPT !.tx = Null].decision = row.decision
             /\ [row EXCEPT !.tx = Null].operator_id = row.operator_id
             /\ [row EXCEPT !.tx = Null].operator_role = row.operator_role
  BY DEF DecisionRow
<1> QED
  BY <1>1, <1>2, <1>3, NullAssumption

LEMMA CallFacts ==
  ASSUME DraftTypeOK, NEW c \in Clients, pc[c] # "done"
  PROVE  /\ call[c] \in CallType
         /\ call[c].draft_id \in Drafts
         /\ call[c].decision \in Decisions
         /\ call[c].operator \in Claims
         /\ call[c].operator.role \in Roles
         /\ call[c].operator.operator_id \in OperatorIds
BY DEF DraftTypeOK, CallType, Claims

LEMMA ReplyType ==
  ASSUME DraftTypeOK, NEW c \in Clients, NEW status \in Answers \ {"pending"},
         Reply(c, status)
  PROVE  /\ pc' \in [Clients -> InTransaction \cup {"authorize", "done"}]
         /\ call' = call /\ view' = view
         /\ answer' \in [Clients -> Answers]
         /\ pc'[c] = "done" /\ answer'[c] # "pending"
         /\ \A k \in Clients \ {c} : pc'[k] = pc[k] /\ answer'[k] = answer[k]
BY DEF DraftTypeOK, Reply

\* What a rollback does to the two tables.
LEMMA RollbackEffect ==
  ASSUME DraftTypeOK, NEW c \in Clients, NEW status, Rollback(c, status)
  PROVE  /\ response_drafts' \in [Drafts -> DraftRow \cup {Null}]
         /\ approval_decisions' \in [Drafts -> DecisionRow \cup {Null}]
         /\ \A d \in Drafts :
              /\ response_drafts'[d] =
                   IF Held(d, c) THEN Unlocked(response_drafts[d]) ELSE response_drafts[d]
              /\ approval_decisions'[d] = IF Wrote(d, c) THEN Null ELSE approval_decisions[d]
<1>1. \A d \in Drafts :
        /\ response_drafts'[d] =
             IF Held(d, c) THEN Unlocked(response_drafts[d]) ELSE response_drafts[d]
        /\ approval_decisions'[d] = IF Wrote(d, c) THEN Null ELSE approval_decisions[d]
  BY DEF Rollback, Released, Held, Wrote
<1>2. \A d \in Drafts : response_drafts'[d] \in DraftRow \cup {Null}
  <2> TAKE d \in Drafts
  <2>1. response_drafts[d] \in DraftRow \cup {Null}
    BY DEF DraftTypeOK
  <2> QED
    BY <1>1, <2>1, RowFacts DEF Held
<1>3. \A d \in Drafts : approval_decisions'[d] \in DecisionRow \cup {Null}
  BY <1>1 DEF DraftTypeOK
<1>4. response_drafts' = [d \in Drafts |-> response_drafts'[d]]
  BY DEF Rollback, Released
<1>5. approval_decisions' = [d \in Drafts |-> approval_decisions'[d]]
  BY DEF Rollback
<1> QED
  BY <1>1, <1>2, <1>3, <1>4, <1>5

\* What a commit does to the two tables.
LEMMA CommitEffect ==
  ASSUME IInv, NEW c \in Clients, Commit(c)
  PROVE  /\ response_drafts' \in [Drafts -> DraftRow \cup {Null}]
         /\ approval_decisions' \in [Drafts -> DecisionRow \cup {Null}]
         /\ \A d \in Drafts :
              /\ Held(d, c) =>
                   /\ response_drafts'[d] # Null
                   /\ response_drafts'[d].status = call[c].decision
                   /\ response_drafts'[d].locked_by = Null
              /\ ~ Held(d, c) => response_drafts'[d] = response_drafts[d]
              /\ Wrote(d, c) =>
                   /\ approval_decisions'[d] # Null
                   /\ approval_decisions'[d].tx = Null
                   /\ approval_decisions'[d].decision = approval_decisions[d].decision
                   /\ approval_decisions'[d].operator_id = approval_decisions[d].operator_id
                   /\ approval_decisions'[d].operator_role = approval_decisions[d].operator_role
              /\ ~ Wrote(d, c) => approval_decisions'[d] = approval_decisions[d]
<1>1. \A d \in Drafts :
        /\ response_drafts'[d] =
             IF Held(d, c)
             THEN [Unlocked(response_drafts[d]) EXCEPT !.status = response_drafts[d].update]
             ELSE response_drafts[d]
        /\ approval_decisions'[d] =
             IF Wrote(d, c) THEN [approval_decisions[d] EXCEPT !.tx = Null]
             ELSE approval_decisions[d]
  BY DEF Commit, Held, Wrote
<1>2. \A d \in Drafts : Held(d, c) => response_drafts[d].update = call[c].decision
  BY DEF Commit, IInv, AllOwn, Owns
<1>3. call[c].decision \in Decisions
  BY CallFacts DEF Commit, IInv
<1>4. \A d \in Drafts : Held(d, c) =>
        /\ response_drafts'[d] \in DraftRow
        /\ response_drafts'[d] # Null
        /\ response_drafts'[d].status = call[c].decision
        /\ response_drafts'[d].locked_by = Null
  <2> TAKE d \in Drafts
  <2> HAVE Held(d, c)
  <2>1. response_drafts[d] \in DraftRow
    BY DEF IInv, DraftTypeOK, Held
  <2>2. response_drafts'[d] = [Unlocked(response_drafts[d]) EXCEPT !.status = call[c].decision]
    BY <1>1, <1>2 DEF Held
  <2> QED
    BY <1>3, <2>1, <2>2, RowFacts
<1>5. \A d \in Drafts : Wrote(d, c) =>
        /\ approval_decisions'[d] \in DecisionRow
        /\ approval_decisions'[d] # Null
        /\ approval_decisions'[d].tx = Null
        /\ approval_decisions'[d].decision = approval_decisions[d].decision
        /\ approval_decisions'[d].operator_id = approval_decisions[d].operator_id
        /\ approval_decisions'[d].operator_role = approval_decisions[d].operator_role
  <2> TAKE d \in Drafts
  <2> HAVE Wrote(d, c)
  <2>1. approval_decisions[d] \in DecisionRow
    BY DEF IInv, DraftTypeOK, Wrote
  <2>2. approval_decisions'[d] = [approval_decisions[d] EXCEPT !.tx = Null]
    BY <1>1 DEF Wrote
  <2> QED
    BY <2>1, <2>2, RowFacts
<1>6. /\ response_drafts' = [d \in Drafts |-> response_drafts'[d]]
      /\ approval_decisions' = [d \in Drafts |-> approval_decisions'[d]]
  BY DEF Commit
<1>7. \A d \in Drafts : /\ ~ Held(d, c) => response_drafts'[d] = response_drafts[d]
                        /\ ~ Wrote(d, c) => approval_decisions'[d] = approval_decisions[d]
  BY <1>1
<1>8. \A d \in Drafts : /\ response_drafts'[d] \in DraftRow \cup {Null}
                        /\ approval_decisions'[d] \in DecisionRow \cup {Null}
  <2> TAKE d \in Drafts
  <2>1. /\ response_drafts[d] \in DraftRow \cup {Null}
        /\ approval_decisions[d] \in DecisionRow \cup {Null}
    BY DEF IInv, DraftTypeOK
  <2>2. response_drafts'[d] \in DraftRow \cup {Null}
    BY <1>4, <1>7, <2>1 DEF Held
  <2>3. approval_decisions'[d] \in DecisionRow \cup {Null}
    BY <1>5, <1>7, <2>1 DEF Wrote
  <2> QED
    BY <2>2, <2>3
<1>9. /\ response_drafts' \in [Drafts -> DraftRow \cup {Null}]
      /\ approval_decisions' \in [Drafts -> DecisionRow \cup {Null}]
  BY <1>6, <1>8
<1> QED
  BY <1>4, <1>5, <1>7, <1>9 DEF Held, Wrote

\* A call that ends without an effect takes back what it has written, and only that.
LEMMA RollbackStep ==
  ASSUME IInv, NEW c \in Clients, NEW status \in Answers \ {"pending"}, Rollback(c, status)
  PROVE  IInv'
<1>r. Reply(c, status)
  BY DEF Rollback
<1>1. DraftTypeOK'
  <2>1. \A k \in Clients \ {c}, d \in Drafts :
          response_drafts[d] # Null /\ response_drafts[d].locked_by = k
            => response_drafts'[d] = response_drafts[d]
    BY RollbackEffect DEF Held, IInv
  <2>2. \A k \in Clients : pc'[k] # "done" => call'[k] # Null
    BY <1>r, ReplyType DEF IInv, DraftTypeOK
  <2>3. \A k \in Clients : pc'[k] # "done" <=> answer'[k] = "pending"
    BY <1>r, ReplyType DEF IInv, DraftTypeOK
  <2>4. \A k \in Clients : pc'[k] \in Holding =>
          /\ response_drafts'[call'[k].draft_id] # Null
          /\ response_drafts'[call'[k].draft_id].locked_by = k
    <3> SUFFICES ASSUME NEW k \in Clients, pc'[k] \in Holding
                 PROVE  /\ response_drafts'[call'[k].draft_id] # Null
                        /\ response_drafts'[call'[k].draft_id].locked_by = k
      OBVIOUS
    <3>1. k # c /\ pc'[k] = pc[k] /\ call' = call
      BY <1>r, ReplyType DEF IInv, Holding
    <3>2. call[k].draft_id \in Drafts
      BY <3>1, CallFacts DEF IInv, Holding
    <3> QED
      BY <2>1, <3>1, <3>2 DEF IInv, DraftTypeOK
  <2> QED
    BY <1>r, <2>2, <2>3, <2>4, ReplyType, RollbackEffect DEF IInv, DraftTypeOK
<1>2. AllOwn'
  <2> SUFFICES ASSUME NEW d \in Drafts, NEW k \in Clients PROVE Owns(d, k)'
    BY DEF AllOwn
  <2>r. response_drafts[d] \in DraftRow \cup {Null}
    BY DEF IInv, DraftTypeOK
  <2>1. Owns(d, k) /\ Owns(d, c)
    BY DEF IInv, AllOwn
  <2>2. CASE k = c
    <3>1. pc'[c] = "done" /\ call' = call
      BY <1>r, ReplyType DEF IInv
    <3>2. ~ Held(d, c)'
      BY <2>r, RollbackEffect, RowFacts, NullAssumption DEF Held, IInv
    <3>3. ~ Wrote(d, c)'
      BY RollbackEffect DEF Wrote, IInv
    <3> QED
      BY <2>2, <3>1, <3>2, <3>3 DEF Owns, Holding
  <2>3. CASE k # c
    <3>1. pc'[k] = pc[k] /\ call' = call
      BY <1>r, <2>3, ReplyType DEF IInv
    <3>2. Held(d, k)' <=> Held(d, k)
      BY <2>r, <2>3, RollbackEffect, RowFacts, NullAssumption DEF Held, IInv
    <3>3. Wrote(d, k)' <=> Wrote(d, k)
      BY <2>3, RollbackEffect DEF Wrote, IInv
    <3>4. Held(d, k) => response_drafts'[d] = response_drafts[d]
      BY <2>3, RollbackEffect DEF Held, IInv
    <3>5. Wrote(d, k) => approval_decisions'[d] = approval_decisions[d]
      BY <2>3, RollbackEffect DEF Wrote, IInv
    <3> QED
      BY <2>1, <3>1, <3>2, <3>3, <3>4, <3>5 DEF Owns
  <2> QED
    BY <2>2, <2>3
<1>3. Authorized'
  BY <1>r, ReplyType DEF IInv, Authorized, InTransaction
<1>4. StatusMatchesDecision'
  <2> SUFFICES ASSUME NEW d \in Drafts
               PROVE  (/\ Committed(d) =>
                            /\ response_drafts[d] # Null
                            /\ response_drafts[d].status = approval_decisions[d].decision
                            /\ approval_decisions[d].operator_role \in {"operator", "admin"}
                       /\ response_drafts[d] # Null /\ response_drafts[d].status # "pending_review"
                            => Committed(d))'
    BY DEF StatusMatchesDecision
  <2>1. Committed(d)' <=> Committed(d)
    BY RollbackEffect, NullAssumption DEF Committed, Wrote, IInv
  <2>2. Committed(d) => approval_decisions'[d] = approval_decisions[d]
    BY RollbackEffect, NullAssumption DEF Committed, Wrote, IInv
  <2>3. /\ response_drafts'[d] # Null <=> response_drafts[d] # Null
        /\ response_drafts[d] # Null => response_drafts'[d].status = response_drafts[d].status
    <3>1. response_drafts[d] \in DraftRow \cup {Null}
      BY DEF IInv, DraftTypeOK
    <3> QED
      BY <3>1, RollbackEffect, RowFacts DEF IInv, Held
  <2> QED
    BY <2>1, <2>2, <2>3 DEF StatusMatchesDecision, IInv
<1>5. ReadsAgree'
  BY <1>r, ReplyType DEF IInv, ReadsAgree
<1> QED
  BY <1>1, <1>2, <1>3, <1>4, <1>5 DEF IInv

\* The commit makes the two rows agree at once.
LEMMA CommitStep == ASSUME IInv, NEW c \in Clients, Commit(c) PROVE IInv'
<1>r. PICK status \in Answers \ {"pending"} : Reply(c, status)
  BY DEF Commit, Answers
<1>t. DraftTypeOK
  BY DEF IInv
<1>m. pc[c] = "commit"
  BY DEF Commit
<1>c. call[c].draft_id \in Drafts /\ call[c].decision \in Decisions /\ "pending_review" \notin Decisions
  BY <1>t, <1>m, CallFacts DEF Decisions
<1>1. DraftTypeOK'
  <2>1. \A k \in Clients \ {c}, d \in Drafts :
          response_drafts[d] # Null /\ response_drafts[d].locked_by = k
            => response_drafts'[d] = response_drafts[d]
    BY CommitEffect DEF Held
  <2>2. \A k \in Clients : pc'[k] # "done" => call'[k] # Null
    BY <1>r, <1>t, ReplyType DEF DraftTypeOK
  <2>3. \A k \in Clients : pc'[k] # "done" <=> answer'[k] = "pending"
    BY <1>r, <1>t, ReplyType DEF DraftTypeOK
  <2>4. \A k \in Clients : pc'[k] \in Holding =>
          /\ response_drafts'[call'[k].draft_id] # Null
          /\ response_drafts'[call'[k].draft_id].locked_by = k
    <3> SUFFICES ASSUME NEW k \in Clients, pc'[k] \in Holding
                 PROVE  /\ response_drafts'[call'[k].draft_id] # Null
                        /\ response_drafts'[call'[k].draft_id].locked_by = k
      OBVIOUS
    <3>1. k # c /\ pc'[k] = pc[k] /\ call' = call
      BY <1>r, <1>t, ReplyType DEF Holding
    <3>2. call[k].draft_id \in Drafts
      BY <1>t, <3>1, CallFacts DEF Holding
    <3> QED
      BY <1>t, <2>1, <3>1, <3>2 DEF DraftTypeOK
  <2> QED
    BY <1>r, <1>t, <2>2, <2>3, <2>4, ReplyType, CommitEffect DEF DraftTypeOK
<1>2. AllOwn'
  <2> SUFFICES ASSUME NEW d \in Drafts, NEW k \in Clients PROVE Owns(d, k)'
    BY DEF AllOwn
  <2>1. Owns(d, k) /\ Owns(d, c)
    BY DEF IInv, AllOwn
  <2>h. Held(d, c) => /\ response_drafts'[d].locked_by = Null
                      /\ response_drafts'[d] # Null
    BY CommitEffect DEF Held
  <2>w. Wrote(d, c) => approval_decisions'[d].tx = Null
    BY CommitEffect DEF Wrote
  <2>2. CASE k = c
    <3>1. pc'[c] = "done" /\ call' = call
      BY <1>r, <1>t, ReplyType
    <3>2. ~ Held(d, c)'
      BY <2>h, CommitEffect, NullAssumption DEF Held
    <3>3. ~ Wrote(d, c)'
      BY <2>w, CommitEffect, NullAssumption DEF Wrote
    <3> QED
      BY <2>2, <3>1, <3>2, <3>3 DEF Owns, Holding
  <2>3. CASE k # c
    <3>1. pc'[k] = pc[k] /\ call' = call
      BY <1>r, <1>t, <2>3, ReplyType
    <3>2. Held(d, k)' <=> Held(d, k)
      BY <2>h, <2>3, CommitEffect, NullAssumption DEF Held
    <3>3. Wrote(d, k)' <=> Wrote(d, k)
      BY <2>w, <2>3, CommitEffect, NullAssumption DEF Wrote
    <3>4. Held(d, k) => response_drafts'[d] = response_drafts[d]
      BY <2>3, CommitEffect DEF Held
    <3>5. Wrote(d, k) => approval_decisions'[d] = approval_decisions[d]
      BY <2>3, CommitEffect DEF Wrote
    <3> QED
      BY <2>1, <3>1, <3>2, <3>3, <3>4, <3>5 DEF Owns
  <2> QED
    BY <2>2, <2>3
<1>3. Authorized'
  BY <1>r, <1>t, ReplyType DEF IInv, Authorized, InTransaction
<1>4. StatusMatchesDecision'
  <2> SUFFICES ASSUME NEW d \in Drafts
               PROVE  (/\ Committed(d) =>
                            /\ response_drafts[d] # Null
                            /\ response_drafts[d].status = approval_decisions[d].decision
                            /\ approval_decisions[d].operator_role \in {"operator", "admin"}
                       /\ response_drafts[d] # Null /\ response_drafts[d].status # "pending_review"
                            => Committed(d))'
    BY DEF StatusMatchesDecision
  <2>1. CASE d = call[c].draft_id
    <3>o. Owns(d, c)
      BY DEF IInv, AllOwn
    <3>1. Held(d, c) /\ Wrote(d, c) /\ Owns(d, c)
      BY <1>m, <2>1, <3>o DEF Owns, Holding
    <3>2. response_drafts'[d] # Null /\ response_drafts'[d].status = call[c].decision
      BY <3>1, CommitEffect DEF Held
    <3>3. /\ approval_decisions'[d] # Null
          /\ approval_decisions'[d].tx = Null
          /\ approval_decisions'[d].decision = approval_decisions[d].decision
          /\ approval_decisions'[d].operator_role = approval_decisions[d].operator_role
      BY <3>1, CommitEffect DEF Wrote
    <3>4. call[c].operator.role \in Permitted
      BY <1>m DEF IInv, Authorized, InTransaction
    <3> QED
      BY <3>1, <3>2, <3>3, <3>4 DEF Owns, Committed, Permitted
  <2>2. CASE d # call[c].draft_id
    <3>1. ~ Held(d, c) /\ ~ Wrote(d, c)
      BY <2>2 DEF IInv, AllOwn, Owns
    <3>2. /\ response_drafts'[d] = response_drafts[d]
          /\ approval_decisions'[d] = approval_decisions[d]
      BY <3>1, CommitEffect DEF Held, Wrote
    <3> QED
      BY <3>2 DEF IInv, StatusMatchesDecision, Committed
  <2> QED
    BY <2>1, <2>2
<1>5. ReadsAgree'
  BY <1>r, <1>t, ReplyType DEF IInv, ReadsAgree
<1> QED
  BY <1>1, <1>2, <1>3, <1>4, <1>5 DEF IInv

\* A refused call leaves the tables alone.
LEMMA ReplyStep ==
  ASSUME IInv, NEW c \in Clients, NEW status \in Answers \ {"pending"}, Reply(c, status),
         UNCHANGED tables, pc[c] = "authorize"
  PROVE  IInv'
<1>t. DraftTypeOK
  BY DEF IInv
<1>1. DraftTypeOK'
  BY <1>t, ReplyType DEF DraftTypeOK, Holding, tables
<1>2. AllOwn'
  BY <1>t, ReplyType DEF IInv, AllOwn, Owns, Held, Wrote, Holding, tables
<1>3. Authorized' /\ StatusMatchesDecision' /\ ReadsAgree'
  BY <1>t, ReplyType DEF IInv, Authorized, InTransaction, StatusMatchesDecision, Committed, ReadsAgree, tables
<1> QED
  BY <1>1, <1>2, <1>3 DEF IInv

LEMMA RequireRoleStep == ASSUME IInv, NEW c \in Clients, RequireRole(c) PROVE IInv'
<1>1. CASE Reply(c, "insufficient_role")
  BY <1>1, ReplyStep DEF RequireRole, Answers
<1>2. CASE /\ Authorize(call[c].operator, "operator")
           /\ pc' = [pc EXCEPT ![c] = "select"]
           /\ UNCHANGED <<call, answer, view>>
  <2>t. DraftTypeOK /\ pc[c] = "authorize" /\ UNCHANGED tables
    BY DEF IInv, RequireRole
  <2>1. DraftTypeOK'
    BY <1>2, <2>t DEF DraftTypeOK, InTransaction, Holding, tables
  <2>2. AllOwn'
    BY <1>2, <2>t DEF IInv, DraftTypeOK, AllOwn, Owns, Held, Wrote, Holding, tables
  <2>3. call[c].operator.role \in Permitted
    BY <1>2, <2>t, CallFacts DEF Authorize, RoleLevel, Roles, Permitted
  <2>4. Authorized'
    BY <1>2, <2>t, <2>3 DEF IInv, DraftTypeOK, Authorized
  <2>5. StatusMatchesDecision' /\ ReadsAgree'
    BY <1>2, <2>t DEF IInv, StatusMatchesDecision, Committed, ReadsAgree, tables
  <2> QED
    BY <2>1, <2>2, <2>4, <2>5 DEF IInv
<1> QED
  BY <1>1, <1>2 DEF RequireRole

\* The lock is taken of a pending draft that nobody holds.
LEMMA SelectDraftStep == ASSUME IInv, NEW c \in Clients, SelectDraft(c) PROVE IInv'
<1>1. CASE Rollback(c, "draft_not_found") \/ Rollback(c, "draft_already_decided")
  BY <1>1, RollbackStep DEF Answers
<1>2. CASE /\ response_drafts[call[c].draft_id] # Null
           /\ response_drafts[call[c].draft_id].locked_by = Null
           /\ response_drafts[call[c].draft_id].status = "pending_review"
           /\ response_drafts' = [response_drafts EXCEPT ![call[c].draft_id].locked_by = c]
           /\ pc' = [pc EXCEPT ![c] = "insert"]
           /\ UNCHANGED <<approval_decisions, call, answer, view>>
  <2>t. DraftTypeOK /\ pc[c] = "select"
    BY DEF IInv, SelectDraft
  <2>c. call[c].draft_id \in Drafts /\ call[c] # Null
    BY <2>t, CallFacts, NullAssumption
  <2>1. PICK e \in Drafts : e = call[c].draft_id
    BY <2>c
  <2>2. /\ response_drafts[e] \in DraftRow
        /\ response_drafts[e] # Null
        /\ response_drafts[e].locked_by = Null
        /\ response_drafts[e].status = "pending_review"
    BY <1>2, <2>t, <2>1 DEF DraftTypeOK
  <2>3. /\ response_drafts' \in [Drafts -> DraftRow \cup {Null}]
        /\ response_drafts'[e] # Null
        /\ response_drafts'[e].locked_by = c
        /\ response_drafts'[e].status = "pending_review"
        /\ \A d \in Drafts \ {e} : response_drafts'[d] = response_drafts[d]
    <3>1. response_drafts' = [response_drafts EXCEPT ![e] = [response_drafts[e] EXCEPT !.locked_by = c]]
      BY <1>2, <2>1
    <3>2. [response_drafts[e] EXCEPT !.locked_by = c] \in DraftRow
      BY <2>2 DEF DraftRow
    <3>3. /\ [response_drafts[e] EXCEPT !.locked_by = c].locked_by = c
          /\ [response_drafts[e] EXCEPT !.locked_by = c].status = "pending_review"
      BY <2>2 DEF DraftRow
    <3> QED
      BY <2>t, <3>1, <3>2, <3>3, NullAssumption DEF DraftTypeOK
  <2>4. DraftTypeOK'
    <3>1. \A k \in Clients \ {c} : pc[k] \in Holding => call[k].draft_id \in Drafts \ {e}
      BY <2>t, <2>2, CallFacts, NullAssumption DEF DraftTypeOK, Holding
    <3>2. \A k \in Clients \ {c} : pc[k] \in Holding =>
            /\ response_drafts'[call[k].draft_id] # Null
            /\ response_drafts'[call[k].draft_id].locked_by = k
      BY <2>t, <2>3, <3>1 DEF DraftTypeOK
    <3>3. \A k \in Clients : pc'[k] \in Holding =>
            /\ response_drafts'[call'[k].draft_id] # Null
            /\ response_drafts'[call'[k].draft_id].locked_by = k
      BY <1>2, <2>t, <2>1, <2>3, <3>2 DEF DraftTypeOK
    <3> QED
      BY <1>2, <2>t, <2>c, <2>3, <3>3 DEF DraftTypeOK, InTransaction
  <2>5. AllOwn'
    <3> SUFFICES ASSUME NEW d \in Drafts, NEW k \in Clients PROVE Owns(d, k)'
      BY DEF AllOwn
    <3>1. Owns(d, k) /\ Owns(d, c)
      BY DEF IInv, AllOwn
    <3>2. Wrote(d, k)' <=> Wrote(d, k)
      BY <1>2 DEF Wrote
    <3>3. CASE k = c
      <4>1. pc'[k] = "insert" /\ pc[k] = "select" /\ call' = call
        BY <1>2, <2>t, <3>3 DEF DraftTypeOK
      <4>2. Held(d, k)' <=> d = e
        BY <2>3, <2>t, <3>1, <3>3 DEF Held, Owns, Holding
      <4>3. d = e => response_drafts'[d].status = "pending_review"
        BY <2>3
      <4> QED
        BY <2>1, <3>1, <3>2, <3>3, <4>1, <4>2, <4>3 DEF Owns, Holding
    <3>4. CASE k # c
      <4>1. pc'[k] = pc[k] /\ call' = call
        BY <1>2, <2>t, <3>4 DEF DraftTypeOK
      <4>2. ~ Held(e, k) /\ ~ Held(e, k)'
        BY <2>2, <2>3, <3>4, NullAssumption DEF Held
      <4>3. d # e => response_drafts'[d] = response_drafts[d]
        BY <2>3
      <4>4. approval_decisions' = approval_decisions
        BY <1>2
      <4> QED
        BY <3>1, <3>2, <4>1, <4>2, <4>3, <4>4 DEF Owns, Held
    <3> QED
      BY <3>3, <3>4
  <2>6. Authorized'
    BY <1>2, <2>t DEF IInv, DraftTypeOK, Authorized, InTransaction
  <2>7. StatusMatchesDecision'
    BY <1>2, <2>2, <2>3 DEF IInv, StatusMatchesDecision, Committed
  <2>8. ReadsAgree'
    BY <1>2 DEF IInv, ReadsAgree
  <2> QED
    BY <2>4, <2>5, <2>6, <2>7, <2>8 DEF IInv
<1> QED
  BY <1>1, <1>2 DEF SelectDraft

\* The holder of the row writes the decision.
LEMMA InsertDecisionStep == ASSUME IInv, NEW c \in Clients, InsertDecision(c) PROVE IInv'
<1>1. CASE Rollback(c, "draft_already_decided")
  BY <1>1, RollbackStep DEF Answers
<1>2. CASE /\ approval_decisions[call[c].draft_id] = Null
           /\ approval_decisions' = [approval_decisions EXCEPT ![call[c].draft_id] =
                [decision |-> call[c].decision, operator_id |-> call[c].operator.operator_id,
                 operator_role |-> call[c].operator.role, tx |-> c]]
           /\ pc' = [pc EXCEPT ![c] = "update"]
           /\ UNCHANGED <<response_drafts, call, answer, view>>
  <2>t. DraftTypeOK /\ pc[c] = "insert"
    BY DEF IInv, InsertDecision
  <2>c. /\ call[c].draft_id \in Drafts /\ call[c] # Null
        /\ [decision |-> call[c].decision, operator_id |-> call[c].operator.operator_id,
            operator_role |-> call[c].operator.role, tx |-> c] \in DecisionRow
    BY <2>t, CallFacts, NullAssumption DEF DecisionRow
  <2>1. PICK e \in Drafts : e = call[c].draft_id
    BY <2>c
  <2>3. /\ approval_decisions' \in [Drafts -> DecisionRow \cup {Null}]
        /\ approval_decisions'[e] # Null
        /\ approval_decisions'[e].tx = c
        /\ approval_decisions'[e].decision = call[c].decision
        /\ approval_decisions'[e].operator_id = call[c].operator.operator_id
        /\ approval_decisions'[e].operator_role = call[c].operator.role
        /\ \A d \in Drafts \ {e} : approval_decisions'[d] = approval_decisions[d]
    BY <1>2, <2>t, <2>c, <2>1, NullAssumption DEF DraftTypeOK
  <2>4. DraftTypeOK'
    BY <1>2, <2>t, <2>c, <2>3 DEF DraftTypeOK, InTransaction, Holding
  <2>5. AllOwn'
    <3> SUFFICES ASSUME NEW d \in Drafts, NEW k \in Clients PROVE Owns(d, k)'
      BY DEF AllOwn
    <3>1. Owns(d, k) /\ Owns(d, c)
      BY DEF IInv, AllOwn
    <3>2. Held(d, k)' <=> Held(d, k)
      BY <1>2 DEF Held
    <3>3. CASE k = c
      <4>1. pc'[k] = "update" /\ pc[k] = "insert" /\ call' = call
        BY <1>2, <2>t, <3>3 DEF DraftTypeOK
      <4>2. Wrote(d, k)' <=> d = e
        BY <2>3, <2>t, <3>1, <3>3 DEF Wrote, Owns
      <4> QED
        BY <1>2, <2>1, <2>3, <3>1, <3>2, <3>3, <4>1, <4>2 DEF Owns, Holding
    <3>4. CASE k # c
      <4>1. pc'[k] = pc[k] /\ call' = call
        BY <1>2, <2>t, <3>4 DEF DraftTypeOK
      <4>2. ~ Wrote(e, k) /\ ~ Wrote(e, k)'
        BY <1>2, <2>1, <2>3, <3>4, NullAssumption DEF Wrote
      <4>3. d # e => approval_decisions'[d] = approval_decisions[d]
        BY <2>3
      <4>4. response_drafts' = response_drafts
        BY <1>2
      <4> QED
        BY <3>1, <3>2, <4>1, <4>2, <4>3, <4>4 DEF Owns, Wrote
    <3> QED
      BY <3>3, <3>4
  <2>6. Authorized'
    BY <1>2, <2>t DEF IInv, DraftTypeOK, Authorized, InTransaction
  <2>7. StatusMatchesDecision'
    <3>1. Held(e, c) /\ response_drafts[e].status = "pending_review"
      BY <2>t, <2>1 DEF IInv, AllOwn, Owns, Holding
    <3>2. ~ Committed(e)'
      BY <2>3, NullAssumption DEF Committed
    <3> QED
      BY <1>2, <2>3, <3>1, <3>2 DEF IInv, StatusMatchesDecision, Committed
  <2>8. ReadsAgree'
    BY <1>2 DEF IInv, ReadsAgree
  <2> QED
    BY <2>4, <2>5, <2>6, <2>7, <2>8 DEF IInv
<1> QED
  BY <1>1, <1>2 DEF InsertDecision

\* The holder of the row writes the status.
LEMMA UpdateStatusStep == ASSUME IInv, NEW c \in Clients, UpdateStatus(c) PROVE IInv'
<1>t. DraftTypeOK /\ pc[c] = "update"
  BY DEF IInv, UpdateStatus
<1>c. call[c].draft_id \in Drafts /\ call[c] # Null /\ call[c].decision \in Decisions
  BY <1>t, CallFacts, NullAssumption
<1>1. PICK e \in Drafts : e = call[c].draft_id
  BY <1>c
<1>2. response_drafts[e] \in DraftRow /\ response_drafts[e].locked_by = c
  BY <1>t, <1>1 DEF DraftTypeOK, Holding
<1>3. /\ response_drafts' \in [Drafts -> DraftRow \cup {Null}]
      /\ response_drafts'[e] # Null
      /\ response_drafts'[e].locked_by = c
      /\ response_drafts'[e].status = response_drafts[e].status
      /\ response_drafts'[e].update = call[c].decision
      /\ \A d \in Drafts \ {e} : response_drafts'[d] = response_drafts[d]
  <2>1. response_drafts' =
          [response_drafts EXCEPT ![e] = [response_drafts[e] EXCEPT !.update = call[c].decision]]
    BY <1>1 DEF UpdateStatus
  <2>2. [response_drafts[e] EXCEPT !.update = call[c].decision] \in DraftRow
    BY <1>c, <1>2 DEF DraftRow
  <2>3. /\ [response_drafts[e] EXCEPT !.update = call[c].decision].locked_by = c
        /\ [response_drafts[e] EXCEPT !.update = call[c].decision].update = call[c].decision
        /\ [response_drafts[e] EXCEPT !.update = call[c].decision].status
             = response_drafts[e].status
    BY <1>2 DEF DraftRow
  <2> QED
    BY <1>t, <2>1, <2>2, <2>3, NullAssumption DEF DraftTypeOK
<1>4. /\ pc' = [pc EXCEPT ![c] = "commit"]
      /\ UNCHANGED <<approval_decisions, call, answer, view>>
  BY DEF UpdateStatus
<1>5. DraftTypeOK'
  <2>1. \A k \in Clients : pc'[k] \in Holding =>
          /\ response_drafts'[call'[k].draft_id] # Null
          /\ response_drafts'[call'[k].draft_id].locked_by = k
    <3> SUFFICES ASSUME NEW k \in Clients, pc'[k] \in Holding
                 PROVE  /\ response_drafts'[call'[k].draft_id] # Null
                        /\ response_drafts'[call'[k].draft_id].locked_by = k
      OBVIOUS
    <3>1. pc[k] \in Holding /\ call' = call /\ pc[k] # "done"
      BY <1>4, <1>t DEF DraftTypeOK, Holding
    <3>2. call[k].draft_id \in Drafts
      BY <1>t, <3>1, CallFacts
    <3>3. /\ response_drafts[call[k].draft_id] # Null
          /\ response_drafts[call[k].draft_id].locked_by = k
      BY <1>t, <3>1 DEF DraftTypeOK
    <3> QED
      BY <1>2, <1>3, <3>1, <3>2, <3>3
  <2> QED
    BY <1>t, <1>c, <1>3, <1>4, <2>1 DEF DraftTypeOK, InTransaction
<1>6. AllOwn'
  <2> SUFFICES ASSUME NEW d \in Drafts, NEW k \in Clients PROVE Owns(d, k)'
    BY DEF AllOwn
  <2>1. Owns(d, k) /\ Owns(d, c)
    BY DEF IInv, AllOwn
  <2>2. Wrote(d, k)' <=> Wrote(d, k)
    BY <1>4 DEF Wrote
  <2>3. Held(d, k)' <=> Held(d, k)
    BY <1>2, <1>3, NullAssumption DEF Held, DraftRow
  <2>4. call' = call /\ approval_decisions' = approval_decisions
    BY <1>4
  <2>5. response_drafts[d] # Null => response_drafts'[d].status = response_drafts[d].status
    BY <1>3
  <2>6. CASE k = c
    <3>1. pc'[k] = "commit" /\ pc[k] = "update"
      BY <1>4, <1>t, <2>6 DEF DraftTypeOK
    <3>2. d = e => response_drafts'[d].update = call[c].decision
      BY <1>3
    <3> QED
      BY <1>1, <2>1, <2>2, <2>3, <2>4, <2>5, <2>6, <3>1, <3>2 DEF Owns, Holding, Held
  <2>7. CASE k # c
    <3>1. pc'[k] = pc[k]
      BY <1>4, <1>t, <2>7 DEF DraftTypeOK
    <3>2. Held(d, k) => response_drafts'[d] = response_drafts[d]
      BY <1>2, <1>3, <2>7 DEF Held
    <3> QED
      BY <2>1, <2>2, <2>3, <2>4, <2>5, <3>1, <3>2 DEF Owns
  <2> QED
    BY <2>6, <2>7
<1>7. Authorized'
  BY <1>4, <1>t DEF IInv, DraftTypeOK, Authorized, InTransaction
<1>8. StatusMatchesDecision'
  BY <1>2, <1>3, <1>4, NullAssumption DEF IInv, StatusMatchesDecision, Committed, DraftRow
<1>9. ReadsAgree'
  BY <1>4 DEF IInv, ReadsAgree
<1> QED
  BY <1>5, <1>6, <1>7, <1>8, <1>9 DEF IInv

LEMMA CreateDraftStep == ASSUME IInv, NEW e \in Drafts, CreateDraft(e) PROVE IInv'
<1>t. DraftTypeOK
  BY DEF IInv
<1>1. /\ response_drafts' \in [Drafts -> DraftRow \cup {Null}]
      /\ response_drafts'[e] # Null
      /\ response_drafts'[e].locked_by = Null
      /\ response_drafts'[e].status = "pending_review"
      /\ \A d \in Drafts \ {e} : response_drafts'[d] = response_drafts[d]
  <2>1. [status |-> "pending_review", locked_by |-> Null, update |-> Null] \in DraftRow
    BY DEF DraftRow, DraftStatus
  <2> QED
    BY <1>t, <2>1, NullAssumption DEF CreateDraft, DraftTypeOK
<1>2. response_drafts[e] = Null /\ UNCHANGED <<approval_decisions, pc, call, answer, view>>
  BY DEF CreateDraft
<1>3. DraftTypeOK'
  <2>1. \A k \in Clients : pc[k] \in Holding => call[k].draft_id \in Drafts \ {e}
    BY <1>t, <1>2, CallFacts DEF DraftTypeOK, Holding
  <2> QED
    BY <1>t, <1>1, <1>2, <2>1 DEF DraftTypeOK
<1>4. AllOwn'
  <2> SUFFICES ASSUME NEW d \in Drafts, NEW k \in Clients PROVE Owns(d, k)'
    BY DEF AllOwn
  <2>1. Owns(d, k)
    BY DEF IInv, AllOwn
  <2>2. ~ Held(e, k) /\ ~ Held(e, k)'
    BY <1>1, <1>2, NullAssumption DEF Held
  <2> QED
    BY <1>1, <1>2, <2>1, <2>2 DEF Owns, Held, Wrote
<1>5. Authorized' /\ ReadsAgree'
  BY <1>2 DEF IInv, Authorized, ReadsAgree
<1>6. StatusMatchesDecision'
  BY <1>1, <1>2 DEF IInv, StatusMatchesDecision, Committed
<1> QED
  BY <1>3, <1>4, <1>5, <1>6 DEF IInv

\* A reader sees both rows as they are committed.
LEMMA GetDraftStep == ASSUME IInv, NEW e \in Drafts, GetDraft(e) PROVE IInv'
<1>t. DraftTypeOK /\ UNCHANGED <<tables, pc, call, answer>>
  BY DEF IInv, GetDraft
<1>1. /\ response_drafts[e] \in DraftRow
      /\ Committed(e) => approval_decisions[e] \in DecisionRow
  BY <1>t DEF GetDraft, DraftTypeOK, Committed
<1>2. view' \in DraftRecord
  BY <1>1 DEF GetDraft, DraftRecord, DraftRow, DecisionRow
<1>3. DraftTypeOK'
  BY <1>t, <1>2 DEF DraftTypeOK, tables
<1>4. AllOwn' /\ Authorized' /\ StatusMatchesDecision'
  BY <1>t DEF IInv, AllOwn, Owns, Held, Wrote, Authorized, StatusMatchesDecision, Committed, tables
<1>5. ReadsAgree'
  <2>1. CASE Committed(e)
    <3>1. /\ response_drafts[e].status = approval_decisions[e].decision
          /\ approval_decisions[e].decision \in Decisions
      BY <1>1, <2>1 DEF IInv, StatusMatchesDecision, DecisionRow
    <3> QED
      BY <2>1, <3>1 DEF GetDraft, ReadsAgree, Decisions
  <2>2. CASE ~ Committed(e)
    BY <2>2 DEF IInv, StatusMatchesDecision, GetDraft, ReadsAgree
  <2> QED
    BY <2>1, <2>2
<1> QED
  BY <1>3, <1>4, <1>5 DEF IInv

LEMMA CallStep == ASSUME IInv, NEW c \in Clients, Call(c) PROVE IInv'
<1>t. DraftTypeOK
  BY DEF IInv
<1>1. DraftTypeOK'
  BY <1>t, NullAssumption DEF Call, DraftTypeOK, InTransaction, Holding, Answers, tables
<1>2. AllOwn'
  BY <1>t DEF IInv, DraftTypeOK, Call, AllOwn, Owns, Held, Wrote, Holding, tables
<1>3. Authorized' /\ StatusMatchesDecision' /\ ReadsAgree'
  BY <1>t DEF IInv, DraftTypeOK, Call, Authorized, InTransaction, StatusMatchesDecision, Committed,
     ReadsAgree, tables
<1> QED
  BY <1>1, <1>2, <1>3 DEF IInv

LEMMA IInvStep == IInv /\ [Next]_vars => IInv'
<1> SUFFICES ASSUME IInv, [Next]_vars PROVE IInv'
  OBVIOUS
<1>1. CASE \E d \in Drafts : CreateDraft(d)
  BY <1>1, CreateDraftStep
<1>2. CASE \E d \in Drafts : GetDraft(d)
  BY <1>2, GetDraftStep
<1>3. CASE \E c \in Clients : Call(c)
  BY <1>3, CallStep
<1>4. CASE \E c \in Clients : Step(c)
  BY <1>4, RequireRoleStep, SelectDraftStep, InsertDecisionStep, UpdateStatusStep, CommitStep DEF Step
<1>5. CASE \E c \in Clients : LoseConnection(c)
  BY <1>5, RollbackStep DEF LoseConnection, Answers
<1>6. CASE UNCHANGED vars
  BY <1>6 DEF vars, tables, IInv, DraftTypeOK, AllOwn, Owns, Held, Wrote, Authorized,
     StatusMatchesDecision, Committed, ReadsAgree
<1> QED
  BY <1>1, <1>2, <1>3, <1>4, <1>5, <1>6 DEF Next

LEMMA IInvInit == Init => IInv
<1> SUFFICES ASSUME Init PROVE IInv
  OBVIOUS
<1>1. DraftTypeOK
  BY DEF Init, DraftTypeOK, Holding, Answers
<1>2. AllOwn /\ Authorized /\ StatusMatchesDecision /\ ReadsAgree
  BY DEF Init, AllOwn, Owns, Held, Wrote, Holding, InTransaction, Authorized, StatusMatchesDecision,
     Committed, ReadsAgree
<1> QED
  BY <1>1, <1>2 DEF IInv

LEMMA DraftInductive == DraftSpec => []IInv
BY IInvInit, IInvStep, PTL DEF DraftSpec

\* Every variable has its type, and whoever has found a draft pending holds its row to the end,
\* for any number of drafts, people and clients.
THEOREM DraftTypeCorrect == DraftSpec => []DraftTypeOK
<1>1. IInv => DraftTypeOK
  BY DEF IInv
<1> QED
  BY <1>1, DraftInductive, PTL

\* The status of a draft and its decision row never disagree, and a decision names an operator or
\* an admin, whatever decisions overlap, crash or are lost.
THEOREM StatusAgrees == DraftSpec => []StatusMatchesDecision
<1>1. IInv => StatusMatchesDecision
  BY DEF IInv
<1> QED
  BY <1>1, DraftInductive, PTL

\* No reader of a draft sees its status and its decision apart.
THEOREM ReadersAgree == DraftSpec => []ReadsAgree
<1>1. IInv => ReadsAgree
  BY DEF IInv
<1> QED
  BY <1>1, DraftInductive, PTL

-----------------------------------------------------------------------------
(* Decisions are final *)

LEMMA CommittedStay ==
  ASSUME IInv, [Next]_vars, NEW d \in Drafts, Committed(d)
  PROVE  approval_decisions'[d] = approval_decisions[d]
<1>1. ASSUME NEW c \in Clients, NEW status, Rollback(c, status)
      PROVE  approval_decisions'[d] = approval_decisions[d]
  BY <1>1, RollbackEffect, NullAssumption DEF IInv, Committed, Wrote
<1>2. ASSUME NEW c \in Clients, Commit(c) PROVE approval_decisions'[d] = approval_decisions[d]
  BY <1>2, CommitEffect, NullAssumption DEF Committed, Wrote
<1>3. ASSUME NEW c \in Clients, InsertDecision(c)
      PROVE  approval_decisions'[d] = approval_decisions[d]
  <2>1. CASE Rollback(c, "draft_already_decided")
    BY <1>1, <2>1
  <2>2. CASE approval_decisions[call[c].draft_id] = Null
    BY <1>1, <1>3, <2>2 DEF InsertDecision, IInv, DraftTypeOK, Committed
  <2> QED
    BY <1>3, <2>1, <2>2 DEF InsertDecision
<1>4. CASE UNCHANGED approval_decisions
  BY <1>4
<1>5. ASSUME NEW c \in Clients, RequireRole(c) \/ UpdateStatus(c) \/ Call(c)
      PROVE  UNCHANGED approval_decisions
  BY <1>5 DEF RequireRole, UpdateStatus, Call, tables
<1>6. ASSUME NEW c \in Clients, SelectDraft(c)
      PROVE  UNCHANGED approval_decisions \/ \E status : Rollback(c, status)
  BY <1>6 DEF SelectDraft
<1>7. ASSUME NEW e \in Drafts, CreateDraft(e) \/ GetDraft(e) PROVE UNCHANGED approval_decisions
  BY <1>7 DEF CreateDraft, GetDraft, tables
<1>8. ASSUME NEW c \in Clients, LoseConnection(c) PROVE \E status : Rollback(c, status)
  BY <1>8 DEF LoseConnection
<1>9. CASE UNCHANGED vars
  BY <1>9 DEF vars, tables
<1> QED
  BY <1>1, <1>2, <1>3, <1>4, <1>5, <1>6, <1>7, <1>8, <1>9 DEF Next, Step

\* No later, refused or failing call changes, replaces or withdraws a committed decision.
THEOREM DecisionStays == DraftSpec => DecisionIsFinal
<1>1. IInv /\ [Next]_vars =>
        [\A d \in Drafts : Committed(d) => approval_decisions'[d] = approval_decisions[d]]_vars
  BY CommittedStay
<1> QED
  BY <1>1, DraftInductive, PTL DEF DraftSpec, DecisionIsFinal

-----------------------------------------------------------------------------
(* One review at a time *)

LEMMA ReviewFacts ==
  ASSUME IInv, NEW d \in Drafts
  PROVE  /\ Reviews[d] = Null <=> response_drafts[d] = Null
         /\ Reviews[d] = Review!Undecided <=> response_drafts[d] # Null /\ ~ Committed(d)
<1>1. Reviews[d] = ReviewOf(d)
  BY DEF Reviews
<1>2. Review!Undecided = [decision |-> Null, operator |-> Null] /\ Review!Undecided # Null
  BY NullAssumption DEF Review!Undecided
<1>3. CASE Committed(d)
  <2>1. response_drafts[d] # Null /\ approval_decisions[d] \in DecisionRow
    BY <1>3 DEF IInv, DraftTypeOK, StatusMatchesDecision, Committed
  <2>2. PICK v \in Decisions, o \in Claims :
          /\ v = approval_decisions[d].decision
          /\ o = [operator_id |-> approval_decisions[d].operator_id,
                  role |-> approval_decisions[d].operator_role]
    BY <2>1 DEF DecisionRow, Claims
  <2>3. ReviewOf(d) = [decision |-> v, operator |-> o]
    BY <1>3, <2>1, <2>2 DEF ReviewOf
  <2>4. [decision |-> v, operator |-> o] # Null
    BY NullAssumption
  <2>5. [decision |-> v, operator |-> o] # [decision |-> Null, operator |-> Null]
    BY NullAssumption
  <2> QED
    BY <1>1, <1>2, <1>3, <2>1, <2>3, <2>4, <2>5
<1>4. CASE ~ Committed(d)
  BY <1>1, <1>2, <1>4 DEF ReviewOf
<1> QED
  BY <1>3, <1>4

\* A step that commits nothing and creates nothing is not seen.
LEMMA ReviewUndisturbed ==
  ASSUME \A d \in Drafts :
           /\ response_drafts'[d] = Null <=> response_drafts[d] = Null
           /\ Committed(d)' <=> Committed(d)
           /\ Committed(d) => approval_decisions'[d] = approval_decisions[d]
  PROVE  Reviews' = Reviews
<1>1. \A d \in Drafts : ReviewOf(d)' = ReviewOf(d)
  BY DEF ReviewOf
<1> QED
  BY <1>1 DEF Reviews

LEMMA RollbackUnseen ==
  ASSUME IInv, NEW c \in Clients, NEW status, Rollback(c, status)
  PROVE  Reviews' = Reviews
<1> SUFFICES ASSUME NEW d \in Drafts
             PROVE  /\ response_drafts'[d] = Null <=> response_drafts[d] = Null
                    /\ Committed(d)' <=> Committed(d)
                    /\ Committed(d) => approval_decisions'[d] = approval_decisions[d]
  BY ReviewUndisturbed
<1>1. response_drafts[d] \in DraftRow \cup {Null}
  BY DEF IInv, DraftTypeOK
<1>2. response_drafts'[d] = Null <=> response_drafts[d] = Null
  BY <1>1, RollbackEffect, RowFacts DEF IInv, Held
<1> QED
  BY <1>2, RollbackEffect, NullAssumption DEF IInv, Committed, Wrote

LEMMA AnswerStep ==
  ASSUME IInv, NEW c \in Clients, pc[c] # "done", NEW status, Reply(c, status)
  PROVE  Review!Answer(c, status) /\ call[c] # Null
BY DEF IInv, DraftTypeOK, Reply, Review!Answer

\* A refusal of a call that has been authorized, by what is committed.
LEMMA RefusedStep ==
  ASSUME IInv, NEW c \in Clients, pc[c] \in InTransaction,
         NEW status, Rollback(c, status),
         \/ status = "storage_unavailable"
         \/ status = "draft_not_found" /\ response_drafts[call[c].draft_id] = Null
         \/ status = "draft_already_decided" /\ Committed(call[c].draft_id)
  PROVE  Review!Next
<1>1. call[c].operator.role # "viewer" /\ call[c].draft_id \in Drafts
  BY CallFacts DEF IInv, Authorized, Permitted, InTransaction
<1>2. Review!Answer(c, status) /\ call[c] # Null
  BY AnswerStep DEF Rollback, InTransaction
<1>3. Reviews' = Reviews
  BY RollbackUnseen
<1>4. /\ response_drafts[call[c].draft_id] = Null => Reviews[call[c].draft_id] = Null
      /\ Committed(call[c].draft_id) =>
           Reviews[call[c].draft_id] \notin {Null, Review!Undecided}
  BY <1>1, ReviewFacts DEF IInv, StatusMatchesDecision
<1>5. Review!Refuse(c)
  BY <1>1, <1>2, <1>3, <1>4 DEF Review!Refuse
<1> QED
  BY <1>2, <1>5 DEF Review!Next

\* The commit decides the draft whose row the transaction holds.
LEMMA CommitReview == ASSUME IInv, NEW c \in Clients, Commit(c) PROVE Review!Next
<1>t. DraftTypeOK /\ pc[c] = "commit"
  BY DEF IInv, Commit
<1>c. /\ call[c].draft_id \in Drafts /\ call[c].operator \in Claims
      /\ call[c].operator.role \in Permitted
  BY <1>t, CallFacts DEF IInv, Authorized, InTransaction
<1>1. PICK e \in Drafts : e = call[c].draft_id
  BY <1>c
<1>2. Held(e, c) /\ Wrote(e, c) /\ \A d \in Drafts \ {e} : ~ Held(d, c) /\ ~ Wrote(d, c)
  BY <1>t, <1>1 DEF IInv, AllOwn, Owns, Holding
<1>3. Reviews[e] = Review!Undecided
  BY <1>2, ReviewFacts, NullAssumption DEF Held, Wrote, Committed
<1>4. \A d \in Drafts \ {e} : ReviewOf(d)' = ReviewOf(d)
  BY <1>2, CommitEffect DEF ReviewOf, Committed
<1>5. ReviewOf(e)' = Review!Verdict(c)
  <2>1. /\ response_drafts'[e] # Null
        /\ Committed(e)'
        /\ approval_decisions'[e].decision = call[c].decision
        /\ approval_decisions'[e].operator_id = call[c].operator.operator_id
        /\ approval_decisions'[e].operator_role = call[c].operator.role
    BY <1>2, CommitEffect DEF Committed, IInv, AllOwn, Owns
  <2>2. call[c].operator = [operator_id |-> call[c].operator.operator_id,
                            role |-> call[c].operator.role]
    BY <1>c DEF Claims
  <2>3. ReviewOf(e)' = [decision |-> call[c].decision, operator |-> call[c].operator]
    BY <2>1, <2>2 DEF ReviewOf
  <2> QED
    BY <2>3 DEF Review!Verdict
<1>6. Reviews' = [Reviews EXCEPT ![call[c].draft_id] = Review!Verdict(c)]
  BY <1>1, <1>4, <1>5 DEF Reviews
<1>7. /\ call[c] # Null
      /\ Review!Answer(c, "decided") \/ Review!Answer(c, "storage_unavailable")
  BY <1>t, AnswerStep DEF Commit
<1>8. Review!Decide(c)
  BY <1>c, <1>1, <1>3, <1>6, <1>7 DEF Review!Decide, Permitted
<1> QED
  BY <1>7, <1>8 DEF Review!Next

LEMMA CreateReview == ASSUME IInv, NEW e \in Drafts, CreateDraft(e) PROVE Review!Next
<1>1. /\ response_drafts[e] = Null /\ response_drafts'[e] # Null
      /\ \A d \in Drafts \ {e} : response_drafts'[d] = response_drafts[d]
      /\ UNCHANGED <<approval_decisions, call, answer>>
  <2>1. response_drafts' \in [Drafts -> DraftRow \cup {Null}]
    BY CreateDraftStep DEF IInv, DraftTypeOK
  <2>2. [status |-> "pending_review", locked_by |-> Null, update |-> Null] \in DraftRow
    BY DEF DraftRow, DraftStatus
  <2> QED
    BY <2>1, <2>2, NullAssumption DEF CreateDraft, IInv, DraftTypeOK
<1>2. Reviews[e] = Null /\ ~ Committed(e)
  BY <1>1, ReviewFacts DEF IInv, StatusMatchesDecision
<1>3. ReviewOf(e)' = Review!Undecided
  BY <1>1, <1>2 DEF ReviewOf, Committed, Review!Undecided
<1>4. \A d \in Drafts \ {e} : ReviewOf(d)' = ReviewOf(d)
  BY <1>1 DEF ReviewOf, Committed
<1>5. Reviews' = [Reviews EXCEPT ![e] = Review!Undecided]
  BY <1>3, <1>4 DEF Reviews
<1>6. Review!Create(e)
  BY <1>1, <1>2, <1>5 DEF Review!Create
<1> QED
  BY <1>6 DEF Review!Next

LEMMA ReviewStep == IInv /\ [Next]_vars => [Review!Next]_(Review!vars)
<1> SUFFICES ASSUME IInv, [Next]_vars PROVE Review!Next \/ UNCHANGED Review!vars
  OBVIOUS
<1>t. DraftTypeOK
  BY DEF IInv
<1>s. UNCHANGED tables => Reviews' = Reviews
  BY DEF tables, Reviews, ReviewOf, Committed
<1>1. CASE UNCHANGED vars
  BY <1>1, <1>s DEF vars, Review!vars
<1>2. ASSUME NEW d \in Drafts, GetDraft(d) PROVE UNCHANGED Review!vars
  BY <1>2, <1>s DEF GetDraft, Review!vars
<1>3. ASSUME NEW c \in Clients, Call(c) PROVE Review!Next
  <2>1. answer[c] # "pending"
    BY <1>t, <1>3 DEF Call, DraftTypeOK
  <2>2. Review!CallType = CallType
    BY DEF Review!CallType, CallType, Review!Decisions, Decisions, Review!Claims, Claims,
       Review!Roles, Roles
  <2>3. Review!Call(c)
    BY <1>3, <1>s, <2>1, <2>2 DEF Call, Review!Call
  <2> QED
    BY <2>3 DEF Review!Next
<1>4. ASSUME NEW c \in Clients, RequireRole(c) PROVE Review!Next \/ UNCHANGED Review!vars
  <2>1. CASE UNCHANGED <<call, answer>>
    BY <1>4, <1>s, <2>1 DEF RequireRole, Review!vars
  <2>2. CASE ~ Authorize(call[c].operator, "operator") /\ Reply(c, "insufficient_role")
    <3>1. Review!Answer(c, "insufficient_role") /\ call[c] # Null
      BY <1>4, <2>2, AnswerStep DEF RequireRole
    <3>2. call[c].operator.role = "viewer"
      BY <1>t, <1>4, <2>2, CallFacts DEF RequireRole, Authorize, RoleLevel, Roles
    <3>3. Review!Refuse(c)
      BY <1>4, <1>s, <3>1, <3>2 DEF RequireRole, Review!Refuse
    <3> QED
      BY <3>1, <3>3 DEF Review!Next
  <2> QED
    BY <1>4, <2>1, <2>2 DEF RequireRole
<1>5. ASSUME NEW c \in Clients, SelectDraft(c) PROVE Review!Next \/ UNCHANGED Review!vars
  <2>c. call[c].draft_id \in Drafts /\ pc[c] \in InTransaction
    BY <1>t, <1>5, CallFacts DEF SelectDraft, InTransaction
  <2>1. CASE response_drafts[call[c].draft_id] = Null /\ Rollback(c, "draft_not_found")
    BY <2>1, <2>c, RefusedStep
  <2>2. CASE /\ response_drafts[call[c].draft_id] # Null
             /\ response_drafts[call[c].draft_id].status # "pending_review"
             /\ Rollback(c, "draft_already_decided")
    <3>1. Committed(call[c].draft_id)
      BY <2>2, <2>c DEF IInv, StatusMatchesDecision
    <3> QED
      BY <2>2, <2>c, <3>1, RefusedStep
  <2>3. CASE /\ response_drafts[call[c].draft_id] # Null
             /\ response_drafts' = [response_drafts EXCEPT ![call[c].draft_id].locked_by = c]
             /\ UNCHANGED <<approval_decisions, call, answer, view>>
    <3>1. PICK e \in Drafts : e = call[c].draft_id
      BY <2>c
    <3>2. [response_drafts[e] EXCEPT !.locked_by = c] # Null
      <4>1. [response_drafts[e] EXCEPT !.locked_by = c] \in DraftRow
        BY <1>t, <2>3, <3>1 DEF DraftTypeOK, DraftRow
      <4> QED
        BY <4>1, NullAssumption
    <3>3. \A d \in Drafts : response_drafts'[d] = Null <=> response_drafts[d] = Null
      BY <1>t, <2>3, <3>1, <3>2 DEF DraftTypeOK
    <3>4. Reviews' = Reviews
      BY <2>3, <3>3, ReviewUndisturbed DEF Committed
    <3> QED
      BY <2>3, <3>4 DEF Review!vars
  <2> QED
    BY <1>5, <2>1, <2>2, <2>3 DEF SelectDraft
<1>6. ASSUME NEW c \in Clients, InsertDecision(c) PROVE Review!Next \/ UNCHANGED Review!vars
  <2>1. CASE /\ Committed(call[c].draft_id) \/ call[c].operator.role = "viewer"
             /\ Rollback(c, "draft_already_decided")
    <3>1. pc[c] \in InTransaction
      BY <1>6 DEF InsertDecision, InTransaction
    <3>2. call[c].operator.role # "viewer"
      BY <3>1 DEF IInv, Authorized, Permitted
    <3> QED
      BY <2>1, <3>1, <3>2, RefusedStep
  <2>2. CASE /\ approval_decisions[call[c].draft_id] = Null
             /\ approval_decisions' = [approval_decisions EXCEPT ![call[c].draft_id] =
                  [decision |-> call[c].decision,
                   operator_id |-> call[c].operator.operator_id,
                   operator_role |-> call[c].operator.role, tx |-> c]]
             /\ UNCHANGED <<response_drafts, call, answer, view>>
    <3>1. PICK e \in Drafts : e = call[c].draft_id
      BY <1>t, <1>6, CallFacts DEF InsertDecision
    <3>2. /\ approval_decisions'[e] # Null => approval_decisions'[e].tx = c
          /\ \A d \in Drafts \ {e} : approval_decisions'[d] = approval_decisions[d]
      BY <1>t, <2>2, <3>1 DEF DraftTypeOK
    <3>3. \A d \in Drafts : /\ Committed(d)' <=> Committed(d)
                            /\ Committed(d) => approval_decisions'[d] = approval_decisions[d]
      BY <2>2, <3>1, <3>2, NullAssumption DEF Committed
    <3>4. Reviews' = Reviews
      BY <2>2, <3>3, ReviewUndisturbed
    <3> QED
      BY <2>2, <3>4 DEF Review!vars
  <2> QED
    BY <1>6, <2>1, <2>2 DEF InsertDecision
<1>7. ASSUME NEW c \in Clients, UpdateStatus(c) PROVE UNCHANGED Review!vars
  <2>1. PICK e \in Drafts : e = call[c].draft_id
    BY <1>t, <1>7, CallFacts DEF UpdateStatus
  <2>2. response_drafts[e] \in DraftRow /\ call[c].decision \in Decisions
    BY <1>t, <1>7, <2>1, CallFacts DEF UpdateStatus, DraftTypeOK, Holding
  <2>3. [response_drafts[e] EXCEPT !.update = call[c].decision] # Null
    <3>1. [response_drafts[e] EXCEPT !.update = call[c].decision] \in DraftRow
      BY <2>2 DEF DraftRow
    <3> QED
      BY <3>1, NullAssumption
  <2>4. \A d \in Drafts : response_drafts'[d] = Null <=> response_drafts[d] = Null
    BY <1>t, <1>7, <2>1, <2>2, <2>3, NullAssumption DEF UpdateStatus, DraftTypeOK
  <2>5. Reviews' = Reviews
    BY <1>7, <2>4, ReviewUndisturbed DEF UpdateStatus, Committed
  <2> QED
    BY <1>7, <2>5 DEF UpdateStatus, Review!vars
<1>8. ASSUME NEW c \in Clients, LoseConnection(c) PROVE Review!Next
  BY <1>8, RefusedStep DEF LoseConnection
<1> QED
  BY <1>1, <1>2, <1>3, <1>4, <1>5, <1>6, <1>7, <1>8, CreateReview, CommitReview DEF Next, Step

\* The locked transaction gives a draft one decision and answers every call by what is decided at
\* one instant of the call, for any drafts, people and clients, whatever overlaps or is lost.
THEOREM ImplementsDraftReview == DraftSpec => ImplementsReview
<1>1. Init => Review!Init
  BY DEF Init, Review!Init, Reviews, ReviewOf
<1> QED
  BY <1>1, ReviewStep, DraftInductive, PTL DEF DraftSpec, ImplementsReview, Review!Spec
=============================================================================
