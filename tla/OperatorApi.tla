---------------------------- MODULE OperatorApi ----------------------------
(***************************************************************************)
(* The way of a request through api.py: the token, the role of the route,  *)
(* the service with a role check of its own (services.py, auth.py), the    *)
(* repository, the answer, and the counters of observability.py.  Requests *)
(* run in threads and overlap; the process may die and start again with    *)
(* its counters at zero.                                                   *)
(*                                                                         *)
(* What a repository does is modelled in JobQueue, DraftApproval,          *)
(* Ingestion, IncidentPaging and WebhookDelivery.  Here it is one step     *)
(* with any of its results, among them a commit nobody acknowledges.       *)
(***************************************************************************)
EXTENDS Integers, FiniteSets

CONSTANTS
  Requests,   \* bound: the requests sent
  Expiries,   \* values of expires_at
  MaxTime     \* bound: the clock stops there

ASSUME TimeAssumption == MaxTime \in Nat /\ Expiries \subseteq Nat

\* The requests sent by any moment are finitely many.
ASSUME RequestsAssumption == IsFiniteSet(Requests)

VARIABLES
  conf,       \* what create_app was given: a token secret, the durable repositories
  clock,
  requests,   \* request |-> where it is and what is known of it
  counters,   \* MetricsRegistry._counters
  observed    \* MetricsRegistry._request_count

apiVars == <<conf, clock, requests, counters, observed>>

-----------------------------------------------------------------------------
(* Routes, roles and results *)

ROLE_LEVEL == [viewer |-> 1, operator |-> 2, admin |-> 3]
Roles == DOMAIN ROLE_LEVEL

Public == {"events", "webhookPreview", "openReads"}

\* minimum_role of authenticate; "openReads" stands for /healthz, /readyz (which is 503 when
\* the database is away), /metrics and the two investigation previews.
RouteRole ==
  [listIncidents |-> "viewer", getIncident |-> "viewer", getJob |-> "viewer",
   getClassification |-> "viewer", getDraft |-> "viewer",
   createJob |-> "operator", createDraft |-> "operator",
   approve |-> "operator", reject |-> "operator", retryJob |-> "admin"]

\* _require_role of the service method each route calls.
ServiceRole ==
  [listIncidents |-> "viewer", getIncident |-> "viewer", getJob |-> "viewer",
   getClassification |-> "viewer", getDraft |-> "viewer",
   createJob |-> "operator", createDraft |-> "operator",
   approve |-> "operator", reject |-> "operator", retryJob |-> "admin"]

Routes == Public \cup DOMAIN RouteRole
JobRoutes == {"createJob", "getJob", "getClassification", "retryJob"}
DraftRoutes == {"createDraft", "getDraft", "approve", "reject"}
Writes == {"events", "webhookPreview", "createJob", "retryJob", "createDraft", "approve", "reject"}

\* The results of the repository: "ok", or what it returns or raises instead.
Results(route) ==
  CASE route = "events"         -> {"ok", "duplicate", "conflict", "unavailable"}
    [] route = "webhookPreview" -> {"ok", "duplicate", "conflict"}
    [] route = "openReads"      -> {"ok", "unavailable"}
    [] route = "listIncidents"  -> {"ok", "invalidCursor", "unavailable"}
    [] route \in {"retryJob", "approve", "reject"} -> {"ok", "missing", "conflict", "unavailable"}
    [] OTHER                    -> {"ok", "missing", "unavailable"}

\* Faulty: an error of the commit is taken for a conflict.
StatusConfused(route, result) ==
  CASE result = "ok"            -> 200
    [] result = "missing"       -> 404
    [] OTHER                    -> 409

Status(route, result) ==
  CASE result = "ok" -> IF route \in {"events", "webhookPreview", "createDraft"} THEN 201
                        ELSE IF route \in {"createJob", "retryJob"} THEN 202 ELSE 200
    [] result = "duplicate"     -> 200
    [] result = "invalidCursor" -> 400
    [] result = "missing"       -> 404
    [] result = "conflict"      -> 409
    [] result = "unavailable"   -> 503

OPERATION_NAMES ==
  {"accepted", "duplicate", "conflict", "rejected", "retried", "failed", "approved"}

\* The metric of a result, "none" where the route counts nothing.  Refused requests and
\* rejected drafts share a counter; a second decision of a draft is no "conflict".
Operation(route, result) ==
  CASE route = "events" /\ result = "ok"        -> "accepted"
    [] route = "events" /\ result = "duplicate" -> "duplicate"
    [] route \in {"events", "webhookPreview"} /\ result = "conflict" -> "conflict"
    [] route = "retryJob" /\ result = "ok"      -> "retried"
    [] route = "approve" /\ result = "ok"       -> "approved"
    [] route = "reject" /\ result = "ok"        -> "rejected"
    [] OTHER                                    -> "none"

Increment(op) ==
  counters' = [o \in OPERATION_NAMES |-> IF o = op THEN counters[o] + 1 ELSE counters[o]]

-----------------------------------------------------------------------------
(* Requests *)

NoHeader == [kind |-> "none", role |-> "viewer", expires_at |-> 0]
Forged == [kind |-> "forged", role |-> "admin", expires_at |-> MaxTime + 1]
Tokens == [kind : {"token"}, role : Roles, expires_at : Expiries]

\* `did` is history: the repository committed a change for this request; `at` is the
\* clock when its token was verified.
Unsent ==
  [stage |-> "unsent", route |-> "openReads", header |-> NoHeader, at |-> 0,
   result |-> "none", did |-> FALSE, status |-> 0]

ApiInit ==
  /\ conf \in [secret : BOOLEAN, durable : BOOLEAN]
  /\ clock = 0
  /\ requests = [r \in Requests |-> Unsent]
  /\ counters = [o \in OPERATION_NAMES |-> 0]
  /\ observed = 0

Move(r, record) == requests' = [requests EXCEPT ![r] = record]

Answer(r, status) == Move(r, [requests[r] EXCEPT !.stage = "answered", !.status = status])

Send(r) ==
  /\ requests[r].stage = "unsent"
  /\ \E route \in Routes :
       \E header \in IF route \in Public THEN {NoHeader} ELSE {NoHeader, Forged} \cup Tokens :
         Move(r, [Unsent EXCEPT !.stage = "sent", !.route = route, !.header = header])
  /\ UNCHANGED <<conf, clock, counters, observed>>

\* A path, query, header or body that the route's types refuse, before any token is looked at.
RefuseMalformed(r) ==
  /\ requests[r].stage = "sent"
  /\ Answer(r, 422)
  /\ UNCHANGED <<conf, clock, counters, observed>>

\* Faulty: a token is good for one instant more.
ExpiredAfter(token) == clock > token.expires_at

Expired(token) == clock >= token.expires_at

verify_token(header) == header.kind = "token" /\ ~ Expired(header)

authorize(role, minimum_role) == ROLE_LEVEL[role] >= ROLE_LEVEL[minimum_role]

Refuse(r, status) ==
  /\ Answer(r, status)
  /\ Increment("rejected")

Admit(r) ==
  /\ Move(r, [requests[r] EXCEPT !.stage = "admitted", !.at = clock])
  /\ UNCHANGED counters

Authenticate(r) ==
  LET req == requests[r] IN
  /\ req.stage = "sent"
  /\ \/ req.route \in Public /\ Admit(r)
     \/ req.route \notin Public /\ ~ conf.secret /\ Answer(r, 503) /\ UNCHANGED counters
     \/ /\ req.route \notin Public /\ conf.secret
        /\ IF ~ verify_token(req.header) THEN Refuse(r, 401)
           ELSE IF authorize(req.header.role, RouteRole[req.route]) THEN Admit(r)
           ELSE Refuse(r, 403)
  /\ UNCHANGED <<conf, clock, observed>>

\* Without its repository a call is unavailable: most routes look before they call the
\* service, and two leave it to the service.  The service checks the role again (a
\* PermissionError is counted like a refusal), and the repository commits, or not, and
\* returns or raises.
Serve(r) ==
  LET req == requests[r]
      lacking == req.route \in JobRoutes \cup DraftRoutes /\ ~ conf.durable
      barred == req.route \notin Public /\ ~ authorize(req.header.role, ServiceRole[req.route])
  IN
  /\ req.stage = "admitted"
  /\ IF barred /\ (lacking => req.route \in {"getClassification", "retryJob"})
     THEN Refuse(r, 403)
     ELSE IF lacking
     THEN Answer(r, 503) /\ UNCHANGED counters
     ELSE /\ \E result \in Results(req.route) :
               \E did \in CASE result = "ok" -> {req.route \in Writes}
                            [] result = "unavailable" -> {FALSE, req.route \in Writes}
                            [] OTHER -> {FALSE} :
                 Move(r, [req EXCEPT !.stage = "called", !.result = result, !.did = did])
          /\ UNCHANGED counters
  /\ UNCHANGED <<conf, clock, observed>>

\* Faulty: the route counts what it was asked to do.
RespondCountingCalls(r) ==
  /\ requests[r].stage = "called"
  /\ Answer(r, Status(requests[r].route, requests[r].result))
  /\ Increment(Operation(requests[r].route,
                         IF requests[r].route \in {"approve", "retryJob"} THEN "ok"
                         ELSE requests[r].result))
  /\ UNCHANGED <<conf, clock, observed>>

Respond(r) ==
  /\ requests[r].stage = "called"
  /\ Answer(r, Status(requests[r].route, requests[r].result))
  /\ Increment(Operation(requests[r].route, requests[r].result))
  /\ UNCHANGED <<conf, clock, observed>>

\* log_request, the middleware around it all.
ObserveRequest(r) ==
  /\ requests[r].stage = "answered"
  /\ Move(r, [requests[r] EXCEPT !.stage = "done"])
  /\ observed' = observed + 1
  /\ UNCHANGED <<conf, clock, counters>>

-----------------------------------------------------------------------------
(* Specification *)

TimePasses ==
  /\ clock < MaxTime /\ clock' = clock + 1
  /\ UNCHANGED <<conf, requests, counters, observed>>

\* The process dies and is started again; its clients learn nothing.
Crash ==
  /\ requests' = [r \in Requests |->
       IF requests[r].stage = "unsent" THEN requests[r]
       ELSE [requests[r] EXCEPT !.stage = IF @ = "done" THEN "past" ELSE "lost"]]
  /\ counters' = [o \in OPERATION_NAMES |-> 0]
  /\ observed' = 0
  /\ UNCHANGED <<conf, clock>>

ApiNext ==
  \/ TimePasses
  \/ Crash
  \/ \E r \in Requests :
       \/ Send(r)
       \/ RefuseMalformed(r)
       \/ Authenticate(r)
       \/ Serve(r)
       \/ Respond(r)
       \/ ObserveRequest(r)

ApiSpec == ApiInit /\ [][ApiNext]_apiVars

-----------------------------------------------------------------------------
(* Correctness *)

Policy ==
  [viewer   |-> {"listIncidents", "getIncident", "getJob", "getClassification", "getDraft"},
   operator |-> {"createJob", "createDraft", "approve", "reject"},
   admin    |-> {"retryJob"}]

\* No repository is reached, nor anything changed, by a request whose token was not good when
\* it was verified, or whose role is below the one the README's table gives the route; and the
\* service refuses nobody the route let in (README.md:83-93, auth.py:66, services.py:115).
NothingBeyondRole ==
  \A r \in Requests :
    LET req == requests[r] IN
    /\ req.result # "none" /\ req.route \notin Public =>
         /\ conf.secret /\ req.header.kind = "token" /\ req.at < req.header.expires_at
         /\ \E role \in Roles : /\ req.route \in Policy[role]
                               /\ ROLE_LEVEL[req.header.role] >= ROLE_LEVEL[role]
    /\ req.stage = "admitted" /\ req.route \notin Public =>
         authorize(req.header.role, ServiceRole[req.route])

\* A client may trust a definite answer: after success there is one change of its own, so that
\* every 202 for a classification has a job to itself, and after a 4xx there is none; only a 503
\* leaves open whether to look before repeating (postgres.py:271 creates one more job).
AnswersTellEffects ==
  \A r \in Requests :
    LET req == requests[r] IN
    req.status # 0 /\ req.route \in Writes =>
      /\ req.status \in {201, 202} => req.did
      /\ req.status = 200 => req.did # (req.result = "duplicate")
      /\ req.status \in 400..499 => ~ req.did
      /\ req.did => req.status \in {200, 201, 202, 503}

\* The counters of a process are the changes it committed and said so, and the requests it
\* refused: no overlap of requests loses or doubles one, a change whose acknowledgement was
\* lost is in none, and no request is in two (observability.py:40, api.py:268, 685, 740).
CountersTellEffects ==
  LET Answered == {r \in Requests : requests[r].stage \in {"answered", "done"}}
      Changed(route) ==
        Cardinality({r \in Answered : /\ requests[r].route = route /\ requests[r].did
                                      /\ requests[r].status < 300})
      Refused == Cardinality({r \in Answered : requests[r].status \in {401, 403}})
  IN  /\ counters["accepted"] = Changed("events")
      /\ counters["retried"] = Changed("retryJob")
      /\ counters["approved"] = Changed("approve")
      /\ counters["rejected"] = Changed("reject") + Refused
      /\ counters["accepted"] + counters["duplicate"] + counters["conflict"]
           + counters["rejected"] + counters["retried"] + counters["failed"]
           + counters["approved"] <= Cardinality(Answered)
      /\ observed = Cardinality({r \in Answered : requests[r].stage = "done"})
=============================================================================
