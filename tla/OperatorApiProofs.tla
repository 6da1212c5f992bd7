------------------------- MODULE OperatorApiProofs -------------------------
(***************************************************************************)
(* Proofs about the way of a request through the API, for any number of    *)
(* requests that overlap, any expiry times of their tokens and any crashes *)
(* of the process.                                                         *)
(***************************************************************************)
EXTENDS OperatorApi, FiniteSetTheorems, TLAPS

-----------------------------------------------------------------------------
(* The inductive invariant *)

\* Whom the route lets in.
Entitled(req) ==
  req.route \notin Public =>
    /\ conf.secret
    /\ req.header.kind = "token" /\ req.at < req.header.expires_at
    /\ req.header.role \in Roles
    /\ authorize(req.header.role, RouteRole[req.route])

\* What the repository may have done for a request, given the result it came back with.
MayHaveDone(req) ==
  /\ req.did => req.route \in Writes /\ req.result \in {"ok", "unavailable"}
  /\ req.result = "ok" /\ req.route \in Writes => req.did

\* A request that was not served has changed nothing and got no answer but a refusal; a served
\* one was entitled to it, and its answer, once it has one, is that of its result.
NotServed(req) ==
  /\ req.result = "none" /\ req.did = FALSE
  /\ req.status \in {0, 401, 403, 422, 503}

Served(req) ==
  /\ Entitled(req)
  /\ req.result \in Results(req.route)
  /\ MayHaveDone(req)
  /\ req.status \in {0, Status(req.route, req.result)}

RequestOK(req) ==
  /\ req.route \in Routes
  /\ \/ NotServed(req)
     \/ Served(req) /\ req.stage \notin {"unsent", "sent", "admitted"}
  /\ req.stage \in {"unsent", "sent", "admitted"} => req.status = 0
  /\ req.stage = "called" => req.result # "none" /\ req.status = 0
  /\ req.stage = "admitted" => Entitled(req)
  /\ req.stage \in {"answered", "done"} => req.status # 0

AnyResult == {"ok", "duplicate", "conflict", "unavailable", "invalidCursor", "missing"}

RequestType ==
  [stage : {"unsent", "sent", "admitted", "called", "answered", "done", "lost", "past"},
   route : Routes, header : {NoHeader, Forged} \cup Tokens, at : Nat,
   result : AnyResult \cup {"none"},
   did : BOOLEAN, status : Nat]

\* The counter an answered request is in.
CountedAs(req) ==
  IF req.stage \notin {"answered", "done"} THEN "none"
  ELSE IF req.status \in {401, 403} THEN "rejected"
  ELSE Operation(req.route, req.result)

In(o) == {r \in Requests : CountedAs(requests[r]) = o}
Done == {r \in Requests : requests[r].stage = "done"}

ApiType ==
  /\ clock \in Nat
  /\ requests \in [Requests -> RequestType]

ApiInv ==
  /\ ApiType
  /\ \A r \in Requests : RequestOK(requests[r])
  /\ counters = [o \in OPERATION_NAMES |-> Cardinality(In(o))]
  /\ observed = Cardinality(Done)

-----------------------------------------------------------------------------
(* Routes, results and what is counted *)

LEMMA RouteFacts ==
  ASSUME NEW route \in Routes, route \notin Public
  PROVE  /\ RouteRole[route] \in Roles /\ ServiceRole[route] = RouteRole[route]
         /\ route \in Policy[RouteRole[route]]
  BY DEF Routes, Public, RouteRole, ServiceRole, Roles, ROLE_LEVEL, Policy

LEMMA ResultFacts ==
  ASSUME NEW route \in Routes, NEW result \in Results(route)
  PROVE  /\ result \in AnyResult /\ result # "none"
         /\ result = "duplicate" => route \in {"events", "webhookPreview"}
  BY DEF Results, AnyResult

LEMMA StatusFacts ==
  ASSUME NEW route \in Routes, NEW result \in Results(route)
  PROVE  /\ result = "ok" => Status(route, result) \in {200, 201, 202}
         /\ result = "ok" /\ route \in {"events", "webhookPreview", "createDraft"} =>
              Status(route, result) = 201
         /\ result = "ok" /\ route \in {"createJob", "retryJob"} => Status(route, result) = 202
         /\ result = "ok" /\ route \in {"approve", "reject"} => Status(route, result) = 200
         /\ result = "duplicate" => Status(route, result) = 200
         /\ result = "unavailable" => Status(route, result) = 503
         /\ result \notin {"ok", "duplicate", "unavailable"} =>
              Status(route, result) \in {400, 404, 409}
  BY ResultFacts DEF Status, AnyResult

LEMMA ServedFacts ==
  ASSUME NEW req, req.route \in Routes, Served(req)
  PROVE  /\ req.result # "none" /\ req.status \notin {401, 403}
         /\ req.status \in Nat
  BY ResultFacts, StatusFacts DEF Served

\* One request at a time is answered, and counted once.
LEMMA CountOne ==
  ASSUME ApiInv, NEW r \in Requests, NEW new,
         requests' = [requests EXCEPT ![r] = new],
         CountedAs(requests[r]) = "none", Increment(CountedAs(new))
  PROVE  counters' = [o \in OPERATION_NAMES |-> Cardinality(In(o)')]
<1> SUFFICES ASSUME NEW o \in OPERATION_NAMES
             PROVE  counters'[o] = Cardinality(In(o)')
  BY DEF Increment
<1>1. counters[o] = Cardinality(In(o)) /\ o # "none" /\ r \notin In(o)
  BY DEF ApiInv, OPERATION_NAMES, In
<1>2. IsFiniteSet(In(o))
  <2>1. In(o) \in SUBSET Requests
    BY DEF In
  <2> QED
    BY <2>1, RequestsAssumption, FS_Subset
<1>3. requests \in [Requests -> RequestType]
  BY DEF ApiInv, ApiType
<1>4. CASE CountedAs(new) = o
  <2>1. In(o)' = In(o) \cup {r}
    BY <1>3, <1>4 DEF In
  <2>2. Cardinality(In(o) \cup {r}) = Cardinality(In(o)) + 1
    BY <1>1, <1>2, FS_AddElement
  <2> QED
    BY <1>1, <1>4, <2>1, <2>2 DEF Increment
<1>5. CASE CountedAs(new) # o
  <2>1. In(o)' = In(o)
    BY <1>1, <1>3, <1>5 DEF In
  <2> QED
    BY <1>1, <1>5, <2>1 DEF Increment
<1> QED
  BY <1>4, <1>5

LEMMA CountNone ==
  ASSUME ApiInv, UNCHANGED counters
  PROVE  Increment("none")
  BY DEF ApiInv, Increment, OPERATION_NAMES

-----------------------------------------------------------------------------
(* Steps *)

\* The request r becomes `new`.
LEMMA MoveInv ==
  ASSUME ApiInv, NEW r \in Requests, NEW new \in RequestType, RequestOK(new),
         Move(r, new), Increment(CountedAs(new)), CountedAs(requests[r]) = "none",
         requests[r].stage # "done", new.stage # "done",
         UNCHANGED <<conf, clock, observed>>
  PROVE  ApiInv'
<1>1. requests' = [requests EXCEPT ![r] = new] /\ requests \in [Requests -> RequestType]
  BY DEF Move, ApiInv, ApiType
<1>2. ApiType'
  BY <1>1 DEF ApiInv, ApiType
<1>3. ASSUME NEW q \in Requests PROVE RequestOK(requests[q])'
  <2>1. RequestOK(requests'[q])
    BY <1>1 DEF ApiInv
  <2>2. PICK req : req = requests'[q]
    OBVIOUS
  <2>3. RequestOK(req)'
    BY <2>1, <2>2 DEF RequestOK, NotServed, Served, Entitled
  <2> QED
    BY <2>2, <2>3
<1>4. Done' = Done
  BY <1>1 DEF Done
<1>5. counters' = [o \in OPERATION_NAMES |-> Cardinality(In(o)')]
  BY <1>1, CountOne
<1> QED
  BY <1>2, <1>3, <1>4, <1>5 DEF ApiInv

LEMMA RequestFacts ==
  ASSUME ApiInv, NEW r \in Requests
  PROVE  /\ requests[r] \in RequestType /\ RequestOK(requests[r])
         /\ requests[r].route \in Routes
         /\ requests[r].stage \notin {"answered", "done"} => CountedAs(requests[r]) = "none"
  BY DEF ApiInv, ApiType, RequestOK, CountedAs

LEMMA UnsentFacts ==
  /\ Unsent \in RequestType
  /\ Unsent.stage = "unsent" /\ Unsent.route = "openReads" /\ Unsent.result = "none"
  /\ Unsent.did = FALSE /\ Unsent.status = 0
  BY DEF Unsent, RequestType, AnyResult, Routes, Public

LEMMA SendInv == ASSUME ApiInv, NEW r \in Requests, Send(r) PROVE ApiInv'
<1>1. PICK route \in Routes :
        \E header \in IF route \in Public THEN {NoHeader} ELSE {NoHeader, Forged} \cup Tokens :
          Move(r, [Unsent EXCEPT !.stage = "sent", !.route = route, !.header = header])
  BY DEF Send
<1>2. PICK header \in {NoHeader, Forged} \cup Tokens :
        Move(r, [Unsent EXCEPT !.stage = "sent", !.route = route, !.header = header])
  BY <1>1
<1>3. PICK new : new = [Unsent EXCEPT !.stage = "sent", !.route = route, !.header = header]
  OBVIOUS
<1>4. /\ new \in RequestType /\ new.stage = "sent" /\ new.route = route
      /\ new.result = "none" /\ new.did = FALSE /\ new.status = 0
  BY <1>3, UnsentFacts DEF RequestType
<1>5. RequestOK(new) /\ CountedAs(new) = "none"
  BY <1>4 DEF RequestOK, NotServed, CountedAs
<1>6. /\ requests[r].stage = "unsent" /\ UNCHANGED <<conf, clock, observed>>
      /\ UNCHANGED counters
  BY DEF Send
<1> QED
  BY <1>2, <1>3, <1>4, <1>5, <1>6, CountNone, RequestFacts, MoveInv

\* A request is answered without having been served.
LEMMA RefusedInv ==
  ASSUME ApiInv, NEW r \in Requests, requests[r].stage \in {"sent", "admitted"},
         NEW status \in {401, 403, 422, 503}, Answer(r, status),
         \/ status \in {401, 403} /\ Increment("rejected")
         \/ status \in {422, 503} /\ UNCHANGED counters,
         UNCHANGED <<conf, clock, observed>>
  PROVE  ApiInv'
<1>1. PICK new : new = [requests[r] EXCEPT !.stage = "answered", !.status = status]
  OBVIOUS
<1>2. /\ requests[r] \in RequestType /\ NotServed(requests[r])
      /\ requests[r].route \in Routes /\ CountedAs(requests[r]) = "none"
  BY RequestFacts DEF RequestOK
<1>3. /\ new \in RequestType /\ new.stage = "answered" /\ new.status = status
      /\ new.route = requests[r].route
      /\ new.result = "none" /\ new.did = FALSE
  <2> DEFINE req == requests[r]
  <2>0. status \in Nat
    OBVIOUS
  <2>1. /\ req.result = "none" /\ req.did = FALSE
        /\ req \in RequestType /\ new = [req EXCEPT !.stage = "answered", !.status = status]
    BY <1>1, <1>2 DEF NotServed
  <2> HIDE DEF req
  <2>2. new \in RequestType
    BY <2>0, <2>1 DEF RequestType
  <2>3. /\ new.stage = "answered" /\ new.status = status
        /\ new.route = req.route /\ new.result = req.result
    BY <2>1 DEF RequestType
  <2>4. new.did = req.did
    BY <2>1 DEF RequestType
  <2> QED
    BY <2>1, <2>2, <2>3, <2>4 DEF req
<1>4. RequestOK(new)
  BY <1>2, <1>3 DEF RequestOK, NotServed
<1>5. CountedAs(new) = IF status \in {401, 403} THEN "rejected" ELSE "none"
  BY <1>3 DEF CountedAs, Operation
<1>6. Increment(CountedAs(new))
  BY <1>5, CountNone
<1>7. Move(r, new)
  BY <1>1 DEF Answer
<1> QED
  BY <1>2, <1>3, <1>4, <1>6, <1>7, MoveInv

LEMMA RefuseMalformedInv ==
  ASSUME ApiInv, NEW r \in Requests, RefuseMalformed(r)
  PROVE  ApiInv'
  BY RefusedInv DEF RefuseMalformed

LEMMA AdmitInv ==
  ASSUME ApiInv, NEW r \in Requests, requests[r].stage = "sent", Admit(r),
         UNCHANGED <<conf, clock, observed>>,
         requests[r].route \notin Public =>
           /\ conf.secret /\ verify_token(requests[r].header)
           /\ authorize(requests[r].header.role, RouteRole[requests[r].route])
  PROVE  ApiInv'
<1>1. PICK new : new = [requests[r] EXCEPT !.stage = "admitted", !.at = clock]
  OBVIOUS
<1>2. /\ requests[r] \in RequestType /\ NotServed(requests[r]) /\ requests[r].status = 0
      /\ requests[r].route \in Routes /\ CountedAs(requests[r]) = "none" /\ clock \in Nat
  BY RequestFacts DEF RequestOK, ApiInv, ApiType
<1>3. /\ new \in RequestType /\ new.stage = "admitted" /\ new.status = 0
      /\ new.route = requests[r].route /\ new.header = requests[r].header /\ new.at = clock
      /\ new.result = "none" /\ new.did = FALSE
  <2> DEFINE req == requests[r]
  <2>1. /\ req.result = "none" /\ req.did = FALSE /\ req.status = 0 /\ clock \in Nat
        /\ req \in RequestType /\ new = [req EXCEPT !.stage = "admitted", !.at = clock]
    BY <1>1, <1>2 DEF NotServed
  <2> HIDE DEF req
  <2>2. new \in RequestType
    BY <2>1 DEF RequestType
  <2>3. /\ new.stage = "admitted" /\ new.at = clock /\ new.status = req.status
        /\ new.route = req.route /\ new.header = req.header /\ new.result = req.result
    BY <2>1 DEF RequestType
  <2>4. new.did = req.did
    BY <2>1 DEF RequestType
  <2> QED
    BY <2>1, <2>2, <2>3, <2>4 DEF req
<1>4. Entitled(new)
  <2> SUFFICES ASSUME new.route \notin Public PROVE Entitled(new)
    BY DEF Entitled
  <2>1. /\ conf.secret /\ verify_token(new.header)
        /\ authorize(new.header.role, RouteRole[new.route])
    BY <1>3
  <2>2. new.header \in {NoHeader, Forged} \cup Tokens /\ new.header.kind = "token"
    BY <1>3, <2>1 DEF RequestType, verify_token
  <2>3. new.header \in Tokens
    BY <2>2 DEF NoHeader, Forged
  <2>4. new.header.role \in Roles /\ new.header.expires_at \in Nat
    BY <2>3, TimeAssumption DEF Tokens
  <2>5. new.at < new.header.expires_at
    BY <1>2, <1>3, <2>1, <2>4 DEF verify_token, Expired
  <2> QED
    BY <2>1, <2>2, <2>4, <2>5 DEF Entitled
<1>5. RequestOK(new) /\ CountedAs(new) = "none"
  BY <1>2, <1>3, <1>4 DEF RequestOK, NotServed, CountedAs
<1> QED
  BY <1>1, <1>2, <1>3, <1>5, CountNone, MoveInv DEF Admit

LEMMA AuthenticateInv ==
  ASSUME ApiInv, NEW r \in Requests, Authenticate(r)
  PROVE  ApiInv'
<1>1. requests[r].stage = "sent" /\ UNCHANGED <<conf, clock, observed>>
  BY DEF Authenticate
<1>2. CASE requests[r].route \in Public /\ Admit(r)
  BY <1>1, <1>2, AdmitInv
<1>3. CASE Answer(r, 503) /\ UNCHANGED counters
  BY <1>1, <1>3, RefusedInv
<1>4. CASE Refuse(r, 401) \/ Refuse(r, 403)
  BY <1>1, <1>4, RefusedInv DEF Refuse
<1>5. CASE /\ conf.secret /\ verify_token(requests[r].header)
           /\ authorize(requests[r].header.role, RouteRole[requests[r].route])
           /\ Admit(r)
  BY <1>1, <1>5, AdmitInv
<1> QED
  BY <1>2, <1>3, <1>4, <1>5 DEF Authenticate

LEMMA ServeInv == ASSUME ApiInv, NEW r \in Requests, Serve(r) PROVE ApiInv'
<1> DEFINE req == requests[r]
<1>1. req.stage = "admitted" /\ UNCHANGED <<conf, clock, observed>>
  BY DEF Serve
<1>2. CASE Refuse(r, 403)
  BY <1>1, <1>2, RefusedInv DEF Refuse
<1>3. CASE Answer(r, 503) /\ UNCHANGED counters
  BY <1>1, <1>3, RefusedInv
<1>4. CASE /\ \E result \in Results(req.route) :
                \E did \in CASE result = "ok" -> {req.route \in Writes}
                             [] result = "unavailable" -> {FALSE, req.route \in Writes}
                             [] OTHER -> {FALSE} :
                  Move(r, [req EXCEPT !.stage = "called", !.result = result, !.did = did])
           /\ UNCHANGED counters
  <2>1. PICK result \in Results(req.route) :
          \E did \in CASE result = "ok" -> {req.route \in Writes}
                       [] result = "unavailable" -> {FALSE, req.route \in Writes}
                       [] OTHER -> {FALSE} :
            Move(r, [req EXCEPT !.stage = "called", !.result = result, !.did = did])
    BY <1>4
  <2>2. PICK did \in BOOLEAN :
          /\ Move(r, [req EXCEPT !.stage = "called", !.result = result, !.did = did])
          /\ did => req.route \in Writes /\ result \in {"ok", "unavailable"}
          /\ result = "ok" /\ req.route \in Writes => did
    <3>1. PICK did \in CASE result = "ok" -> {req.route \in Writes}
                         [] result = "unavailable" -> {FALSE, req.route \in Writes}
                         [] OTHER -> {FALSE} :
            Move(r, [req EXCEPT !.stage = "called", !.result = result, !.did = did])
      BY <2>1
    <3>2. did \in BOOLEAN
      <4>1. CASE result = "ok"
        BY <4>1, <3>1
      <4>2. CASE result = "unavailable"
        <5>1. did \in {FALSE, req.route \in Writes}
          BY <4>2, <3>1
        <5>2. did = FALSE \/ did = (req.route \in Writes)
          BY <5>1, Zenon
        <5>3. CASE req.route \in Writes
          <6>1. did = FALSE \/ did = TRUE
            BY <5>2, <5>3
          <6> QED
            BY <6>1
        <5>4. CASE req.route \notin Writes
          <6>1. (req.route \in Writes) = FALSE
            BY <5>4
          <6>2. did = FALSE
            BY <5>2, <6>1, Zenon
          <6> QED
            BY <6>2
        <5> QED
          BY <5>3, <5>4
      <4>3. CASE result \notin {"ok", "unavailable"}
        BY <4>3, <3>1
      <4> QED
        BY <4>1, <4>2, <4>3
    <3>3. did => req.route \in Writes /\ result \in {"ok", "unavailable"}
      BY <3>1
    <3>4. result = "ok" /\ req.route \in Writes => did
      BY <3>1
    <3> QED
      BY <3>1, <3>2, <3>3, <3>4
  <2>3. PICK new : new = [req EXCEPT !.stage = "called", !.result = result, !.did = did]
    OBVIOUS
  <2>4. /\ req \in RequestType /\ NotServed(req) /\ req.status = 0 /\ Entitled(req)
        /\ req.route \in Routes /\ CountedAs(req) = "none"
    BY <1>1, RequestFacts DEF RequestOK
  <2>5. result \in AnyResult \cup {"none"}
    BY <2>4, ResultFacts
  <2>6. /\ new \in RequestType /\ new.stage = "called" /\ new.status = 0
        /\ new.route = req.route /\ new.header = req.header /\ new.at = req.at
        /\ new.result = result /\ new.did = did
    BY <2>3, <2>4, <2>5 DEF RequestType
  <2>7. Served(new) /\ new.result # "none"
    BY <2>2, <2>4, <2>6, ResultFacts DEF Served, Entitled, MayHaveDone
  <2>8. RequestOK(new) /\ CountedAs(new) = "none"
    BY <2>4, <2>6, <2>7 DEF RequestOK, CountedAs
  <2> QED
    BY <1>1, <1>4, <2>2, <2>3, <2>4, <2>6, <2>8, CountNone, MoveInv
<1> QED
  BY <1>2, <1>3, <1>4 DEF Serve

LEMMA RespondInv == ASSUME ApiInv, NEW r \in Requests, Respond(r) PROVE ApiInv'
<1> DEFINE req == requests[r]
           status == Status(req.route, req.result)
<1>1. /\ req.stage = "called" /\ Answer(r, status)
      /\ Increment(Operation(req.route, req.result))
      /\ UNCHANGED <<conf, clock, observed>>
  BY DEF Respond
<1>2. /\ req \in RequestType /\ Served(req) /\ req.route \in Routes /\ CountedAs(req) = "none"
      /\ req.result # "none"
  BY <1>1, RequestFacts DEF RequestOK, NotServed
<1>3. status \in {200, 201, 202, 400, 404, 409, 503}
  BY <1>2, StatusFacts DEF Served
<1>4. PICK new : new = [req EXCEPT !.stage = "answered", !.status = status]
  OBVIOUS
<1>5. /\ new \in RequestType /\ new.stage = "answered" /\ new.status = status
      /\ new.route = req.route /\ new.header = req.header /\ new.at = req.at
      /\ new.result = req.result /\ new.did = req.did
  <2>1. status \in Nat /\ req \in RequestType
    BY <1>2, <1>3
  <2> HIDE DEF req, status
  <2>2. new \in RequestType
    BY <1>4, <2>1 DEF RequestType
  <2>3. /\ new.stage = "answered" /\ new.status = status
        /\ new.route = req.route /\ new.header = req.header /\ new.at = req.at
        /\ new.result = req.result
    BY <1>4, <2>1 DEF RequestType
  <2>4. new.did = req.did
    BY <1>4, <2>1 DEF RequestType
  <2> QED
    BY <2>2, <2>3, <2>4
<1>6. Served(new)
  BY <1>2, <1>5 DEF Served, Entitled, MayHaveDone
<1>7. RequestOK(new)
  BY <1>2, <1>3, <1>5, <1>6 DEF RequestOK
<1>8. CountedAs(new) = Operation(req.route, req.result)
  BY <1>3, <1>5 DEF CountedAs
<1> QED
  BY <1>1, <1>2, <1>4, <1>5, <1>7, <1>8, MoveInv DEF Answer

LEMMA ObserveRequestInv ==
  ASSUME ApiInv, NEW r \in Requests, ObserveRequest(r)
  PROVE  ApiInv'
<1> DEFINE req == requests[r]
<1>1. PICK new : new = [req EXCEPT !.stage = "done"]
  OBVIOUS
<1>2. /\ req.stage = "answered" /\ requests' = [requests EXCEPT ![r] = new]
      /\ observed' = observed + 1 /\ UNCHANGED <<conf, clock, counters>>
      /\ requests \in [Requests -> RequestType]
  BY <1>1 DEF ObserveRequest, Move, ApiInv, ApiType
<1>3. /\ req \in RequestType /\ RequestOK(req)
  BY RequestFacts
<1>4. /\ new \in RequestType /\ new.stage = "done" /\ new.status = req.status
      /\ new.route = req.route /\ new.header = req.header /\ new.at = req.at
      /\ new.result = req.result /\ new.did = req.did
  BY <1>1, <1>3 DEF RequestType
<1>5. ApiType'
  BY <1>2, <1>4 DEF ApiInv, ApiType
<1>6. RequestOK(new)
  BY <1>2, <1>3, <1>4 DEF RequestOK, NotServed, Served, Entitled, MayHaveDone
<1>7. ASSUME NEW q \in Requests PROVE RequestOK(requests[q])'
  <2>1. RequestOK(requests'[q])
    BY <1>2, <1>6 DEF ApiInv
  <2>2. PICK known : known = requests'[q]
    OBVIOUS
  <2>3. RequestOK(known)'
    BY <1>2, <2>1, <2>2 DEF RequestOK, NotServed, Served, Entitled
  <2> QED
    BY <2>2, <2>3
<1>8. observed' = Cardinality(Done')
  <2>1. Done' = Done \cup {r} /\ r \notin Done
    BY <1>2, <1>4 DEF Done
  <2>2. IsFiniteSet(Done)
    <3>1. Done \in SUBSET Requests
      BY DEF Done
    <3> QED
      BY <3>1, RequestsAssumption, FS_Subset
  <2> QED
    BY <1>2, <2>1, <2>2, FS_AddElement DEF ApiInv
<1>9. \A o \in OPERATION_NAMES : In(o)' = In(o)
  <2>1. CountedAs(new) = CountedAs(req)
    BY <1>2, <1>4 DEF CountedAs
  <2> QED
    BY <1>2, <2>1 DEF In
<1> QED
  BY <1>2, <1>5, <1>7, <1>8, <1>9 DEF ApiInv

LEMMA CrashInv == ASSUME ApiInv, Crash PROVE ApiInv'
<1> DEFINE fate(q) == IF requests[q].stage = "unsent" THEN "unsent"
                      ELSE IF requests[q].stage = "done" THEN "past" ELSE "lost"
<1>1. ASSUME NEW q \in Requests
      PROVE  /\ requests'[q] \in RequestType /\ RequestOK(requests[q])'
             /\ requests'[q].stage \in {"unsent", "past", "lost"}
  <2>1. requests[q] \in RequestType /\ RequestOK(requests[q])
    BY RequestFacts
  <2>2. PICK stage \in {"unsent", "past", "lost"} : stage = fate(q)
    OBVIOUS
  <2>3. PICK new : new = [requests[q] EXCEPT !.stage = stage]
    OBVIOUS
  <2>4. requests'[q] = new
    <3>1. requests[q] = [requests[q] EXCEPT !.stage = requests[q].stage]
      BY <2>1 DEF RequestType
    <3> QED
      BY <2>2, <2>3, <3>1 DEF Crash
  <2>5. /\ new \in RequestType /\ new.stage = stage /\ new.status = requests[q].status
        /\ new.route = requests[q].route /\ new.header = requests[q].header
        /\ new.at = requests[q].at
        /\ new.result = requests[q].result /\ new.did = requests[q].did
    BY <2>1, <2>3 DEF RequestType
  <2>6. RequestOK(new)
    BY <2>1, <2>2, <2>5 DEF RequestOK, NotServed, Served, Entitled, MayHaveDone
  <2>7. RequestOK(new)'
    BY <2>6 DEF Crash, RequestOK, NotServed, Served, Entitled
  <2> QED
    BY <2>4, <2>5, <2>7
<1>2. ApiType'
  <2>1. requests' \in [Requests -> RequestType]
    <3>1. DOMAIN requests' = Requests /\ requests' = [q \in Requests |-> requests'[q]]
      BY DEF Crash
    <3> QED
      BY <1>1, <3>1
  <2> QED
    BY <2>1 DEF Crash, ApiInv, ApiType
<1>3. \A o \in OPERATION_NAMES : In(o)' = {}
  BY <1>1 DEF In, CountedAs, OPERATION_NAMES
<1>4. Done' = {}
  BY <1>1 DEF Done
<1>5. counters' = [o \in OPERATION_NAMES |-> Cardinality(In(o)')] /\ observed' = Cardinality(Done')
  BY <1>3, <1>4, FS_EmptySet DEF Crash
<1> QED
  BY <1>1, <1>2, <1>5 DEF ApiInv

LEMMA ApiInvStep == ApiInv /\ [ApiNext]_apiVars => ApiInv'
<1> SUFFICES ASSUME ApiInv, [ApiNext]_apiVars PROVE ApiInv'
  OBVIOUS
<1>1. ASSUME clock' \in Nat, UNCHANGED <<conf, requests, counters, observed>>
      PROVE  ApiInv'
  <2>1. \A r \in Requests : RequestOK(requests[r])'
    BY <1>1 DEF ApiInv, RequestOK, NotServed, Served, Entitled
  <2>2. Done' = Done /\ \A o \in OPERATION_NAMES : In(o)' = In(o)
    BY <1>1 DEF Done, In
  <2> QED
    BY <1>1, <2>1, <2>2 DEF ApiInv, ApiType
<1>2. CASE TimePasses
  BY <1>1, <1>2 DEF TimePasses, ApiInv, ApiType
<1>3. CASE UNCHANGED apiVars
  BY <1>1, <1>3 DEF apiVars, ApiInv, ApiType
<1> QED
  BY <1>2, <1>3, CrashInv, SendInv, RefuseMalformedInv, AuthenticateInv, ServeInv, RespondInv,
     ObserveRequestInv DEF ApiNext

LEMMA ApiInvInit == ApiInit => ApiInv
<1> SUFFICES ASSUME ApiInit PROVE ApiInv
  OBVIOUS
<1>1. ApiType
  BY UnsentFacts DEF ApiInit, ApiType
<1>2. \A r \in Requests : requests[r] = Unsent
  BY DEF ApiInit
<1>3. \A r \in Requests : RequestOK(requests[r])
  BY <1>2, UnsentFacts DEF RequestOK, NotServed, Routes, Public
<1>4. Done = {} /\ \A o \in OPERATION_NAMES : In(o) = {}
  BY <1>2, UnsentFacts DEF Done, In, CountedAs, OPERATION_NAMES
<1> QED
  BY <1>1, <1>3, <1>4, FS_EmptySet DEF ApiInit, ApiInv

LEMMA ApiInductive == ApiSpec => []ApiInv
  BY ApiInvInit, ApiInvStep, PTL DEF ApiSpec

-----------------------------------------------------------------------------
(* Theorems *)

\* For any number of overlapping requests, any expiries and crashes at any moment: nothing is
\* reached without a token that was good when it was looked at, nor below the role of the
\* README's table, and the second role check refuses nobody the first one admitted.
THEOREM RolesBind == ApiSpec => []NothingBeyondRole
<1>1. ASSUME ApiInv PROVE NothingBeyondRole
  <2> SUFFICES ASSUME NEW r \in Requests, requests[r].route \notin Public,
                      requests[r].result # "none" \/ requests[r].stage = "admitted"
               PROVE  /\ conf.secret /\ requests[r].header.kind = "token"
                      /\ requests[r].at < requests[r].header.expires_at
                      /\ \E role \in Roles :
                           /\ requests[r].route \in Policy[role]
                           /\ ROLE_LEVEL[requests[r].header.role] >= ROLE_LEVEL[role]
                      /\ authorize(requests[r].header.role, ServiceRole[requests[r].route])
    BY DEF NothingBeyondRole
  <2>1. Entitled(requests[r]) /\ requests[r].route \in Routes
    <3>1. RequestOK(requests[r]) /\ requests[r].route \in Routes
      BY <1>1, RequestFacts
    <3> QED
      BY <3>1 DEF RequestOK, NotServed, Served
  <2>2. /\ RouteRole[requests[r].route] \in Roles
        /\ ServiceRole[requests[r].route] = RouteRole[requests[r].route]
        /\ requests[r].route \in Policy[RouteRole[requests[r].route]]
    BY <2>1, RouteFacts
  <2> QED
    BY <2>1, <2>2 DEF Entitled, authorize
<1> QED
  BY <1>1, ApiInductive, PTL

\* For any number of overlapping requests and crashes at any moment: an answer tells its
\* client whether there is a change, unless it is a 503.
THEOREM AnswersTrusted == ApiSpec => []AnswersTellEffects
<1>1. ASSUME ApiInv PROVE AnswersTellEffects
  <2> SUFFICES ASSUME NEW r \in Requests, requests[r].status # 0, requests[r].route \in Writes
               PROVE  /\ requests[r].status \in {201, 202} => requests[r].did
                      /\ requests[r].status = 200 =>
                           requests[r].did # (requests[r].result = "duplicate")
                      /\ requests[r].status \in 400..499 => ~ requests[r].did
                      /\ requests[r].did => requests[r].status \in {200, 201, 202, 503}
    BY DEF AnswersTellEffects
  <2> DEFINE req == requests[r]
  <2>1. req.route \in Routes /\ (NotServed(req) \/ Served(req)) /\ req.did \in BOOLEAN
    BY <1>1, RequestFacts DEF RequestOK, RequestType
  <2>2. CASE NotServed(req)
    BY <2>2 DEF NotServed
  <2>3. CASE Served(req)
    <3>1. /\ req.result \in Results(req.route) /\ req.status = Status(req.route, req.result)
          /\ req.did => req.result \in {"ok", "unavailable"}
          /\ req.result = "ok" => req.did
      BY <2>3 DEF Served, MayHaveDone
    <3>2. /\ req.result = "ok" => req.status \in {200, 201, 202}
          /\ req.result = "duplicate" => req.status = 200
          /\ req.result = "unavailable" => req.status = 503
          /\ req.result \notin {"ok", "duplicate", "unavailable"} =>
               req.status \in {400, 404, 409}
      BY <2>1, <3>1, StatusFacts
    <3> HIDE DEF req
    <3>3. /\ req.status \in {201, 202} => req.result = "ok"
          /\ req.status = 200 => req.result \in {"ok", "duplicate"}
          /\ req.status \in 400..499 => req.result \notin {"ok", "unavailable"}
      BY <3>2
    <3>4. req.status = 200 => req.did # (req.result = "duplicate")
      <4>1. CASE req.result = "ok"
        BY <3>1, <4>1
      <4>2. CASE req.result = "duplicate"
        BY <2>1, <3>1, <4>2
      <4> QED
        BY <3>3, <4>1, <4>2
    <3>5. req.did => req.status \in {200, 201, 202, 503}
      BY <3>1, <3>2
    <3> QED
      BY <3>1, <3>3, <3>4, <3>5 DEF req
  <2> QED
    BY <2>1, <2>2, <2>3
<1> QED
  BY <1>1, ApiInductive, PTL

\* The two ways a request comes into a counter, for an answered request.
LEMMA CountedWhen ==
  ASSUME ApiInv, NEW r \in Requests, requests[r].stage \in {"answered", "done"}
  PROVE  LET req == requests[r]
             changed(route) == req.route = route /\ req.did /\ req.status < 300
         IN  /\ (CountedAs(req) = "accepted") <=> changed("events")
             /\ (CountedAs(req) = "retried") <=> changed("retryJob")
             /\ (CountedAs(req) = "approved") <=> changed("approve")
             /\ (CountedAs(req) = "rejected") <=>
                  (changed("reject") \/ req.status \in {401, 403})
             /\ req.status \in {401, 403} => ~ req.did
<1> DEFINE req == requests[r]
           changed(route) == req.route = route /\ req.did /\ req.status < 300
<1>1. /\ req.route \in Routes /\ (NotServed(req) \/ Served(req)) /\ req.status # 0
  BY RequestFacts DEF RequestOK
<1>2. CASE NotServed(req)
  <2>1. CountedAs(req) = IF req.status \in {401, 403} THEN "rejected" ELSE "none"
    BY <1>2 DEF CountedAs, NotServed, Operation
  <2> QED
    BY <1>2, <2>1 DEF NotServed
<1>3. CASE Served(req)
  <2>1. /\ req.result \in Results(req.route) /\ req.status = Status(req.route, req.result)
        /\ req.did => req.route \in Writes /\ req.result \in {"ok", "unavailable"}
        /\ req.result = "ok" /\ req.route \in Writes => req.did
    BY <1>1, <1>3 DEF Served, MayHaveDone
  <2>2. /\ req.result = "ok" => req.status < 300
        /\ req.result = "unavailable" => ~ (req.status < 300)
        /\ req.status \notin {401, 403}
    BY <1>1, <2>1, StatusFacts, ResultFacts
  <2>3. CountedAs(req) = Operation(req.route, req.result)
    BY <2>2 DEF CountedAs
  <2>4. req.route \in Writes => (req.did /\ req.status < 300 <=> req.result = "ok")
    BY <2>1, <2>2
  <2>5. {"events", "retryJob", "approve", "reject"} \subseteq Writes
    BY DEF Writes
  <2> HIDE DEF req
  <2>6. ASSUME NEW route \in {"events", "retryJob", "approve", "reject"}
        PROVE  changed(route) <=> (req.route = route /\ req.result = "ok")
    BY <2>4, <2>5
  <2>7. /\ (CountedAs(req) = "accepted") <=> (req.route = "events" /\ req.result = "ok")
        /\ (CountedAs(req) = "retried") <=> (req.route = "retryJob" /\ req.result = "ok")
        /\ (CountedAs(req) = "approved") <=> (req.route = "approve" /\ req.result = "ok")
        /\ (CountedAs(req) = "rejected") <=> (req.route = "reject" /\ req.result = "ok")
    BY <2>3 DEF Operation
  <2> HIDE DEF changed
  <2>8. /\ (CountedAs(req) = "accepted") <=> changed("events")
        /\ (CountedAs(req) = "retried") <=> changed("retryJob")
        /\ (CountedAs(req) = "approved") <=> changed("approve")
        /\ (CountedAs(req) = "rejected") <=> changed("reject")
    BY <2>6, <2>7
  <2> QED
    BY <2>2, <2>8 DEF changed, req
<1> QED
  BY <1>1, <1>2, <1>3

LEMMA DisjointUnion ==
  ASSUME NEW U, IsFiniteSet(U), NEW S \in SUBSET U, NEW T \in SUBSET U, S \cap T = {}
  PROVE  /\ Cardinality(S \cup T) = Cardinality(S) + Cardinality(T)
         /\ Cardinality(S) \in Nat /\ Cardinality(T) \in Nat
<1>1. IsFiniteSet(S) /\ IsFiniteSet(T)
  BY FS_Subset
<1>2. Cardinality(S) \in Nat /\ Cardinality(T) \in Nat
  BY <1>1, FS_CardinalityType
<1>3. Cardinality(S \cup T) = Cardinality(S) + Cardinality(T) - Cardinality(S \cap T)
  BY <1>1, FS_Union
<1>4. Cardinality(S \cap T) = 0
  BY FS_EmptySet
<1> QED
  BY <1>2, <1>3, <1>4

\* For any number of overlapping requests and crashes at any moment: the counters of a process
\* are the changes it has acknowledged and the requests it has refused, none of them twice.
THEOREM CountersExact == ApiSpec => []CountersTellEffects
<1>1. ASSUME ApiInv PROVE CountersTellEffects
  <2> DEFINE Answered == {r \in Requests : requests[r].stage \in {"answered", "done"}}
             Changed(route) == {r \in Answered : /\ requests[r].route = route /\ requests[r].did
                                                 /\ requests[r].status < 300}
             Refused == {r \in Answered : requests[r].status \in {401, 403}}
  <2>1. /\ In("accepted") = Changed("events") /\ In("retried") = Changed("retryJob")
        /\ In("approved") = Changed("approve")
        /\ In("rejected") = Changed("reject") \cup Refused
        /\ Changed("reject") \cap Refused = {}
    <3>1. ASSUME NEW o \in OPERATION_NAMES, NEW r \in In(o)
          PROVE  r \in Answered
      BY <3>1 DEF In, CountedAs, OPERATION_NAMES
    <3>2. {"accepted", "retried", "approved", "rejected"} \subseteq OPERATION_NAMES
      BY DEF OPERATION_NAMES
    <3> QED
      BY <1>1, <3>1, <3>2, CountedWhen DEF In
  <2>2. \A o \in OPERATION_NAMES : counters[o] = Cardinality(In(o))
    BY <1>1 DEF ApiInv
  <2>3. IsFiniteSet(Answered) /\ Answered \in SUBSET Requests
    BY RequestsAssumption, FS_Subset
  <2>4. Cardinality(Changed("reject") \cup Refused)
          = Cardinality(Changed("reject")) + Cardinality(Refused)
    <3>1. Changed("reject") \in SUBSET Answered /\ Refused \in SUBSET Answered
      OBVIOUS
    <3> HIDE DEF Changed, Refused, Answered
    <3> QED
      BY <2>1, <2>3, <3>1, DisjointUnion
  <2>5. Cardinality(In("accepted")) + Cardinality(In("duplicate")) + Cardinality(In("conflict"))
          + Cardinality(In("rejected")) + Cardinality(In("retried")) + Cardinality(In("failed"))
          + Cardinality(In("approved")) <= Cardinality(Answered)
    <3>1. \A o \in OPERATION_NAMES : In(o) \in SUBSET Answered
      BY DEF In, CountedAs, OPERATION_NAMES
    <3>2. \A o, p \in OPERATION_NAMES : o # p => In(o) \cap In(p) = {}
      BY DEF In
    <3> DEFINE A == In("accepted") \cup In("duplicate")
               B == A \cup In("conflict")
               C == B \cup In("rejected")
               D == C \cup In("retried")
               E == D \cup In("failed")
               F == E \cup In("approved")
    <3> HIDE DEF Answered
    <3>3. /\ {"accepted", "duplicate", "conflict", "rejected", "retried", "failed", "approved"}
               \subseteq OPERATION_NAMES
      BY DEF OPERATION_NAMES
    <3>4. /\ A \in SUBSET Answered /\ B \in SUBSET Answered /\ C \in SUBSET Answered
          /\ D \in SUBSET Answered /\ E \in SUBSET Answered /\ F \in SUBSET Answered
      BY <3>1, <3>3
    <3>5. /\ A \cap In("conflict") = {} /\ B \cap In("rejected") = {}
          /\ C \cap In("retried") = {} /\ D \cap In("failed") = {}
          /\ E \cap In("approved") = {}
      BY <3>2, <3>3
    <3>6. ASSUME NEW S \in SUBSET Answered, NEW o \in OPERATION_NAMES, S \cap In(o) = {}
           PROVE  Cardinality(S \cup In(o)) = Cardinality(S) + Cardinality(In(o))
      BY <2>3, <3>1, <3>6, DisjointUnion
    <3>7. Cardinality(A) = Cardinality(In("accepted")) + Cardinality(In("duplicate"))
      BY <3>1, <3>2, <3>3, <3>6
    <3> HIDE DEF A
    <3>8. Cardinality(B) = Cardinality(A) + Cardinality(In("conflict"))
      BY <3>3, <3>4, <3>5, <3>6
    <3> HIDE DEF B
    <3>9. Cardinality(C) = Cardinality(B) + Cardinality(In("rejected"))
      BY <3>3, <3>4, <3>5, <3>6
    <3> HIDE DEF C
    <3>10. Cardinality(D) = Cardinality(C) + Cardinality(In("retried"))
      BY <3>3, <3>4, <3>5, <3>6
    <3> HIDE DEF D
    <3>11. Cardinality(E) = Cardinality(D) + Cardinality(In("failed"))
      BY <3>3, <3>4, <3>5, <3>6
    <3> HIDE DEF E
    <3>12. Cardinality(F) = Cardinality(E) + Cardinality(In("approved"))
      BY <3>3, <3>4, <3>5, <3>6
    <3>13. Cardinality(F) <= Cardinality(Answered)
      BY <2>3, <3>4, FS_Subset
    <3> QED
      BY <3>7, <3>8, <3>9, <3>10, <3>11, <3>12, <3>13
  <2>6. observed = Cardinality({r \in Answered : requests[r].stage = "done"})
    <3>1. Done = {r \in Answered : requests[r].stage = "done"}
      BY DEF Done
    <3> QED
      BY <1>1, <3>1 DEF ApiInv
  <2>7. {"accepted", "duplicate", "conflict", "rejected", "retried", "failed", "approved"}
          \subseteq OPERATION_NAMES
    BY DEF OPERATION_NAMES
  <2>8. /\ counters["accepted"] = Cardinality(Changed("events"))
        /\ counters["retried"] = Cardinality(Changed("retryJob"))
        /\ counters["approved"] = Cardinality(Changed("approve"))
        /\ counters["rejected"] = Cardinality(Changed("reject")) + Cardinality(Refused)
    <3> HIDE DEF Changed, Refused, Answered
    <3> QED
      BY <2>1, <2>2, <2>4, <2>7
  <2>9. counters["accepted"] + counters["duplicate"] + counters["conflict"]
          + counters["rejected"] + counters["retried"] + counters["failed"]
          + counters["approved"] <= Cardinality(Answered)
    <3> HIDE DEF Answered
    <3> QED
      BY <2>2, <2>5, <2>7
  <2> QED
    BY <2>6, <2>8, <2>9 DEF CountersTellEffects
<1> QED
  BY <1>1, ApiInductive, PTL
=============================================================================
