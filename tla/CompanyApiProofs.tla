-------------------------- MODULE CompanyApiProofs --------------------------
(***************************************************************************)
(* Theorems about CompanyApi, for every set of clients, messages, ids and  *)
(* texts and for any number of failures.                                   *)
(*                                                                         *)
(* The interface is a client of the service: each of its steps is a step   *)
(* of CompanyStore or leaves it alone, so what CompanyStoreProofs proves   *)
(* holds here.  What is added ties three things together for each          *)
(* connection: the message it carries, the event its request has written,  *)
(* and what the outbox held when the message was accepted.                 *)
(***************************************************************************)
EXTENDS CompanyApi, CompanyStoreProofs, OrderLemmas

-----------------------------------------------------------------------------
(***************************************************************************)
(* The service below the interface.                                        *)
(***************************************************************************)
\* A request that may be passed on is one the service is specified for.
LEMMA CallIsArrival ==
    ASSUME NEW t \in Clients, NEW m \in Messages, Handle(t, m)
    PROVE  Arrive(t)
BY MessageAssumption DEF Handle, CallService, Arrive

LEMMA ApiStep == [ApiNext]_allVars => [Next]_vars
<1> SUFFICES ASSUME [ApiNext]_allVars PROVE [Next]_vars
  OBVIOUS
<1>1. ASSUME NEW t \in Clients, NEW m \in Messages, Handle(t, m) PROVE Next
  BY <1>1, CallIsArrival DEF Next
<1>2. ASSUME NEW t \in Clients, NEW m \in Messages, Unauthorized(t, m) \/ BadRequest(t, m)
      PROVE  UNCHANGED vars
  BY <1>2 DEF Unauthorized, BadRequest, TurnAway
<1>3. ASSUME NEW t \in Clients, Serve(t) PROVE Next
  BY <1>3 DEF Serve, Next
<1>4. ASSUME NEW t \in Clients, Respond(t) PROVE UNCHANGED vars
  BY <1>4 DEF Respond
<1>5. CASE Die
  BY <1>5 DEF Die, Next
<1>6. CASE UNCHANGED allVars
  BY <1>6 DEF allVars
<1> QED BY <1>1, <1>2, <1>3, <1>4, <1>5, <1>6 DEF ApiNext

\* The interface uses the service only as CompanyStore specifies: all that is
\* proved of the service holds below it (handlers.go:40-164).
THEOREM ApiKeepsStore == ApiSpec => Spec
<1>1. ApiInit => Init
  BY DEF ApiInit
<1> QED BY <1>1, ApiStep, PTL DEF ApiSpec, Spec

LEMMA ApiInv == ApiSpec => []IInv
BY ApiKeepsStore, Invariance, PTL

-----------------------------------------------------------------------------
(***************************************************************************)
(* The invariant of a connection.                                          *)
(***************************************************************************)
\* The reasons for which the service may refuse an operation.
Reasons(op) ==
    {"internal"} \cup
    CASE op = "create" -> {"invalid", "duplicateName", "duplicateId"}
      [] op = "patch"  -> {"invalid", "emptyPatch", "notFound", "duplicateName"}
      [] op = "delete" -> {"notFound"}
      [] op = "get"    -> {"notFound"}

OpOf(m) == CASE m.method = "POST"   -> "create"
             [] m.method = "PATCH"  -> "patch"
             [] m.method = "DELETE" -> "delete"
             [] m.method = "GET"    -> "get"

Shown(b, f) == IF f \in {"name", "description"} THEN TrimSpace[b[f]] ELSE b[f]

\* Company c has every field the body b gives.
Carries(b, c) == \A f \in PatchFields : b[f] # Nil => c[f] = Shown(b, f)

\* Event e is what message m asks for.
Matches(m, e) ==
    /\ NeedsToken(m) => Authorized(m)
    /\ e.type = EventType(OpOf(m))
    /\ e.company.id = IdOf(m)
    /\ m.method # "GET"
    /\ m.method \in {"POST", "PATCH"} => Carries(m.body, e.company)

\* While the service is at work.
AtWork(t) ==
    pc[t] # "idle" =>
        /\ status[t] = Pending
        /\ message[t] \in Messages
        /\ MayCallService(message[t])
        /\ req[t] = ToRequest(message[t])
        /\ pc[t] = "lookupId" => req[t].op # "create"
        /\ pc[t] = "lookupName" /\ req[t].op = "create" => Carries(req[t].body, local[t])
        /\ pc[t] \in {"write"} \cup Writing /\ req[t].op \in {"create", "patch"} =>
             Carries(req[t].body, local[t])
        /\ pc[t] # "commit" => event[t] = Nil

\* Between the end of the service's work and the answer.
Settled(t) ==
    pc[t] = "idle" /\ status[t] = Pending =>
        /\ message[t] \in Messages
        /\ reply[t] \in {"ok"} \cup Reasons(OpOf(message[t]))
        /\ reply[t] = "ok" /\ message[t].method # "GET" =>
             TookEffect(t) /\ event[t].company = local[t]
        /\ reply[t] \notin {"ok", "internal"} => event[t] = Nil

\* After the answer.
Answered(t) ==
    /\ status[t] \notin {Nil, Pending, Cut} =>
         message[t] \in Messages /\ status[t] \in Documented(message[t].method)
    /\ status[t] \in {200, 201, 204} /\ message[t].method # "GET" =>
         TookEffect(t) /\ event[t].company = local[t]
    /\ status[t] \in {400, 401, 404, 409} => event[t] = Nil \/ event[t] \in seen[t]

\* The event a client has in hand is an old one, or what its message asks for.
EventKnown(t) ==
    /\ seen[t] \subseteq outbox
    /\ pc[t] = "idle" /\ event[t] # Nil => event[t] \in outbox
    /\ pc[t] = "idle" /\ event[t] # Nil /\ event[t] \notin seen[t] =>
         message[t] \in Messages /\ Matches(message[t], event[t])

Connection(t) == AtWork(t) /\ Settled(t) /\ Answered(t) /\ EventKnown(t)

ApiIInv == ApiTypeOK /\ \A t \in Clients : Connection(t)

-----------------------------------------------------------------------------
(***************************************************************************)
(* From a message to the company in memory.                                *)
(***************************************************************************)
\* What the service is asked for is what the message says (dto.go:38-86).
LEMMA RequestOf ==
    ASSUME NEW m \in Messages, MayCallService(m)
    PROVE  /\ ToRequest(m) \in Requests
           /\ ToRequest(m).op = OpOf(m)
           /\ ToRequest(m).id = IdOf(m)
           /\ m.method \in Methods
           /\ \A c : m.method \in {"POST", "PATCH"} /\ Carries(ToRequest(m).body, c)
                       => Carries(m.body, c)
<1>1. ToRequest(m) \in Requests /\ m.method \in Methods
  BY MessageAssumption DEF Message
<1>2. ToRequest(m).op = OpOf(m) /\ ToRequest(m).id = IdOf(m)
  BY <1>1 DEF ToRequest, OpOf, IdOf, Methods
<1>3. CASE m.method = "POST"
  <2> DEFINE b == [m.body EXCEPT !.description = IF @ = Nil THEN EmptyString ELSE @]
  <2>1. ToRequest(m).body = b
    BY <1>3 DEF ToRequest
  <2>2. m.body \in CreateBody
    BY <1>3, MessageAssumption DEF MayCallService, Decodes
  <2>3. ASSUME NEW f \in PatchFields, m.body[f] # Nil PROVE b[f] = m.body[f]
    BY <2>2, <2>3 DEF CreateBody, PatchFields
  <2> HIDE DEF b
  <2>4. ASSUME NEW f \in PatchFields, m.body[f] # Nil PROVE Shown(b, f) = Shown(m.body, f)
    BY <2>3, <2>4 DEF Shown
  <2>5. ASSUME NEW c, Carries(b, c) PROVE Carries(m.body, c)
    BY <2>3, <2>4, <2>5 DEF Carries
  <2> QED BY <1>1, <1>2, <2>1, <2>5
<1>4. CASE m.method = "PATCH"
  BY <1>1, <1>2, <1>4 DEF ToRequest
<1>5. CASE m.method \notin {"POST", "PATCH"}
  BY <1>1, <1>2, <1>5
<1> QED BY <1>3, <1>4, <1>5

\* A company NewWithID returns carries its input (company.go:39-57).
LEMMA NewCarries ==
    ASSUME NEW i \in Company, NewWithID(i).errors = {}
    PROVE  Carries(i, NewWithID(i).company)
<1> DEFINE c == NewWithID(i).company
<1>1. /\ c.name = TrimSpace[i.name]
      /\ c.description = TrimSpace[i.description]
      /\ c.amount = i.amount
      /\ c.registered = i.registered
      /\ c.type = i.type
  BY NewIsTrimmed
<1> HIDE DEF c
<1>2. Carries(i, c)
  BY <1>1 DEF Carries, Shown, PatchFields
<1> QED BY <1>2 DEF c

\* A patch that is accepted has been applied whole (company.go:73-123).
LEMMA PatchCarries ==
    ASSUME NEW c, NEW p \in Patch, ApplyPatch(c, p).errors = {}
    PROVE  Carries(p, ApplyPatch(c, p).company)
<1>1. ApplyPatch(c, p).company = Overlay(c, p)
  BY DEF ApplyPatch
<1>2. Offending(p) = {}
  BY FirstOffence DEF ApplyPatch
<1>3. \A f : Assigned(p, f) <=> p[f] # Nil
  BY <1>2, WholePatch
<1>4. Carries(p, Overlay(c, p))
  BY <1>3 DEF Carries, Overlay, Shown, PatchFields
<1> QED BY <1>1, <1>4

-----------------------------------------------------------------------------
(***************************************************************************)
(* The steps of the service on behalf of one connection, by what they do   *)
(* to it.                                                                  *)
(***************************************************************************)
Refuses(t) == \E a \in Reasons(req[t].op) : Rollback(t, a)

\* The next statement comes before the event is stored.
Advances(t) ==
    /\ pc[t] \in {"lookupId", "lookupName", "write", "claimName"}
    /\ pc'[t] \in {"lookupName", "write", "claimName", "store"}
    /\ pc'[t] = "lookupName" => req[t].op = "patch"
    /\ req[t].op \in {"create", "patch"} /\ pc'[t] # "lookupName" =>
         Carries(req[t].body, local'[t])
    /\ UNCHANGED <<req, event, reply, outbox>>

Stores(t) ==
    /\ pc[t] = "store"
    /\ pc'[t] = "commit"
    /\ UNCHANGED <<req, local, outbox>>

Commits(t) ==
    /\ pc[t] = "commit"
    /\ Install(t)
    /\ Finish(t, "ok") \/ Finish(t, "internal")
    /\ UNCHANGED <<req, local, event>>

Shows(t) ==
    /\ pc[t] = "lookupId"
    /\ req[t].op = "get"
    /\ Finish(t, "ok")
    /\ UNCHANGED <<outbox, req, event>>

LEMMA ServeCases ==
    ASSUME IInv, NEW t \in Clients, AtWork(t), Work(t) \/ Fail(t) \/ CommitUnacked(t)
    PROVE  Refuses(t) \/ Advances(t) \/ Stores(t) \/ Commits(t) \/ Shows(t)
<1>1. TypeOK
  BY DEF IInv
<1> USE <1>1 DEF TypeOK
<1>2. ASSUME pc[t] # "idle"
      PROVE  req[t] \in Requests /\ req[t].op \in Ops
  BY <1>2, RequestType DEF IInv, PerClient, ClientOK
<1>3. ASSUME Rollback(t, "internal") PROVE Refuses(t)
  BY <1>3 DEF Refuses, Reasons
<1>4. ASSUME NEW c, pc[t] \in {"lookupId", "lookupName"}, req[t].op = "patch",
             ApplyPatchTo(t, c)
      PROVE  Refuses(t) \/ Advances(t)
  <2>1. CASE ApplyPatch(c, req[t].body).errors # {}
    BY <1>4, <2>1 DEF ApplyPatchTo, Refuses, Reasons
  <2>2. CASE ApplyPatch(c, req[t].body).errors = {}
    <3>1. req[t].body \in Patch
      BY <1>2, <1>4, RequestType
    <3>2. Carries(req[t].body, ApplyPatch(c, req[t].body).company)
      BY <2>2, <3>1, PatchCarries
    <3>3. Proceed(t, ApplyPatch(c, req[t].body).company, "write")
      BY <1>4, <2>2 DEF ApplyPatchTo
    <3> QED BY <1>4, <3>2, <3>3 DEF Proceed, Advances, database
  <2> QED BY <2>1, <2>2
<1>5. CASE GetByID(t)
  <2> DEFINE id == req[t].id
  <2>0. pc[t] = "lookupId" /\ req[t].op \in {"patch", "delete", "get"}
    BY <1>2, <1>5 DEF GetByID, AtWork, Ops
  <2>1. CASE Rollback(t, "notFound")
    BY <2>0, <2>1 DEF Refuses, Reasons
  <2>2. CASE req[t].op = "get" /\ Finish(t, "ok") /\ UNCHANGED <<database, clock, req, event>>
    BY <2>0, <2>2 DEF Shows, database
  <2>3. CASE req[t].op = "delete" /\ Proceed(t, rows[id], "write")
    BY <2>0, <2>3 DEF Advances, Proceed, database
  <2>4. CASE req[t].op = "patch" /\ Proceed(t, rows[id], "lookupName")
    BY <2>0, <2>4 DEF Advances, Proceed, database
  <2>5. CASE req[t].op = "patch" /\ ApplyPatchTo(t, rows[id])
    BY <2>0, <2>5, <1>4
  <2> QED BY <1>5, <2>1, <2>2, <2>3, <2>4, <2>5 DEF GetByID
<1>6. CASE GetByName(t)
  <2>1. pc[t] = "lookupName"
    BY <1>6 DEF GetByName
  <2>2. CASE \/ Rollback(t, "duplicateName") /\ req[t].op \in {"create", "patch"}
             \/ Rollback(t, "internal")
    BY <2>2 DEF Refuses, Reasons
  <2>3. CASE req[t].op = "create" /\ Proceed(t, local[t], "write")
    BY <2>1, <2>3 DEF Advances, Proceed, database, AtWork
  <2>4. CASE req[t].op = "patch" /\ ApplyPatchTo(t, local[t])
    BY <2>1, <2>4, <1>4
  <2> QED BY <1>6, <2>2, <2>3, <2>4 DEF GetByName
<1>7. CASE InsertRow(t) \/ UpdateRow(t) \/ DeleteRow(t)
  <2>1. pc[t] = "write"
    BY <1>7 DEF InsertRow, UpdateRow, DeleteRow
  <2>2. CASE LockRow(t, "claimName") \/ LockRow(t, "store")
    BY <2>1, <2>2 DEF LockRow, Advances, AtWork, database
  <2>3. CASE Rollback(t, "duplicateId") /\ req[t].op = "create"
    BY <2>3 DEF Refuses, Reasons
  <2>4. CASE Rollback(t, "notFound") /\ req[t].op \in {"patch", "delete"}
    BY <2>4 DEF Refuses, Reasons
  <2> QED BY <1>7, <1>3, <2>2, <2>3, <2>4 DEF InsertRow, UpdateRow, DeleteRow
<1>8. CASE ClaimName(t)
  <2>1. pc[t] = "claimName" /\ req[t].op \in {"create", "patch"}
    BY <1>8 DEF ClaimName, IInv, PerClient, ClientOK, Writing
  <2>2. CASE Rollback(t, "duplicateName")
    BY <2>1, <2>2 DEF Refuses, Reasons
  <2>3. CASE pc' = [pc EXCEPT ![t] = "store"] /\ UNCHANGED <<database, req, local, event, reply>>
    BY <2>1, <2>3 DEF Advances, AtWork, Writing, database
  <2> QED BY <1>8, <2>2, <2>3 DEF ClaimName
<1>9. CASE StoreEvent(t)
  BY <1>9 DEF StoreEvent, Stores, database
<1>10. CASE Commit(t) \/ CommitUnacked(t)
  BY <1>10 DEF Commit, CommitUnacked, Commits
<1>11. CASE AbortDeadlock(t) \/ Fail(t)
  BY <1>11, <1>3 DEF AbortDeadlock, Fail
<1> QED BY <1>5, <1>6, <1>7, <1>8, <1>9, <1>10, <1>11 DEF Work

-----------------------------------------------------------------------------
(***************************************************************************)
(* The connections.                                                        *)
(***************************************************************************)
\* A connection nothing happens on keeps what is known of it.
LEMMA ConnectionStays ==
    ASSUME NEW u \in Clients, Connection(u), outbox \subseteq outbox',
           pc'[u] = pc[u], req'[u] = req[u], local'[u] = local[u], event'[u] = event[u],
           reply'[u] = reply[u],
           message'[u] = message[u], status'[u] = status[u], seen'[u] = seen[u]
    PROVE  Connection(u)'
<1>1. AtWork(u)'
  BY DEF Connection, AtWork
<1>2. Settled(u)'
  BY DEF Connection, Settled, TookEffect
<1>3. Answered(u)'
  BY DEF Connection, Answered, TookEffect
<1>4. EventKnown(u)'
  BY DEF Connection, EventKnown
<1> QED BY <1>1, <1>2, <1>3, <1>4 DEF Connection

\* A request that changed nothing and is not at work any more.
LEMMA RefusedConnection ==
    ASSUME NEW t \in Clients, message'[t] \in Messages, status'[t] = Pending,
           NEW a \in Reasons(OpOf(message'[t])), a # "ok",
           pc'[t] = "idle", reply'[t] = a, event'[t] = Nil, seen'[t] \subseteq outbox'
    PROVE  Connection(t)'
BY DEF Connection, AtWork, Settled, Answered, EventKnown, Pending, Cut

\* The event of an unfinished transaction is in nobody's sight.
LEMMA EventIsNew ==
    ASSUME IInv, NEW t \in Clients, pc[t] = "commit"
    PROVE  /\ event[t] \in Event
           /\ event[t] \notin outbox
           /\ event[t].type = EventType(req[t].op)
           /\ event[t].company = local[t]
           /\ local[t].id = req[t].id
           /\ req[t].op \in {"create", "patch", "delete"}
<1>1. EventOK(t) /\ ClientOK(t)
  BY DEF IInv, PerClient
<1>2. /\ event[t] \in Event
      /\ event[t].type = EventType(req[t].op)
      /\ event[t].company = local[t]
      /\ \A e \in EventsOf(req[t].id) : e.at < event[t].at
      /\ local[t].id = req[t].id
      /\ req[t].op \in {"create", "patch", "delete"}
  BY <1>1 DEF EventOK, ClientOK, Writing
<1>3. event[t] \notin outbox
  <2>1. SUFFICES ASSUME event[t] \in outbox PROVE FALSE
    OBVIOUS
  <2>2. event[t] \in EventsOf(req[t].id)
    BY <1>2, <2>1 DEF EventsOf
  <2>3. event[t].at \in Nat
    BY <1>2 DEF Event
  <2> QED BY <1>2, <2>2, <2>3
<1> QED BY <1>2, <1>3

\* The service ends or goes on with its work.
LEMMA ServeKeeps ==
    ASSUME IInv, ApiTypeOK, NEW t \in Clients, Connection(t), Serve(t)
    PROVE  Connection(t)'
<1>1. TypeOK
  BY DEF IInv
<1> USE <1>1 DEF TypeOK
<1> DEFINE m == message[t]
<1>2. /\ pc[t] # "idle"
      /\ AtWork(t)
  <2>1. pc[t] # "idle"
    BY DEF Serve, Work, Fail, CommitUnacked, GetByID, GetByName, InsertRow, UpdateRow, DeleteRow,
           ClaimName, StoreEvent, Commit, AbortDeadlock, InTransaction
  <2> QED BY <2>1 DEF Connection
<1>3. /\ status[t] = Pending
      /\ m \in Messages
      /\ MayCallService(m)
      /\ req[t] = ToRequest(m)
      /\ seen[t] \subseteq outbox
  BY <1>2 DEF AtWork, Connection, EventKnown
<1>4. UNCHANGED <<message, status, seen>>
  BY DEF Serve, apiVars
<1>5. /\ req[t].op = OpOf(m)
      /\ req[t].id = IdOf(m)
      /\ m.method \in Methods
      /\ \A c : m.method \in {"POST", "PATCH"} /\ Carries(req[t].body, c) => Carries(m.body, c)
  BY <1>3, RequestOf
<1>6. CASE Refuses(t)
  <2>1. PICK a \in Reasons(req[t].op) : Rollback(t, a)
    BY <1>6 DEF Refuses
  <2>2. /\ pc'[t] = "idle"
        /\ reply'[t] = a
        /\ event'[t] = Nil
        /\ outbox' = outbox
    BY <2>1 DEF Rollback, Finish
  <2>3. a # "ok"
    BY <1>5 DEF Reasons, OpOf, Methods
  <2> QED BY <1>3, <1>4, <1>5, <2>2, <2>3, RefusedConnection
<1>7. CASE Advances(t)
  <2>1. AtWork(t)'
    BY <1>2, <1>3, <1>4, <1>7 DEF AtWork, Advances, Writing
  <2>2. Settled(t)' /\ Answered(t)' /\ EventKnown(t)'
    BY <1>3, <1>4, <1>7 DEF Advances, Settled, Answered, EventKnown, Pending, Cut
  <2> QED BY <2>1, <2>2 DEF Connection
<1>8. CASE Stores(t)
  <2>1. AtWork(t)'
    BY <1>2, <1>3, <1>4, <1>8 DEF AtWork, Stores, Writing
  <2>2. Settled(t)' /\ Answered(t)' /\ EventKnown(t)'
    BY <1>3, <1>4, <1>8 DEF Stores, Settled, Answered, EventKnown, Pending, Cut
  <2> QED BY <2>1, <2>2 DEF Connection
<1>9. CASE Commits(t)
  <2>1. /\ event[t] \in Event
        /\ event[t] \notin outbox
        /\ event[t].type = EventType(req[t].op)
        /\ event[t].company = local[t]
        /\ local[t].id = req[t].id
        /\ req[t].op \in {"create", "patch", "delete"}
    BY <1>9, EventIsNew DEF Commits
  <2>2. /\ pc'[t] = "idle"
        /\ reply'[t] \in {"ok", "internal"}
        /\ event'[t] = event[t] /\ local'[t] = local[t]
        /\ event[t] \in outbox'
        /\ outbox \subseteq outbox'
    BY <1>9 DEF Commits, Install, Finish
  <2>3. event[t] # Nil
    BY <2>1, NoIdAssumption
  <2>4. TookEffect(t)'
    BY <1>3, <1>4, <2>1, <2>2, <2>3 DEF TookEffect
  <2>5. Matches(m, event[t])
    <3>1. m.method # "GET" /\ EventType(req[t].op) = EventType(OpOf(m))
      BY <1>5, <2>1 DEF OpOf
    <3>2. NeedsToken(m) => Authorized(m)
      BY <1>3 DEF MayCallService
    <3>3. ASSUME m.method \in {"POST", "PATCH"} PROVE Carries(m.body, event[t].company)
      <4>1. req[t].op \in {"create", "patch"} /\ pc[t] = "commit"
        BY <1>5, <1>9, <3>3 DEF OpOf, Commits
      <4>2. Carries(req[t].body, local[t])
        BY <1>2, <4>1 DEF AtWork, Writing
      <4> QED BY <1>5, <2>1, <3>3, <4>2
    <3> QED BY <1>5, <2>1, <3>1, <3>2, <3>3 DEF Matches
  <2>6. Settled(t)'
    BY <1>3, <1>4, <2>1, <2>2, <2>4 DEF Settled, Reasons
  <2>7. EventKnown(t)'
    BY <1>3, <1>4, <2>2, <2>5 DEF EventKnown
  <2>8. AtWork(t)' /\ Answered(t)'
    BY <1>3, <1>4, <2>2 DEF AtWork, Answered, Pending, Cut
  <2> QED BY <2>6, <2>7, <2>8 DEF Connection
<1>10. CASE Shows(t)
  <2>1. /\ pc'[t] = "idle"
        /\ reply'[t] = "ok"
        /\ event'[t] = Nil
        /\ outbox' = outbox
        /\ m.method = "GET"
    BY <1>2, <1>5, <1>10 DEF Shows, Finish, AtWork, OpOf, Methods
  <2> QED BY <1>3, <1>4, <2>1
          DEF Connection, AtWork, Settled, Answered, EventKnown, Pending, Cut
<1> QED BY <1>2, <1>6, <1>7, <1>8, <1>9, <1>10, ServeCases DEF Serve

\* A request turned away leaves the event of an earlier one behind, and that one
\* is in the outbox already.
LEMMA TurnAwayKeeps ==
    ASSUME ApiTypeOK, NEW t \in Clients, Connection(t), NEW m \in Messages,
           Unauthorized(t, m) \/ BadRequest(t, m)
    PROVE  Connection(t)'
<1>1. PICK s \in {400, 401} : TurnAway(t, m, s) /\ s \in Documented(m.method)
  <2>1. m.method \in Methods
    BY MessageAssumption DEF Message
  <2>2. CASE Unauthorized(t, m)
    BY <2>2 DEF Unauthorized, NeedsToken, Documented
  <2>3. CASE BadRequest(t, m)
    <3>1. m.method # "DELETE" \/ m.path = NotUuid
      BY <2>3 DEF BadRequest, HasId, Decodes, Complete
    <3> QED BY <2>1, <2>3 DEF BadRequest, Documented, Methods
  <2> QED BY <2>2, <2>3
<1>2. /\ pc'[t] = "idle"
      /\ event'[t] = event[t]
      /\ message'[t] = m
      /\ status'[t] = s
      /\ seen'[t] = outbox
      /\ outbox' = outbox
  BY <1>1 DEF TurnAway, Accept, vars, ApiTypeOK
<1>3. event[t] = Nil \/ event[t] \in outbox
  BY <1>1 DEF Connection, EventKnown, TurnAway, Accept
<1>4. Answered(t)'
  BY <1>1, <1>2, <1>3 DEF Answered
<1>5. AtWork(t)' /\ Settled(t)' /\ EventKnown(t)'
  BY <1>1, <1>2, <1>3 DEF AtWork, Settled, EventKnown, Pending
<1> QED BY <1>4, <1>5 DEF Connection

\* A request that is passed on is refused at once or begins its transaction.
LEMMA HandleKeeps ==
    ASSUME IInv, ApiTypeOK, NEW t \in Clients, NEW m \in Messages, Handle(t, m)
    PROVE  Connection(t)'
<1>1. TypeOK
  BY DEF IInv
<1> USE <1>1 DEF TypeOK
<1> DEFINE r == ToRequest(m)
<1>2. /\ MayCallService(m)
      /\ r \in Requests
      /\ r.op = OpOf(m)
  BY RequestOf DEF Handle
<1>3. /\ message'[t] = m
      /\ status'[t] = Pending
      /\ seen'[t] = outbox
  BY DEF Handle, Accept, ApiTypeOK
<1> HIDE DEF r
<1>4. ASSUME NEW a \in Reasons(r.op) \ {"ok"}, Rollback(t, a) PROVE Connection(t)'
  <2>1. /\ pc'[t] = "idle"
        /\ reply'[t] = a
        /\ event'[t] = Nil
        /\ outbox' = outbox
    BY <1>4 DEF Rollback, Finish
  <2> QED BY <1>2, <1>3, <1>4, <2>1, RefusedConnection
<1>5. ASSUME NEW c, NEW s \in {"lookupId", "lookupName"}, Begin(t, r, c, s),
             s = "lookupId" => r.op # "create",
             s = "lookupName" => Carries(r.body, c)
      PROVE  Connection(t)'
  <2>1. /\ pc'[t] = s
        /\ req'[t] = r
        /\ local'[t] = c
        /\ event'[t] = Nil
        /\ outbox' = outbox
    BY <1>5 DEF Begin, database
  <2>2. AtWork(t)'
    BY <1>2, <1>3, <1>5, <2>1 DEF AtWork, Writing, r
  <2>3. Settled(t)' /\ Answered(t)' /\ EventKnown(t)'
    BY <1>3, <2>1 DEF Settled, Answered, EventKnown, Pending, Cut
  <2> QED BY <2>2, <2>3 DEF Connection
<1>6. CASE CreateCompany(t, r)
  <2>1. r.op = "create" /\ r.body \in Company
    BY <1>2, <1>6, RequestType DEF CreateCompany
  <2>2. CASE NewWithID(r.body).errors # {}
    <3>1. Rollback(t, "invalid")
      BY <1>6, <2>2 DEF CreateCompany
    <3> QED BY <2>1, <3>1, <1>4 DEF Reasons
  <2>3. CASE NewWithID(r.body).errors = {}
    <3>1. Begin(t, r, NewWithID(r.body).company, "lookupName")
      BY <1>6, <2>3 DEF CreateCompany
    <3>2. Carries(r.body, NewWithID(r.body).company)
      BY <2>1, <2>3, NewCarries
    <3> QED BY <3>1, <3>2, <1>5
  <2> QED BY <2>2, <2>3
<1>7. CASE PatchCompany(t, r)
  <2>1. r.op = "patch"
    BY <1>7 DEF PatchCompany
  <2>2. CASE Rollback(t, "emptyPatch")
    BY <2>1, <2>2, <1>4 DEF Reasons
  <2>3. CASE Begin(t, r, Nil, "lookupId")
    BY <2>1, <2>3, <1>5
  <2> QED BY <1>7, <2>2, <2>3 DEF PatchCompany
<1>8. CASE DeleteCompany(t, r) \/ GetCompany(t, r)
  BY <1>8, <1>5 DEF DeleteCompany, GetCompany
<1> QED BY <1>6, <1>7, <1>8 DEF Handle, CallService, r

\* The status says what the service replied (response.go:25-41).
LEMMA RespondKeeps ==
    ASSUME ApiTypeOK, NEW t \in Clients, Connection(t), Respond(t)
    PROVE  Connection(t)'
<1> DEFINE m == message[t]
<1>1. /\ m \in Messages
      /\ m.method \in Methods
      /\ reply[t] \in {"ok"} \cup Reasons(OpOf(m))
      /\ reply[t] = "ok" /\ m.method # "GET" => TookEffect(t) /\ event[t].company = local[t]
      /\ reply[t] \notin {"ok", "internal"} => event[t] = Nil
  BY MessageAssumption DEF Message, Connection, Settled, Respond
<1>2. /\ status'[t] \in {StatusOf(m.method, reply[t]), Cut}
      /\ UNCHANGED <<vars, message, seen>>
      /\ pc[t] = "idle"
  BY DEF Respond, ApiTypeOK
<1>3. EventKnown(t)' /\ TookEffect(t)' = TookEffect(t)
  BY <1>2 DEF Connection, EventKnown, TookEffect, vars
<1>4. CASE status'[t] = Cut
  BY <1>2, <1>3, <1>4 DEF Connection, AtWork, Settled, Answered, vars, Cut, Pending
<1>5. CASE status'[t] = StatusOf(m.method, reply[t])
  <2>1. CASE reply[t] = "ok"
    <3>1. /\ status'[t] \in {200, 201, 204}
          /\ status'[t] \in Documented(m.method)
      BY <1>1, <1>5, <2>1 DEF StatusOf, Documented, Methods
    <3> QED BY <1>1, <1>2, <1>3, <2>1, <3>1
            DEF Connection, AtWork, Settled, Answered, vars, Pending
  <2>2. CASE reply[t] = "internal"
    <3>0. WriteAppError(reply[t]) = 500
      BY <2>2 DEF WriteAppError
    <3>1. /\ status'[t] = 500
          /\ status'[t] \in Documented(m.method)
      BY <1>1, <1>5, <2>2, <3>0 DEF StatusOf, Documented, Methods
    <3> QED BY <1>1, <1>2, <1>3, <3>1
            DEF Connection, AtWork, Settled, Answered, vars, Pending
  <2>3. CASE reply[t] \notin {"ok", "internal"}
    <3>0. reply[t] \in Reasons(OpOf(m)) \ {"internal"}
      BY <1>1, <2>3
    <3>1. /\ status'[t] \in {400, 404, 409}
          /\ status'[t] \in Documented(m.method)
      <4>1. status'[t] = WriteAppError(reply[t])
        BY <1>5, <2>3 DEF StatusOf
      <4>2. CASE m.method = "POST"
        <5>1. reply[t] \in {"invalid", "duplicateName", "duplicateId"}
          BY <3>0, <4>2 DEF Reasons, OpOf
        <5>2. WriteAppError(reply[t]) \in {400, 409}
          BY <5>1 DEF WriteAppError
        <5> QED BY <4>1, <4>2, <5>2 DEF Documented
      <4>3. CASE m.method = "PATCH"
        <5>1. reply[t] \in {"invalid", "emptyPatch", "notFound", "duplicateName"}
          BY <3>0, <4>3 DEF Reasons, OpOf
        <5>2. WriteAppError(reply[t]) \in {400, 404, 409}
          BY <5>1 DEF WriteAppError
        <5> QED BY <4>1, <4>3, <5>2 DEF Documented
      <4>4. CASE m.method \in {"DELETE", "GET"}
        <5>1. reply[t] = "notFound"
          BY <3>0, <4>4 DEF Reasons, OpOf
        <5>2. WriteAppError(reply[t]) = 404
          BY <5>1 DEF WriteAppError
        <5> QED BY <4>1, <4>4, <5>2 DEF Documented
      <4> QED BY <1>1, <4>2, <4>3, <4>4 DEF Methods
    <3>2. event'[t] = Nil
      BY <1>1, <1>2, <2>3 DEF vars
    <3> QED BY <1>1, <1>2, <1>3, <3>1, <3>2
            DEF Connection, AtWork, Settled, Answered, vars, Pending
  <2> QED BY <2>1, <2>2, <2>3
<1> QED BY <1>2, <1>4, <1>5

\* The process ends with its connections.
LEMMA DieKeeps ==
    ASSUME IInv, ApiTypeOK, NEW t \in Clients, Connection(t), Die
    PROVE  Connection(t)'
<1>1. TypeOK
  BY DEF IInv
<1>2. /\ pc'[t] = "idle"
      /\ event'[t] = IF pc[t] = "idle" THEN event[t] ELSE Nil
      /\ pc[t] = "idle" => local'[t] = local[t]
      /\ outbox' = outbox
      /\ status'[t] = IF status[t] = Pending THEN Cut ELSE status[t]
      /\ message'[t] = message[t]
      /\ seen'[t] = seen[t]
  BY DEF Die, Crash, database
<1>3. pc[t] # "idle" => status[t] = Pending
  BY DEF Connection, AtWork
<1>4. AtWork(t)' /\ Settled(t)' /\ EventKnown(t)'
  BY <1>2 DEF Connection, AtWork, Settled, EventKnown, Pending, Cut
<1>5. Answered(t)'
  BY <1>2, <1>3 DEF Connection, Answered, TookEffect, Pending, Cut
<1> QED BY <1>4, <1>5 DEF Connection

-----------------------------------------------------------------------------
(***************************************************************************)
(* The invariant holds.                                                    *)
(***************************************************************************)
LEMMA ApiTypeStep ==
    ASSUME TypeOK, TypeOK', ApiIInv, [ApiNext]_allVars
    PROVE  ApiTypeOK'
<1> USE DEF ApiTypeOK, ApiIInv
<1>1. ASSUME NEW t \in Clients, NEW m \in Messages, NEW s \in Statuses, Accept(t, m, s)
      PROVE  ApiTypeOK'
  BY <1>1 DEF Accept, TypeOK
<1>2. ASSUME NEW t \in Clients, NEW m \in Messages,
             Unauthorized(t, m) \/ BadRequest(t, m) \/ Handle(t, m)
      PROVE  ApiTypeOK'
  BY <1>2, <1>1 DEF Unauthorized, BadRequest, Handle, TurnAway, Statuses
<1>3. CASE UNCHANGED apiVars
  BY <1>3 DEF apiVars
<1>4. ASSUME NEW t \in Clients, Respond(t) PROVE ApiTypeOK'
  <2>1. status'[t] \in Statuses
    <3>1. CASE status'[t] = Cut
      BY <3>1 DEF Statuses
    <3>2. CASE status'[t] # Cut
      <4>1. Connection(t)'
        BY <1>4, RespondKeeps
      <4>2. status'[t] # Pending /\ status'[t] # Nil => status'[t] \in Documented(message'[t].method)
        BY <3>2, <4>1 DEF Connection, Answered
      <4>3. message'[t] = message[t] /\ message[t] \in Messages
        BY <1>4 DEF Respond, Connection, Settled
      <4>4. message[t].method \in Methods
        BY <4>3, MessageAssumption DEF Message
      <4> QED BY <4>2, <4>3, <4>4 DEF Documented, Methods, Statuses
    <3> QED BY <3>1, <3>2
  <2> QED BY <1>4, <2>1 DEF Respond
<1>5. CASE Die
  BY <1>5 DEF Die, Statuses, Cut
<1>6. ASSUME NEW t \in Clients, Serve(t) PROVE ApiTypeOK'
  BY <1>3, <1>6 DEF Serve
<1> QED BY <1>2, <1>3, <1>4, <1>5, <1>6 DEF ApiNext, allVars

\* The connection the step is about, or every one when the process dies; the
\* others keep what is theirs.
LEMMA ApiStepInv == IInv /\ IInv' /\ ApiIInv /\ [ApiNext]_allVars => ApiIInv'
<1> SUFFICES ASSUME IInv, IInv', ApiIInv, [ApiNext]_allVars PROVE ApiIInv'
  OBVIOUS
<1>1. /\ TypeOK
      /\ TypeOK'
      /\ ApiTypeOK
      /\ \A t \in Clients : Connection(t)
  BY DEF IInv, ApiIInv
<1>2. ApiTypeOK'
  BY <1>1, ApiTypeStep
<1>3. outbox \subseteq outbox'
  BY ApiStep, OutboxGrows
<1> SUFFICES ASSUME NEW u \in Clients PROVE Connection(u)'
  BY <1>2 DEF ApiIInv
<1>4. ASSUME NEW t \in Clients, NEW m \in Messages, Unauthorized(t, m) \/ BadRequest(t, m)
      PROVE  Connection(u)'
  <2>1. CASE u = t
    BY <1>1, <1>4, <2>1, TurnAwayKeeps
  <2>2. CASE u # t
    <3>1. UNCHANGED vars /\ \E s : Accept(t, m, s)
      BY <1>4 DEF Unauthorized, BadRequest, TurnAway
    <3>2. message'[u] = message[u] /\ status'[u] = status[u] /\ seen'[u] = seen[u]
      BY <1>1, <2>2, <3>1 DEF Accept, ApiTypeOK
    <3> QED BY <1>1, <1>3, <3>1, <3>2, ConnectionStays DEF vars
  <2> QED BY <2>1, <2>2
<1>5. ASSUME NEW t \in Clients, NEW m \in Messages, Handle(t, m)
      PROVE  Connection(u)'
  <2>1. CASE u = t
    BY <1>1, <1>5, <2>1, HandleKeeps
  <2>2. CASE u # t
    <3>1. /\ pc'[u] = pc[u]
          /\ reply'[u] = reply[u]
          /\ req'[u] = req[u]
          /\ event'[u] = event[u]
          /\ local'[u] = local[u]
      BY <1>5, <2>2, CallIsArrival, OthersAnswers
    <3>2. message'[u] = message[u] /\ status'[u] = status[u] /\ seen'[u] = seen[u]
      BY <1>1, <1>5, <2>2 DEF Handle, Accept, ApiTypeOK
    <3> QED BY <1>1, <1>3, <3>1, <3>2, ConnectionStays
  <2> QED BY <2>1, <2>2
<1>6. ASSUME NEW t \in Clients, Serve(t)
      PROVE  Connection(u)'
  <2>1. CASE u = t
    BY <1>1, <1>6, <2>1, ServeKeeps
  <2>2. CASE u # t
    <3>1. /\ pc'[u] = pc[u]
          /\ reply'[u] = reply[u]
          /\ req'[u] = req[u]
          /\ event'[u] = event[u]
          /\ local'[u] = local[u]
      BY <1>6, <2>2, OthersAnswers DEF Serve
    <3>2. message'[u] = message[u] /\ status'[u] = status[u] /\ seen'[u] = seen[u]
      BY <1>6 DEF Serve, apiVars
    <3> QED BY <1>1, <1>3, <3>1, <3>2, ConnectionStays
  <2> QED BY <2>1, <2>2
<1>7. ASSUME NEW t \in Clients, Respond(t)
      PROVE  Connection(u)'
  <2>1. CASE u = t
    BY <1>1, <1>7, <2>1, RespondKeeps
  <2>2. CASE u # t
    <3>1. UNCHANGED vars /\ message'[u] = message[u] /\ status'[u] = status[u] /\ seen'[u] = seen[u]
      BY <1>1, <1>7, <2>2 DEF Respond, ApiTypeOK
    <3> QED BY <1>1, <1>3, <3>1, ConnectionStays DEF vars
  <2> QED BY <2>1, <2>2
<1>8. CASE Die
  BY <1>1, <1>8, DieKeeps
<1>9. CASE UNCHANGED allVars
  BY <1>1, <1>3, <1>9, ConnectionStays DEF allVars, vars, apiVars
<1> QED BY <1>4, <1>5, <1>6, <1>7, <1>8, <1>9 DEF ApiNext

LEMMA ApiInitInv == ApiInit => ApiIInv
<1> SUFFICES ASSUME ApiInit PROVE ApiIInv
  OBVIOUS
<1> Init
  BY DEF ApiInit
<1>1. ApiTypeOK
  <2>1. TypeOK
    BY InitInv DEF IInv
  <2> QED BY <2>1 DEF ApiInit, ApiTypeOK, Statuses
<1>2. ASSUME NEW t \in Clients PROVE Connection(t)
  <2>1. /\ pc[t] = "idle"
        /\ event[t] = Nil
        /\ status[t] = Nil
        /\ seen[t] = {}
    BY DEF Init, ApiInit
  <2> QED BY <2>1, NilAssumption
          DEF Connection, AtWork, Settled, Answered, EventKnown, Pending, Cut
<1> QED BY <1>1, <1>2 DEF ApiIInv

LEMMA ApiInvariance == ApiSpec => [](IInv /\ ApiIInv)
BY ApiInitInv, ApiStepInv, ApiInv, PTL DEF ApiSpec

-----------------------------------------------------------------------------
(***************************************************************************)
(* The theorems.                                                           *)
(***************************************************************************)
\* Every variable of the interface and of the service stays in its range; in
\* particular every answer is a status the handlers send.
THEOREM ApiTypeCorrect == ApiSpec => []ApiTypeOK
<1>1. ApiIInv => ApiTypeOK
  BY DEF ApiIInv
<1> QED BY <1>1, ApiInvariance, PTL

\* Each endpoint answers only what its @Success and @Failure lines document,
\* whatever the service replies and whichever requests race
\* (handlers.go:34-38, :75-79, :118-122, :145-148).
THEOREM AnswersDocumented == ApiSpec => []AnswersAreDocumented
<1>1. ApiIInv => AnswersAreDocumented
  BY DEF ApiIInv, Connection, Answered, AnswersAreDocumented
<1> QED BY <1>1, ApiInvariance, PTL

\* 2xx to a change means that it happened and that its event shows the company of the
\* answer, 4xx that it did not happen (response.go:25-41 over transaction.go:28-51).
THEOREM AnswersTellTheTruth == ApiSpec => []AnswerTellsTheTruth
<1>1. ApiIInv => AnswerTellsTheTruth
  BY DEF ApiIInv, Connection, Answered, AnswerTellsTheTruth, TookEffect
<1> QED BY <1>1, ApiInvariance, PTL

\* What changed is what was asked for, by someone who may ask for it
\* (middleware.go:12-29, jwt.go:22-42, dto.go:21-86).
THEOREM EffectsMatch == ApiSpec => []EffectMatchesMessage
<1>1. ApiIInv /\ IInv => EffectMatchesMessage
  <2> SUFFICES ASSUME ApiIInv, IInv, NEW t \in Clients, TookEffect(t)
               PROVE  LET m == message[t]
                          c == event[t].company
                      IN  /\ m.token = [hs256 |-> TRUE, signed |-> TRUE, expiry |-> "future"]
                          /\ event[t].type = CASE m.method = "POST"   -> "created"
                                               [] m.method = "PATCH"  -> "updated"
                                               [] m.method = "DELETE" -> "deleted"
                          /\ c.id = IdOf(m)
                          /\ m.method \in {"POST", "PATCH"} => Carries(m.body, c)
    BY DEF EffectMatchesMessage, Carries, Shown
  <2> DEFINE m == message[t]
  <2>1. pc[t] = "idle"
    <3>1. pc[t] # "commit"
      BY EventIsNew DEF TookEffect
    <3> QED BY <3>1 DEF ApiIInv, Connection, AtWork, TookEffect
  <2>2. m \in Messages /\ Matches(m, event[t])
    BY <2>1 DEF ApiIInv, Connection, EventKnown, TookEffect
  <2>3. m.method \in {"POST", "PATCH", "DELETE"}
    BY <2>2, MessageAssumption DEF Message, Methods, Matches
  <2>4. m.token \in Token /\ ValidateToken(m.token)
    BY <2>2, <2>3, MessageAssumption DEF Message, Matches, NeedsToken, Authorized
  <2>5. m.token = [hs256 |-> TRUE, signed |-> TRUE, expiry |-> "future"]
    BY <2>4 DEF Token, ValidateToken
  <2>6. event[t].type = CASE m.method = "POST"   -> "created"
                          [] m.method = "PATCH"  -> "updated"
                          [] m.method = "DELETE" -> "deleted"
    BY <2>2, <2>3 DEF Matches, EventType, OpOf
  <2> QED BY <2>2, <2>5, <2>6 DEF Matches
<1> QED BY <1>1, ApiInvariance, PTL

-----------------------------------------------------------------------------
(***************************************************************************)
(* Answers are fresh.  What a statement saw is turned at once into a fact  *)
(* about the outbox, by the mirror of the table, and such a fact stays     *)
(* true: seen is fixed while a request is handled and the outbox grows.    *)
(***************************************************************************)
ShowsStored(t) == \E e \in outbox : StoredSince(t, e) /\ e.company = local[t]

\* The name a transaction is about to write is one its request wants.
NameKnown(t) ==
    /\ pc[t] = "lookupName" => req[t].body.name # Nil
    /\ pc[t] \in {"write", "claimName"} /\ req[t].op # "delete" => WantsName(t, local[t].name)

\* Between the end of the service's work and the answer.
FreshReply(t) ==
    pc[t] = "idle" /\ status[t] = Pending =>
        /\ reply[t] = "ok" /\ message[t].method = "GET" => ShowsStored(t)
        /\ reply[t] = "notFound" => AbsentSince(t, message[t].path)
        /\ reply[t] \in {"duplicateId", "duplicateName"} => Conflict(t)

FreshConnection(t) == NameKnown(t) /\ FreshReply(t) /\ Fresh(t, status[t])

\* A row that is there was announced, and nothing known when the request was
\* accepted supersedes it.
LEMMA StoredIsShown ==
    ASSUME IInv, NEW t \in Clients, seen[t] \subseteq outbox, NEW c \in Ids, rows[c] # Nil
    PROVE  \E e \in outbox : StoredSince(t, e) /\ e.company = rows[c] /\ e.company.id = c
<1>1. PICK e \in EventsOf(c) : Latest(e) /\ e.type # "deleted" /\ e.company = rows[c]
  BY DEF IInv, OutboxMirrorsTable
<1>2. StoredSince(t, e)
  BY <1>1 DEF StoredSince, Latest, EventsOf
<1> QED BY <1>1, <1>2 DEF EventsOf

\* A row that is not there was not there when the request was accepted, or was
\* deleted since: the last event of its company says so.
LEMMA MissingIsAbsent ==
    ASSUME IInv, NEW t \in Clients, seen[t] \subseteq outbox, NEW c \in Ids, rows[c] = Nil
    PROVE  AbsentSince(t, c)
<1> SUFFICES ASSUME NEW e \in seen[t], e.company.id = c, StoredSince(t, e),
                    \A d \in outbox \ seen[t] : d.company.id = c => d.type # "deleted"
             PROVE  FALSE
  BY DEF AbsentSince
<1> DEFINE T == {d.at : d \in EventsOf(c)}
<1>1. \A d \in outbox : d.at \in 0..clock
  BY DEF IInv, TypeOK, StampsOK, Event
<1>2. T \subseteq 0..clock /\ T # {} /\ clock \in Nat /\ e \in EventsOf(c)
  BY <1>1 DEF EventsOf, IInv, TypeOK
<1>3. PICK n \in T : \A y \in T : y <= n
  <2> HIDE DEF T
  <2> QED BY <1>2, Greatest
<1>4. PICK l \in EventsOf(c) : \A d \in EventsOf(c) : d.at <= l.at
  BY <1>3
<1>5. l.type = "deleted"
  BY <1>4 DEF IInv, OutboxMirrorsTable, Latest, EventsOf
<1>6. l \in seen[t] /\ l.company.id = c
  BY <1>5 DEF EventsOf
<1>7. l.at <= e.at
  BY <1>6 DEF StoredSince
<1>8. \A d \in EventsOf(c) : d.at <= e.at
  <2> SUFFICES ASSUME NEW d \in EventsOf(c) PROVE d.at <= e.at
    OBVIOUS
  <2>1. d.at \in Nat /\ l.at \in Nat /\ e.at \in Nat
    BY <1>1, <1>2 DEF EventsOf
  <2> QED BY <1>4, <1>7, <2>1
<1>9. Latest(e)
  BY <1>8 DEF Latest
<1> QED BY <1>2, <1>9 DEF IInv, OutboxMirrorsTable, StoredSince

\* What has been seen stays true.
LEMMA FreshnessStays ==
    ASSUME NEW t, outbox \subseteq outbox', seen'[t] = seen[t], message'[t] = message[t]
    PROVE  /\ \A e : StoredSince(t, e)' <=> StoredSince(t, e)
           /\ \A c : AbsentSince(t, c) => AbsentSince(t, c)'
           /\ \A n : WantsName(t, n) => WantsName(t, n)'
           /\ Conflict(t) => Conflict(t)'
<1>1. \A e : StoredSince(t, e)' <=> StoredSince(t, e)
  BY DEF StoredSince
<1>2. \A c : AbsentSince(t, c) => AbsentSince(t, c)'
  BY <1>1 DEF AbsentSince
<1>3. \A n : WantsName(t, n) => WantsName(t, n)'
  BY <1>1 DEF WantsName
<1>4. Conflict(t) => Conflict(t)'
  BY <1>1, <1>3 DEF Conflict
<1> QED BY <1>1, <1>2, <1>3, <1>4

\* A connection nothing happens on keeps what is known of it.
LEMMA FreshConnectionStays ==
    ASSUME NEW u, FreshConnection(u), outbox \subseteq outbox',
           pc'[u] = pc[u], req'[u] = req[u], local'[u] = local[u], reply'[u] = reply[u],
           message'[u] = message[u], status'[u] = status[u], seen'[u] = seen[u]
    PROVE  FreshConnection(u)'
<1>1. ShowsStored(u) => ShowsStored(u)'
  BY FreshnessStays DEF ShowsStored
<1>2. NameKnown(u)'
  BY FreshnessStays DEF FreshConnection, NameKnown
<1>3. FreshReply(u)'
  BY <1>1, FreshnessStays DEF FreshConnection, FreshReply
<1>4. Fresh(u, status[u])'
  BY <1>1, FreshnessStays DEF FreshConnection, Fresh, ShowsStored
<1> QED BY <1>2, <1>3, <1>4 DEF FreshConnection

\* A request that names the company wants the name it is given.
LEMMA NameIsWanted ==
    ASSUME NEW t, NEW c, message[t].method \in {"POST", "PATCH"},
           Carries(message[t].body, c), message[t].body.name # Nil
    PROVE  WantsName(t, c.name)
BY DEF WantsName, Carries, Shown, PatchFields

\* The service is asked for the name the message gives; a creation gives one.
LEMMA RequestName ==
    ASSUME NEW m \in Messages, MayCallService(m), m.method \in {"POST", "PATCH"}
    PROVE  /\ ToRequest(m).body.name = m.body.name
           /\ m.method = "POST" => m.body.name # Nil
<1>1. CASE m.method = "POST"
  <2> DEFINE b == [m.body EXCEPT !.description = IF @ = Nil THEN EmptyString ELSE @]
  <2>1. ToRequest(m).body = b
    BY <1>1 DEF ToRequest
  <2>2. m.body \in CreateBody
    BY <1>1, MessageAssumption DEF MayCallService, Decodes
  <2>3. b.name = m.body.name
    BY <2>2 DEF CreateBody
  <2>4. m.body.name # Nil
    BY <1>1 DEF MayCallService, Complete, Required
  <2> HIDE DEF b
  <2> QED BY <2>1, <2>3, <2>4
<1>2. CASE m.method = "PATCH"
  BY <1>2 DEF ToRequest
<1> QED BY <1>1, <1>2

\* What a request is refused for was so while it was handled.
LEMMA FreshServe ==
    ASSUME IInv, ApiTypeOK, NEW t \in Clients, Connection(t), FreshConnection(t), Serve(t)
    PROVE  FreshConnection(t)'
<1> DEFINE m == message[t]
           id == req[t].id
           op == req[t].op
<1>1. TypeOK
  BY DEF IInv
<1>2. /\ pc[t] # "idle"
      /\ AtWork(t)
  <2>1. pc[t] # "idle"
    BY DEF Serve, Work, Fail, CommitUnacked, GetByID, GetByName, InsertRow, UpdateRow, DeleteRow,
           ClaimName, StoreEvent, Commit, AbortDeadlock, InTransaction
  <2> QED BY <2>1 DEF Connection
<1>3. /\ status[t] = Pending
      /\ m \in Messages
      /\ MayCallService(m)
      /\ req[t] = ToRequest(m)
      /\ seen[t] \subseteq outbox
  BY <1>2 DEF AtWork, Connection, EventKnown
<1>4. UNCHANGED <<message, status, seen>>
  BY DEF Serve, apiVars
<1>5. /\ req[t] \in Requests
      /\ op = OpOf(m)
      /\ id = IdOf(m)
      /\ id \in Ids
      /\ m.method \in Methods
      /\ \A c : m.method \in {"POST", "PATCH"} /\ Carries(req[t].body, c) => Carries(m.body, c)
  BY <1>3, RequestOf, RequestType
<1>6. /\ op = "create" <=> m.method = "POST"
      /\ op = "patch" <=> m.method = "PATCH"
      /\ op = "get" <=> m.method = "GET"
      /\ op \in Ops
      /\ m.method # "POST" => id = m.path
      /\ m.method = "POST" => id = m.body.id
  BY <1>5, RequestType DEF OpOf, IdOf, Methods
<1>7. op \in {"create", "patch"} =>
         /\ req[t].body.name = m.body.name
         /\ op = "create" => m.body.name # Nil
  BY <1>3, <1>6, RequestName
<1>8. outbox \subseteq outbox'
  BY ApiStep, OutboxGrows DEF ApiNext
<1>9. Fresh(t, status[t])'
  BY <1>3, <1>4 DEF Fresh, Pending
<1> HIDE DEF m, id, op
<1>10. ASSUME NEW a \in Replies \ {"ok"}, Rollback(t, a),
              a = "notFound" => AbsentSince(t, m.path),
              a \in {"duplicateId", "duplicateName"} => Conflict(t)
       PROVE  FreshConnection(t)'
  <2>1. pc'[t] = "idle" /\ reply'[t] = a
    BY <1>1, <1>10 DEF Rollback, Finish, TypeOK
  <2>2. NameKnown(t)'
    BY <2>1 DEF NameKnown
  <2>3. FreshReply(t)'
    BY <1>4, <1>8, <1>10, <2>1, FreshnessStays DEF FreshReply, m
  <2> QED BY <1>9, <2>2, <2>3 DEF FreshConnection
<1>11. ASSUME pc'[t] # "idle", NameKnown(t)'
       PROVE  FreshConnection(t)'
  BY <1>9, <1>11 DEF FreshConnection, FreshReply
<1>12. ASSUME NEW c, Proceed(t, c, "write"), op # "get", op # "delete" => WantsName(t, c.name)
       PROVE  FreshConnection(t)'
  <2>1. pc'[t] = "write" /\ local'[t] = c /\ req' = req
    BY <1>1, <1>12 DEF Proceed, TypeOK
  <2>2. NameKnown(t)'
    BY <1>4, <1>5, <1>6, <1>8, <1>12, <2>1, FreshnessStays DEF NameKnown, Ops, op
  <2> QED BY <1>11, <2>1, <2>2
<1>13. ASSUME NEW c, ApplyPatchTo(t, c), op = "patch",
              req[t].body.name = Nil => WantsName(t, c.name)
       PROVE  FreshConnection(t)'
  <2> DEFINE patched == ApplyPatch(c, req[t].body)
  <2>1. req[t].body \in Patch
    BY <1>5, <1>13, RequestType DEF op
  <2>2. CASE patched.errors # {}
    <3>1. Rollback(t, "invalid")
      BY <1>13, <2>2 DEF ApplyPatchTo
    <3> QED BY <1>10, <3>1 DEF Replies
  <2>3. CASE patched.errors = {}
    <3>1. Proceed(t, patched.company, "write")
      BY <1>13, <2>3 DEF ApplyPatchTo
    <3>2. CASE req[t].body.name = Nil
      <4>1. patched.company.name = c.name
        BY <3>2 DEF ApplyPatch, Overlay, Assigned
      <4> QED BY <1>12, <1>13, <3>1, <3>2, <4>1
    <3>3. CASE req[t].body.name # Nil
      <4>1. Carries(m.body, patched.company)
        BY <1>5, <1>6, <1>13, <2>1, <2>3, PatchCarries DEF m
      <4>2. WantsName(t, patched.company.name)
        BY <1>6, <1>7, <1>13, <3>3, <4>1, NameIsWanted DEF m
      <4> QED BY <1>12, <1>13, <3>1, <4>2
    <3> QED BY <3>2, <3>3
  <2> QED BY <2>2, <2>3
<1>14. ASSUME NEW s \in {"claimName", "store"}, pc[t] = "write", LockRow(t, s)
       PROVE  FreshConnection(t)'
  <2>1. pc'[t] = s /\ local' = local /\ req' = req
    BY <1>1, <1>14 DEF LockRow, TypeOK
  <2>2. NameKnown(t)'
    BY <1>4, <1>8, <1>14, <2>1, FreshnessStays DEF NameKnown, FreshConnection
  <2> QED BY <1>11, <2>1, <2>2
<1>15. rows[id] = Nil => AbsentSince(t, id)
  BY <1>3, <1>5, MissingIsAbsent
<1>16. ASSUME NEW c \in Ids, rows[c] # Nil
       PROVE  \E e \in outbox : StoredSince(t, e) /\ e.company = rows[c] /\ e.company.id = c
  BY <1>3, <1>16, StoredIsShown
<1>17. ASSUME NEW n, NEW c \in Owners(n), c # id, WantsName(t, n) PROVE Conflict(t)
  <2>1. PICK e \in outbox : StoredSince(t, e) /\ e.company = rows[c] /\ e.company.id = c
    BY <1>16 DEF Owners
  <2>2. e.company.name = n
    BY <2>1 DEF Owners
  <2> QED BY <1>5, <1>17, <2>1, <2>2 DEF Conflict, m
<1>18. op = "create" /\ rows[id] # Nil => Conflict(t)
  BY <1>5, <1>6, <1>16 DEF Conflict, m
<1>19. CASE GetByID(t)
  <2>1. pc[t] = "lookupId" /\ op # "create"
    BY <1>2, <1>19 DEF GetByID, AtWork, op
  <2>2. CASE rows[id] = Nil /\ Rollback(t, "notFound")
    BY <1>6, <1>10, <1>15, <2>1, <2>2 DEF Replies
  <2>3. CASE /\ rows[id] # Nil
             /\ op = "get"
             /\ Finish(t, "ok")
             /\ local' = [local EXCEPT ![t] = rows[id]]
    <3>1. pc'[t] = "idle" /\ reply'[t] = "ok" /\ local'[t] = rows[id]
      BY <1>1, <2>3 DEF Finish, TypeOK
    <3>2. ShowsStored(t)'
      BY <1>4, <1>5, <1>8, <1>16, <2>3, <3>1, FreshnessStays DEF ShowsStored
    <3> QED BY <1>9, <3>1, <3>2 DEF FreshConnection, FreshReply, NameKnown
  <2>4. CASE op = "delete" /\ Proceed(t, rows[id], "write")
    BY <1>12, <2>4
  <2>5. CASE op = "patch" /\ req[t].body.name # Nil /\ Proceed(t, rows[id], "lookupName")
    <3>1. pc'[t] = "lookupName" /\ req' = req
      BY <1>1, <2>5 DEF Proceed, TypeOK
    <3> QED BY <1>11, <2>5, <3>1 DEF NameKnown
  <2>6. CASE /\ rows[id] # Nil
             /\ op = "patch"
             /\ req[t].body.name = Nil
             /\ ApplyPatchTo(t, rows[id])
    <3>1. PICK e \in outbox : StoredSince(t, e) /\ e.company = rows[id] /\ e.company.id = id
      BY <1>5, <1>16, <2>6
    <3>2. WantsName(t, rows[id].name)
      BY <1>5, <1>7, <2>6, <3>1 DEF WantsName, m
    <3> QED BY <1>13, <2>6, <3>2
  <2> QED BY <1>19, <2>2, <2>3, <2>4, <2>5, <2>6 DEF GetByID, id, op
<1>20. CASE GetByName(t)
  <2>1. pc[t] = "lookupName" /\ req[t].body.name # Nil
    BY <1>20 DEF GetByName, FreshConnection, NameKnown
  <2>2. CASE op = "create"
    <3>1. WantsName(t, local[t].name)
      BY <1>2, <1>5, <1>6, <1>7, <2>1, <2>2, NameIsWanted DEF AtWork, m, op
    <3>2. CASE Owners(local[t].name) # {} /\ Rollback(t, "duplicateName")
      <4>1. PICK c \in Owners(local[t].name) : TRUE
        BY <3>2
      <4>2. Conflict(t)
        BY <1>17, <1>18, <2>2, <3>1, <4>1 DEF Owners
      <4> QED BY <1>10, <3>2, <4>2 DEF Replies
    <3>3. CASE Proceed(t, local[t], "write")
      BY <1>12, <2>2, <3>1, <3>3
    <3> QED BY <1>10, <1>20, <2>2, <3>2, <3>3 DEF GetByName, NewName, op, Replies
  <2>3. CASE op = "patch"
    <3> DEFINE n == TrimSpace[req[t].body.name]
    <3>1. WantsName(t, n)
      BY <1>7, <2>1, <2>3 DEF WantsName, m
    <3>2. CASE Owners(n) \ {id} # {} /\ Rollback(t, "duplicateName")
      <4>1. PICK c \in Owners(n) : c # id
        BY <3>2
      <4>2. Conflict(t)
        BY <1>17, <3>1, <4>1
      <4> QED BY <1>10, <3>2, <4>2 DEF Replies
    <3>3. CASE ApplyPatchTo(t, local[t])
      BY <1>13, <2>1, <2>3, <3>3
    <3> QED BY <1>10, <1>20, <2>3, <3>2, <3>3 DEF GetByName, NewName, op, id, Replies
  <2>4. op \in {"create", "patch"}
    BY <2>1 DEF IInv, PerClient, ClientOK, op
  <2> QED BY <2>2, <2>3, <2>4
<1>21. CASE InsertRow(t) \/ UpdateRow(t) \/ DeleteRow(t)
  <2>1. pc[t] = "write"
    BY <1>21 DEF InsertRow, UpdateRow, DeleteRow
  <2>2. CASE LockRow(t, "claimName") \/ LockRow(t, "store")
    BY <1>14, <2>1, <2>2
  <2>3. CASE op = "create" /\ rows[id] # Nil /\ Rollback(t, "duplicateId")
    BY <1>10, <1>18, <2>3 DEF Replies
  <2>4. CASE op # "create" /\ rows[id] = Nil /\ Rollback(t, "notFound")
    BY <1>6, <1>10, <1>15, <2>4 DEF Replies
  <2>5. CASE Rollback(t, "internal")
    BY <1>10, <2>5 DEF Replies
  <2> QED BY <1>21, <2>2, <2>3, <2>4, <2>5 DEF InsertRow, UpdateRow, DeleteRow, op, id
<1>22. CASE ClaimName(t)
  <2>1. pc[t] = "claimName" /\ op # "delete"
    BY <1>22 DEF ClaimName, IInv, PerClient, ClientOK, op
  <2>2. CASE /\ ~ KeepsName(t)
             /\ Owners(local[t].name) # {}
             /\ Rollback(t, "duplicateName")
    <3>1. PICK c \in Owners(local[t].name) : TRUE
      BY <2>2
    <3>2. c # id
      BY <2>2, <3>1 DEF KeepsName, Owners, id
    <3>3. WantsName(t, local[t].name)
      BY <2>1 DEF FreshConnection, NameKnown, op
    <3> QED BY <1>10, <1>17, <2>2, <3>1, <3>2, <3>3 DEF Replies
  <2>3. CASE pc' = [pc EXCEPT ![t] = "store"]
    <3>1. pc'[t] = "store"
      BY <1>1, <2>3 DEF TypeOK
    <3> QED BY <1>11, <3>1 DEF NameKnown
  <2> QED BY <1>22, <2>2, <2>3 DEF ClaimName
<1>23. CASE StoreEvent(t)
  <2>1. pc'[t] = "commit"
    BY <1>1, <1>23 DEF StoreEvent, TypeOK
  <2> QED BY <1>11, <2>1 DEF NameKnown
<1>24. CASE Commit(t) \/ CommitUnacked(t)
  <2>1. pc'[t] = "idle" /\ reply'[t] \in {"ok", "internal"}
    BY <1>1, <1>24 DEF Commit, CommitUnacked, Finish, TypeOK
  <2>2. op # "get"
    BY <1>24 DEF Commit, CommitUnacked, IInv, PerClient, ClientOK, Writing, op
  <2>3. message'[t].method # "GET"
    BY <1>4, <1>6, <2>2 DEF m
  <2> QED BY <1>9, <2>1, <2>3 DEF FreshConnection, FreshReply, NameKnown
<1>25. CASE AbortDeadlock(t) \/ Fail(t)
  BY <1>10, <1>25 DEF AbortDeadlock, Fail, Replies
<1> QED BY <1>19, <1>20, <1>21, <1>22, <1>23, <1>24, <1>25 DEF Serve, Work

\* A request that is turned away claims nothing of a company.
LEMMA FreshTurnAway ==
    ASSUME ApiTypeOK, NEW t \in Clients, NEW m \in Messages,
           Unauthorized(t, m) \/ BadRequest(t, m)
    PROVE  FreshConnection(t)'
<1>1. pc'[t] = "idle" /\ status'[t] \in {400, 401}
  BY DEF Unauthorized, BadRequest, TurnAway, Accept, vars, ApiTypeOK
<1> QED BY <1>1 DEF FreshConnection, NameKnown, FreshReply, Fresh, Pending

\* Nor does one that is refused at once; one that is not begins with its name.
LEMMA FreshHandle ==
    ASSUME IInv, ApiTypeOK, NEW t \in Clients, NEW m \in Messages, Handle(t, m)
    PROVE  FreshConnection(t)'
<1> DEFINE r == ToRequest(m)
<1>1. TypeOK
  BY DEF IInv
<1>2. /\ MayCallService(m)
      /\ r \in Requests
      /\ r.op = OpOf(m)
      /\ m.method \in Methods
  BY RequestOf DEF Handle
<1>3. /\ message'[t] = m
      /\ status'[t] = Pending
  BY DEF Handle, Accept, ApiTypeOK
<1>4. Fresh(t, status[t])'
  BY <1>3 DEF Fresh, Pending
<1> HIDE DEF r
<1>5. ASSUME NEW a \in {"invalid", "emptyPatch"}, Rollback(t, a) PROVE FreshConnection(t)'
  <2>1. pc'[t] = "idle" /\ reply'[t] = a
    BY <1>1, <1>5 DEF Rollback, Finish, TypeOK
  <2> QED BY <1>4, <2>1 DEF FreshConnection, NameKnown, FreshReply
<1>6. ASSUME NEW c, NEW s \in {"lookupId", "lookupName"}, Begin(t, r, c, s),
             s = "lookupName" => r.op = "create"
      PROVE  FreshConnection(t)'
  <2>1. pc'[t] = s /\ req'[t] = r
    BY <1>1, <1>6 DEF Begin, TypeOK
  <2>2. s = "lookupName" => r.body.name # Nil
    BY <1>2, <1>6, RequestName DEF OpOf, Methods, r
  <2> QED BY <1>4, <2>1, <2>2 DEF FreshConnection, NameKnown, FreshReply
<1> QED BY <1>5, <1>6 DEF Handle, CallService, CreateCompany, PatchCompany, DeleteCompany,
           GetCompany, r

\* Which replies become the statuses that claim something (response.go:25-41).
LEMMA StatusClaims ==
    ASSUME NEW method \in Methods, NEW answer \in {"ok"} \cup UNION {Reasons(op) : op \in Ops}
    PROVE  /\ StatusOf(method, answer) = 200 /\ method = "GET" => answer = "ok"
           /\ StatusOf(method, answer) = 404 => answer = "notFound"
           /\ StatusOf(method, answer) = 409 => answer \in {"duplicateId", "duplicateName"}
<1>1. answer \in {"ok", "invalid", "emptyPatch", "notFound", "duplicateId", "duplicateName",
                  "internal"}
  BY DEF Reasons, Ops
<1>2. answer # "ok" => WriteAppError(answer) \in {400, 404, 409, 500}
  BY <1>1 DEF WriteAppError
<1>3. /\ answer # "ok" /\ WriteAppError(answer) = 404 => answer = "notFound"
      /\ answer # "ok" /\ WriteAppError(answer) = 409 => answer \in {"duplicateId", "duplicateName"}
  BY <1>1 DEF WriteAppError
<1>4. answer = "ok" => StatusOf(method, answer) \in {200, 201, 204}
  BY DEF StatusOf, Methods
<1>5. answer # "ok" => StatusOf(method, answer) = WriteAppError(answer)
  BY DEF StatusOf
<1> QED BY <1>2, <1>3, <1>4, <1>5

\* The status says no more than the reply.
LEMMA FreshRespond ==
    ASSUME ApiTypeOK, NEW t \in Clients, Connection(t), FreshConnection(t), Respond(t)
    PROVE  FreshConnection(t)'
<1> DEFINE m == message[t]
           s == StatusOf(m.method, reply[t])
<1>1. /\ m.method \in Methods
      /\ reply[t] \in {"ok"} \cup UNION {Reasons(op) : op \in Ops}
  <2>1. m \in Messages /\ reply[t] \in {"ok"} \cup Reasons(OpOf(m))
    BY DEF Connection, Settled, Respond
  <2>2. m.method \in Methods
    BY <2>1, MessageAssumption DEF Message
  <2>3. OpOf(m) \in Ops
    BY <2>2 DEF OpOf, Methods, Ops
  <2> QED BY <2>1, <2>2, <2>3
<1>2. /\ UNCHANGED <<pc, local, outbox, message, seen>>
      /\ pc[t] = "idle"
      /\ status[t] = Pending
      /\ status'[t] \in {s, Cut}
  BY DEF Respond, ApiTypeOK, vars
<1>3. /\ s = 200 /\ m.method = "GET" => ShowsStored(t)
      /\ s = 404 => AbsentSince(t, m.path)
      /\ s = 409 => Conflict(t)
  <2>1. /\ s = 200 /\ m.method = "GET" => reply[t] = "ok"
        /\ s = 404 => reply[t] = "notFound"
        /\ s = 409 => reply[t] \in {"duplicateId", "duplicateName"}
    BY <1>1, StatusClaims
  <2> HIDE DEF s
  <2> QED BY <1>2, <2>1 DEF FreshConnection, FreshReply
<1>4. /\ ShowsStored(t) => ShowsStored(t)'
      /\ Conflict(t) => Conflict(t)'
      /\ AbsentSince(t, m.path) => AbsentSince(t, m.path)'
  BY <1>2 DEF ShowsStored, Conflict, AbsentSince, StoredSince, WantsName
<1>5. status'[t] # Pending
  <2>1. reply[t] # "ok" => WriteAppError(reply[t]) # 0
    BY <1>1 DEF WriteAppError, Reasons, Ops
  <2> QED BY <1>1, <1>2, <2>1 DEF StatusOf, Methods, Pending, Cut
<1> HIDE DEF s
<1>6. Fresh(t, status[t])'
  BY <1>2, <1>3, <1>4 DEF Fresh, ShowsStored, Cut
<1> QED BY <1>2, <1>5, <1>6 DEF FreshConnection, NameKnown, FreshReply

\* A connection that ends without an answer claims nothing.
LEMMA FreshDie ==
    ASSUME ApiTypeOK, NEW t \in Clients, Connection(t), FreshConnection(t), Die
    PROVE  FreshConnection(t)'
<1>1. /\ pc'[t] = "idle"
      /\ pc[t] = "idle" => local'[t] = local[t]
      /\ outbox' = outbox
      /\ status'[t] = IF status[t] = Pending THEN Cut ELSE status[t]
      /\ message'[t] = message[t]
      /\ seen'[t] = seen[t]
  BY DEF Die, Crash, database
<1>2. CASE status[t] = Pending
  BY <1>1, <1>2 DEF FreshConnection, NameKnown, FreshReply, Fresh, Pending, Cut
<1>3. CASE status[t] # Pending
  <2>1. local'[t] = local[t] /\ status'[t] = status[t]
    BY <1>1, <1>3 DEF Connection, AtWork
  <2>2. Fresh(t, status[t])'
    BY <1>1, <2>1, FreshnessStays DEF FreshConnection, Fresh
  <2> QED BY <1>1, <1>3, <2>1, <2>2 DEF FreshConnection, NameKnown, FreshReply
<1> QED BY <1>2, <1>3

\* As in ApiStepInv: the connection of the step, or every one; the others stay.
LEMMA FreshStep ==
    ASSUME IInv, ApiIInv, \A t \in Clients : FreshConnection(t), [ApiNext]_allVars
    PROVE  \A t \in Clients : FreshConnection(t)'
<1> SUFFICES ASSUME NEW u \in Clients PROVE FreshConnection(u)'
  OBVIOUS
<1>1. /\ ApiTypeOK
      /\ \A t \in Clients : Connection(t)
      /\ outbox \subseteq outbox'
  BY ApiStep, OutboxGrows DEF ApiIInv
<1>2. ASSUME NEW t \in Clients \ {u},
             Arrive(t) \/ Work(t) \/ Fail(t) \/ CommitUnacked(t) \/ UNCHANGED vars,
             message'[u] = message[u], status'[u] = status[u], seen'[u] = seen[u]
      PROVE  FreshConnection(u)'
  <2>1. pc'[u] = pc[u] /\ req'[u] = req[u] /\ local'[u] = local[u] /\ reply'[u] = reply[u]
    BY <1>2, OthersAnswers DEF vars
  <2> QED BY <1>1, <1>2, <2>1, FreshConnectionStays
<1>3. ASSUME NEW t \in Clients, NEW m \in Messages, Unauthorized(t, m) \/ BadRequest(t, m)
      PROVE  FreshConnection(u)'
  <2>1. u # t => message'[u] = message[u] /\ status'[u] = status[u] /\ seen'[u] = seen[u]
    BY <1>1, <1>3 DEF Unauthorized, BadRequest, TurnAway, Accept, ApiTypeOK
  <2>2. UNCHANGED vars
    BY <1>3 DEF Unauthorized, BadRequest, TurnAway
  <2> QED BY <1>1, <1>2, <1>3, <2>1, <2>2, FreshTurnAway
<1>4. ASSUME NEW t \in Clients, NEW m \in Messages, Handle(t, m)
      PROVE  FreshConnection(u)'
  <2>1. u # t => message'[u] = message[u] /\ status'[u] = status[u] /\ seen'[u] = seen[u]
    BY <1>1, <1>4 DEF Handle, Accept, ApiTypeOK
  <2> QED BY <1>1, <1>2, <1>4, <2>1, CallIsArrival, FreshHandle
<1>5. ASSUME NEW t \in Clients, Serve(t)
      PROVE  FreshConnection(u)'
  <2>1. /\ Work(t) \/ Fail(t) \/ CommitUnacked(t)
        /\ UNCHANGED <<message, status, seen>>
    BY <1>5 DEF Serve, apiVars
  <2> QED BY <1>1, <1>2, <1>5, <2>1, FreshServe
<1>6. ASSUME NEW t \in Clients, Respond(t)
      PROVE  FreshConnection(u)'
  <2>1. u # t => message'[u] = message[u] /\ status'[u] = status[u] /\ seen'[u] = seen[u]
    BY <1>1, <1>6 DEF Respond, ApiTypeOK
  <2>2. UNCHANGED vars
    BY <1>6 DEF Respond
  <2> QED BY <1>1, <1>2, <1>6, <2>1, <2>2, FreshRespond
<1>7. CASE Die
  BY <1>1, <1>7, FreshDie
<1>8. CASE UNCHANGED allVars
  BY <1>1, <1>8, FreshConnectionStays DEF allVars, vars, apiVars
<1> QED BY <1>3, <1>4, <1>5, <1>6, <1>7, <1>8 DEF ApiNext

\* No answer is older than its request: a company shown was stored, a company not
\* found was absent, and an id or a name refused was taken, at some moment while
\* the request was handled, whichever requests race
\* (company_repository.go:36-145 under READ COMMITTED).
THEOREM AnswersStayFresh == ApiSpec => []AnswersAreFresh
<1> DEFINE F == \A t \in Clients : FreshConnection(t)
<1>1. ApiInit => F
  <2> SUFFICES ASSUME ApiInit, NEW t \in Clients PROVE FreshConnection(t)
    OBVIOUS
  <2>1. pc[t] = "idle" /\ status[t] = Nil
    BY DEF ApiInit, Init
  <2> QED BY <2>1, NilAssumption DEF FreshConnection, NameKnown, FreshReply, Fresh, Pending
<1>2. IInv /\ ApiIInv /\ F /\ [ApiNext]_allVars => F'
  BY FreshStep
<1>3. F => AnswersAreFresh
  BY DEF FreshConnection, AnswersAreFresh
<1> HIDE DEF F
<1> QED BY <1>1, <1>2, <1>3, ApiInvariance, PTL DEF ApiSpec

-----------------------------------------------------------------------------
(***************************************************************************)
(* Changes are made to fresh rows.  The row a patch or a deletion reads is *)
(* one an event announced, as above; what the service then does to its     *)
(* copy in memory touches only the fields the request gives; and the locks *)
(* make the event of the change later than the one it was built on.        *)
(***************************************************************************)
Alters(m) == m.method \in {"PATCH", "DELETE"}

\* Company c is what t's message makes of the company of event d.
MadeFrom(t, c, d) ==
    /\ d.company.id = IdOf(message[t])
    /\ message[t].method = "DELETE" => c = d.company
    /\ message[t].method = "PATCH" => \A f \in PatchFields :
         message[t].body[f] = Nil => c[f] = d.company[f]

BuiltFresh(t, c) == \E d \in outbox : StoredSince(t, d) /\ MadeFrom(t, c, d)

\* From the read to the commit, and after it.
BuildOK(t) ==
    /\ pc[t] \in {"lookupName", "write"} \cup Writing /\ Alters(message[t]) =>
         BuiltFresh(t, local[t])
    /\ Changed(t) => \E d \in outbox : StoredSince(t, d) /\ AppliedTo(t, d)

\* Applying a patch leaves the fields it does not give as they were.
LEMMA PatchLeavesRest ==
    ASSUME NEW c, NEW p, NEW f \in PatchFields, p[f] = Nil
    PROVE  ApplyPatch(c, p).company[f] = c[f]
BY DEF ApplyPatch, Overlay, Assigned, PatchFields

\* Only an idle client has an event in the outbox that it did not find there.
LEMMA ChangedIsIdle ==
    ASSUME IInv, NEW t \in Clients, Connection(t), TookEffect(t)
    PROVE  pc[t] = "idle"
BY EventIsNew DEF Connection, AtWork, TookEffect

\* A connection nothing happens on keeps what is known of it.
LEMMA BuildStays ==
    ASSUME IInv, NEW u \in Clients, Connection(u), BuildOK(u), outbox \subseteq outbox',
           pc'[u] = pc[u], local'[u] = local[u], event'[u] = event[u],
           message'[u] = message[u], seen'[u] = seen[u],
           pc[u] = "idle" \/ ~ TookEffect(u)'
    PROVE  BuildOK(u)'
<1>1. \A d : StoredSince(u, d)' <=> StoredSince(u, d)
  BY FreshnessStays
<1>2. \A d : AppliedTo(u, d)' <=> AppliedTo(u, d)
  BY DEF AppliedTo
<1>3. \A c, d : MadeFrom(u, c, d)' <=> MadeFrom(u, c, d)
  BY DEF MadeFrom
<1>4. Changed(u)' => Changed(u)
  BY DEF Changed, TookEffect, Connection, EventKnown
<1> QED BY <1>1, <1>2, <1>3, <1>4 DEF BuildOK, BuiltFresh

\* A connection without an event has changed nothing; while it has read no row it
\* has built on none.
LEMMA NothingBuilt ==
    ASSUME NEW t \in Clients, event'[t] = Nil \/ event'[t] \in seen'[t],
           pc'[t] \in {"idle", "lookupId"} \/ ~ Alters(message'[t])
    PROVE  BuildOK(t)'
BY DEF BuildOK, Changed, TookEffect, Writing, Alters

\* The service builds a change on the row it reads, or changes nothing.
LEMMA BuildServe ==
    ASSUME IInv, ApiTypeOK, NEW t \in Clients, Connection(t), Connection(t)', BuildOK(t), Serve(t)
    PROVE  BuildOK(t)'
<1> DEFINE m == message[t]
           id == req[t].id
<1>1. TypeOK
  BY DEF IInv
<1>2. /\ pc[t] # "idle"
      /\ AtWork(t)
  <2>1. pc[t] # "idle"
    BY DEF Serve, Work, Fail, CommitUnacked, GetByID, GetByName, InsertRow, UpdateRow, DeleteRow,
           ClaimName, StoreEvent, Commit, AbortDeadlock, InTransaction
  <2> QED BY <2>1 DEF Connection
<1>3. /\ m \in Messages
      /\ MayCallService(m)
      /\ req[t] = ToRequest(m)
      /\ seen[t] \subseteq outbox
  BY <1>2 DEF AtWork, Connection, EventKnown
<1>4. UNCHANGED <<message, seen>>
  BY DEF Serve, apiVars
<1> SUFFICES ASSUME Alters(m) PROVE BuildOK(t)'
  BY <1>4 DEF BuildOK, Changed, Alters
<1>5. /\ req[t] \in Requests
      /\ id = IdOf(m)
      /\ id \in Ids
      /\ req[t].op = "patch" <=> m.method = "PATCH"
      /\ req[t].op = "delete" <=> m.method = "DELETE"
      /\ req[t].op \in {"patch", "delete"}
      /\ m.method = "PATCH" => req[t].body = m.body
  <2> HIDE DEF m, id
  <2>1. /\ req[t] \in Requests
        /\ req[t].op = OpOf(m)
        /\ req[t].id = IdOf(m)
        /\ m.method \in {"PATCH", "DELETE"}
    BY <1>3, RequestOf DEF Alters
  <2>2. req[t].id \in Ids
    BY <2>1, RequestType
  <2>3. m.method = "PATCH" => req[t].body = m.body
    BY <1>3 DEF ToRequest
  <2> QED BY <2>1, <2>2, <2>3 DEF OpOf, id
<1>6. \A d : StoredSince(t, d)' <=> StoredSince(t, d)
  BY <1>4 DEF StoredSince
<1>7. \A c, d : MadeFrom(t, c, d)' <=> MadeFrom(t, c, d)
  BY <1>4 DEF MadeFrom
<1> HIDE DEF m, id
<1>8. ASSUME NEW a, Rollback(t, a) PROVE BuildOK(t)'
  <2>1. pc'[t] = "idle" /\ event'[t] = Nil
    BY <1>1, <1>8 DEF Rollback, Finish, TypeOK
  <2> QED BY <2>1, NothingBuilt
<1>9. ASSUME NEW c, outbox' = outbox, local'[t] = c, BuiltFresh(t, c),
             pc'[t] \notin {"idle", "commit"}
      PROVE  BuildOK(t)'
  <2>1. event'[t] = Nil
    BY <1>9 DEF Connection, AtWork
  <2>2. ~ Changed(t)'
    BY <2>1 DEF Changed, TookEffect
  <2> QED BY <1>6, <1>7, <1>9, <2>2 DEF BuildOK, BuiltFresh
<1>10. ASSUME rows[id] # Nil PROVE BuiltFresh(t, rows[id])
  <2>1. PICK d \in outbox : StoredSince(t, d) /\ d.company = rows[id] /\ d.company.id = id
    BY <1>3, <1>5, <1>10, StoredIsShown
  <2>2. MadeFrom(t, rows[id], d)
    BY <1>5, <2>1 DEF MadeFrom, m
  <2> QED BY <2>1, <2>2 DEF BuiltFresh
<1>11. ASSUME NEW c, ApplyPatchTo(t, c), req[t].op = "patch", BuiltFresh(t, c)
       PROVE  BuildOK(t)'
  <2> DEFINE patched == ApplyPatch(c, req[t].body)
  <2>1. CASE patched.errors # {}
    BY <1>8, <1>11, <2>1 DEF ApplyPatchTo
  <2>2. CASE patched.errors = {}
    <3>1. Proceed(t, patched.company, "write")
      BY <1>11, <2>2 DEF ApplyPatchTo
    <3>2. /\ pc'[t] = "write"
          /\ local'[t] = patched.company
          /\ outbox' = outbox
      BY <1>1, <3>1 DEF Proceed, TypeOK, database
    <3>3. PICK d \in outbox : StoredSince(t, d) /\ MadeFrom(t, c, d)
      BY <1>11 DEF BuiltFresh
    <3>4. \A f \in PatchFields : m.body[f] = Nil => patched.company[f] = c[f]
      BY <1>5, <1>11, PatchLeavesRest
    <3> HIDE DEF patched
    <3>5. MadeFrom(t, patched.company, d)
      BY <1>5, <1>11, <3>3, <3>4 DEF MadeFrom, m
    <3>6. BuiltFresh(t, patched.company)
      BY <3>3, <3>5 DEF BuiltFresh
    <3> QED BY <1>9, <3>2, <3>6
  <2> QED BY <2>1, <2>2
<1>12. CASE GetByID(t)
  <2>1. CASE rows[id] # Nil /\ (Proceed(t, rows[id], "write") \/ Proceed(t, rows[id], "lookupName"))
    <3>1. /\ pc'[t] \in {"write", "lookupName"}
          /\ local'[t] = rows[id]
          /\ outbox' = outbox
      BY <1>1, <2>1 DEF Proceed, TypeOK, database
    <3> QED BY <1>9, <1>10, <2>1, <3>1
  <2>2. CASE rows[id] # Nil /\ req[t].op = "patch" /\ ApplyPatchTo(t, rows[id])
    BY <1>10, <1>11, <2>2
  <2> QED BY <1>5, <1>8, <1>12, <2>1, <2>2 DEF GetByID, id
<1>13. CASE GetByName(t)
  <2>1. pc[t] = "lookupName" /\ req[t].op = "patch"
    BY <1>5, <1>13 DEF GetByName, IInv, PerClient, ClientOK
  <2>2. BuiltFresh(t, local[t])
    BY <2>1 DEF BuildOK, m
  <2> QED BY <1>8, <1>11, <1>13, <2>1, <2>2 DEF GetByName
<1>14. ASSUME pc[t] \in {"write", "claimName"}, UNCHANGED <<outbox, local>>,
              pc'[t] \in {"claimName", "store"}
       PROVE  BuildOK(t)'
  <2>1. BuiltFresh(t, local[t])
    BY <1>14 DEF BuildOK, Writing, m
  <2> QED BY <1>9, <1>14, <2>1
<1>15. CASE InsertRow(t) \/ UpdateRow(t) \/ DeleteRow(t)
  <2>1. pc[t] = "write"
    BY <1>15 DEF InsertRow, UpdateRow, DeleteRow
  <2>2. CASE LockRow(t, "claimName") \/ LockRow(t, "store")
    BY <1>1, <1>14, <2>1, <2>2 DEF LockRow, database, TypeOK
  <2> QED BY <1>8, <1>15, <2>2 DEF InsertRow, UpdateRow, DeleteRow
<1>16. CASE ClaimName(t)
  <2>1. pc[t] = "claimName"
    BY <1>16 DEF ClaimName
  <2>2. CASE pc' = [pc EXCEPT ![t] = "store"] /\ UNCHANGED <<database, local>>
    BY <1>1, <1>14, <2>1, <2>2 DEF database, TypeOK
  <2> QED BY <1>8, <1>16, <2>2 DEF ClaimName
<1>17. CASE StoreEvent(t)
  <2>1. /\ pc[t] = "store"
        /\ event'[t].at = clock + 1
        /\ UNCHANGED <<outbox, local>>
    BY <1>1, <1>17 DEF StoreEvent, TypeOK, database
  <2>2. event'[t] \notin outbox
    BY <1>1, <2>1 DEF IInv, StampsOK, TypeOK, Event
  <2>3. BuiltFresh(t, local[t])
    BY <2>1 DEF BuildOK, Writing, m
  <2> QED BY <1>6, <1>7, <2>1, <2>2, <2>3 DEF BuildOK, BuiltFresh, Changed, TookEffect
<1>18. CASE Commit(t) \/ CommitUnacked(t)
  <2>1. /\ pc[t] = "commit" /\ pc'[t] = "idle"
        /\ event' = event
        /\ outbox \subseteq outbox'
    BY <1>1, <1>18 DEF Commit, CommitUnacked, Finish, Install, TypeOK
  <2>2. PICK d \in outbox : StoredSince(t, d) /\ MadeFrom(t, local[t], d)
    BY <2>1 DEF BuildOK, BuiltFresh, Writing, m
  <2>3. event[t].company = local[t] /\ \A e \in EventsOf(id) : e.at < event[t].at
    BY <2>1, AtCommit DEF id
  <2>4. d \in EventsOf(id)
    BY <1>5, <2>2 DEF MadeFrom, EventsOf, m
  <2>5. AppliedTo(t, d)'
    BY <1>4, <2>1, <2>2, <2>3, <2>4 DEF MadeFrom, AppliedTo
  <2> QED BY <1>6, <2>1, <2>2, <2>5 DEF BuildOK, Writing
<1>19. CASE AbortDeadlock(t) \/ Fail(t)
  BY <1>8, <1>19 DEF AbortDeadlock, Fail
<1> QED BY <1>12, <1>13, <1>15, <1>16, <1>17, <1>18, <1>19 DEF Serve, Work

\* A request turned away has changed nothing; the event of an earlier one is in the
\* outbox already.
LEMMA BuildTurnAway ==
    ASSUME ApiTypeOK, NEW t \in Clients, Connection(t), NEW m \in Messages,
           Unauthorized(t, m) \/ BadRequest(t, m)
    PROVE  BuildOK(t)'
<1>1. /\ pc[t] = "idle"
      /\ UNCHANGED vars
      /\ seen'[t] = outbox
  BY DEF Unauthorized, BadRequest, TurnAway, Accept, ApiTypeOK
<1>2. event[t] = Nil \/ event[t] \in outbox
  BY <1>1 DEF Connection, EventKnown
<1> QED BY <1>1, <1>2, NothingBuilt DEF vars

\* A request that is passed on has read nothing yet, and its event is still to come.
LEMMA BuildHandle ==
    ASSUME IInv, ApiTypeOK, NEW t \in Clients, NEW m \in Messages, Handle(t, m)
    PROVE  BuildOK(t)'
<1> DEFINE r == ToRequest(m)
<1>1. TypeOK
  BY DEF IInv
<1>2. r.op = OpOf(m) /\ m.method \in Methods
  BY RequestOf DEF Handle
<1>3. message'[t] = m
  BY DEF Handle, Accept, ApiTypeOK
<1> HIDE DEF r
<1>4. ASSUME NEW a, Rollback(t, a) PROVE BuildOK(t)'
  <2>1. pc'[t] = "idle" /\ event'[t] = Nil
    BY <1>1, <1>4 DEF Rollback, Finish, TypeOK
  <2> QED BY <2>1, NothingBuilt
<1>5. ASSUME NEW c, NEW s, Begin(t, r, c, s), s = "lookupId" \/ r.op = "create"
      PROVE  BuildOK(t)'
  <2>1. pc'[t] = s /\ event'[t] = Nil
    BY <1>1, <1>5 DEF Begin, TypeOK
  <2>2. r.op = "create" => ~ Alters(m)
    BY <1>2 DEF OpOf, Alters, Methods
  <2> QED BY <1>3, <1>5, <2>1, <2>2, NothingBuilt
<1> QED BY <1>4, <1>5 DEF Handle, CallService, CreateCompany, PatchCompany, DeleteCompany,
           GetCompany, r

\* The end of the process takes the changes that were not committed with it.
LEMMA BuildDie ==
    ASSUME IInv, NEW t \in Clients, Connection(t), BuildOK(t), Die
    PROVE  BuildOK(t)'
<1>1. /\ pc'[t] = "idle"
      /\ event'[t] = IF pc[t] = "idle" THEN event[t] ELSE Nil
      /\ pc[t] = "idle" => local'[t] = local[t]
      /\ outbox' = outbox
      /\ message'[t] = message[t]
      /\ seen'[t] = seen[t]
  BY DEF Die, Crash, database
<1>2. CASE pc[t] = "idle"
  BY <1>1, <1>2, BuildStays
<1>3. CASE pc[t] # "idle"
  BY <1>1, <1>3, NothingBuilt
<1> QED BY <1>2, <1>3

\* As in ApiStepInv: the connection of the step, or every one; the others stay.
LEMMA BuildStep ==
    ASSUME IInv, IInv', ApiIInv, ApiIInv', \A t \in Clients : BuildOK(t), [ApiNext]_allVars
    PROVE  \A t \in Clients : BuildOK(t)'
<1> SUFFICES ASSUME NEW u \in Clients PROVE BuildOK(u)'
  OBVIOUS
<1>1. /\ ApiTypeOK
      /\ \A t \in Clients : Connection(t) /\ Connection(t)'
      /\ outbox \subseteq outbox'
  BY ApiStep, OutboxGrows DEF ApiIInv
<1>2. ASSUME pc'[u] = pc[u], event'[u] = event[u], local'[u] = local[u],
             message'[u] = message[u], seen'[u] = seen[u]
      PROVE  BuildOK(u)'
  <2>1. pc[u] = "idle" \/ ~ TookEffect(u)'
    <3>1. CASE pc[u] \notin {"idle", "commit"}
      BY <1>1, <1>2, <3>1 DEF Connection, AtWork, TookEffect
    <3>2. CASE pc[u] = "commit"
      <4>1. (EventOK(u) /\ ClientOK(u))' /\ pc'[u] = "commit"
        BY <1>2, <3>2 DEF IInv, PerClient
      <4>2. /\ event'[u] \in Event
            /\ event'[u].company.id = req'[u].id
            /\ \A e \in EventsOf(req[u].id)' : e.at < event'[u].at
        BY <4>1 DEF EventOK, ClientOK, Writing
      <4>3. ~ (event'[u].at < event'[u].at)
        BY <4>2 DEF Event
      <4> QED BY <4>2, <4>3 DEF EventsOf, TookEffect
    <3> QED BY <3>1, <3>2
  <2> QED BY <1>1, <1>2, <2>1, BuildStays
<1>3. ASSUME NEW t \in Clients \ {u},
             Arrive(t) \/ Work(t) \/ Fail(t) \/ CommitUnacked(t) \/ UNCHANGED vars,
             message'[u] = message[u], seen'[u] = seen[u]
      PROVE  BuildOK(u)'
  BY <1>2, <1>3, OthersAnswers DEF vars
<1>4. ASSUME NEW t \in Clients, NEW m \in Messages, Unauthorized(t, m) \/ BadRequest(t, m)
      PROVE  BuildOK(u)'
  <2>1. u # t => message'[u] = message[u] /\ seen'[u] = seen[u]
    BY <1>1, <1>4 DEF Unauthorized, BadRequest, TurnAway, Accept, ApiTypeOK
  <2>2. UNCHANGED vars
    BY <1>4 DEF Unauthorized, BadRequest, TurnAway
  <2> QED BY <1>1, <1>3, <1>4, <2>1, <2>2, BuildTurnAway
<1>5. ASSUME NEW t \in Clients, NEW m \in Messages, Handle(t, m)
      PROVE  BuildOK(u)'
  <2>1. u # t => message'[u] = message[u] /\ seen'[u] = seen[u]
    BY <1>1, <1>5 DEF Handle, Accept, ApiTypeOK
  <2> QED BY <1>1, <1>3, <1>5, <2>1, CallIsArrival, BuildHandle
<1>6. ASSUME NEW t \in Clients, Serve(t)
      PROVE  BuildOK(u)'
  <2>1. /\ Work(t) \/ Fail(t) \/ CommitUnacked(t)
        /\ UNCHANGED <<message, status, seen>>
    BY <1>6 DEF Serve, apiVars
  <2> QED BY <1>1, <1>3, <1>6, <2>1, BuildServe
<1>7. ASSUME NEW t \in Clients, Respond(t)
      PROVE  BuildOK(u)'
  BY <1>2, <1>7 DEF Respond, vars
<1>8. CASE Die
  BY <1>1, <1>8, BuildDie
<1>9. CASE UNCHANGED allVars
  BY <1>2, <1>9 DEF allVars, vars, apiVars
<1> QED BY <1>4, <1>5, <1>6, <1>7, <1>8, <1>9 DEF ApiNext

LEMMA BuildInvariance == ApiSpec => []\A t \in Clients : BuildOK(t)
<1> DEFINE B == \A t \in Clients : BuildOK(t)
<1>1. ApiInit => B
  BY NilAssumption DEF ApiInit, Init, BuildOK, Changed, TookEffect, Writing
<1>2. IInv /\ IInv' /\ ApiIInv /\ ApiIInv' /\ B /\ [ApiNext]_allVars => B'
  BY BuildStep
<1> HIDE DEF B
<1>3. ApiSpec => []B
  BY <1>1, <1>2, ApiInvariance, PTL DEF ApiSpec
<1> QED BY <1>3 DEF B

\* A patch or a deletion is made to the company as it was stored at some moment since
\* its request was accepted, whichever requests race (service.go:86 and :104, :118 and
\* :127 under READ COMMITTED).
THEOREM ChangesAreFresh == ApiSpec => []ChangesBuildOnFreshRows
<1>1. (\A t \in Clients : BuildOK(t)) => ChangesBuildOnFreshRows
  BY DEF BuildOK, ChangesBuildOnFreshRows
<1> QED BY <1>1, BuildInvariance, PTL

\* A patch or a deletion that nothing overlaps changes what it is asked to change and
\* nothing else: an update can only be lost to a request that overlaps
\* (service.go:76-133).
THEOREM LoneChangesExact == ApiSpec => []LoneChangesAreExact
<1>1. IInv /\ KeysApart /\ ApiIInv /\ ChangesBuildOnFreshRows => LoneChangesAreExact
  <2> SUFFICES ASSUME IInv, KeysApart, ApiIInv, ChangesBuildOnFreshRows,
                      NEW t \in Clients, Changed(t),
                      NEW d \in seen[t], JustBefore(d, event[t])
               PROVE  AppliedTo(t, d)
    BY DEF LoneChangesAreExact
  <2>1. PICK f \in outbox : StoredSince(t, f) /\ AppliedTo(t, f)
    BY DEF ChangesBuildOnFreshRows
  <2>2. event[t].company.id = IdOf(message[t])
    <3>1. Connection(t) /\ TookEffect(t)
      BY DEF ApiIInv, Changed
    <3>2. pc[t] = "idle"
      BY <3>1, ChangedIsIdle
    <3> QED BY <3>1, <3>2 DEF Connection, EventKnown, TookEffect, Matches
  <2>3. d \in outbox /\ d.company.id = f.company.id
    BY <2>1, <2>2 DEF JustBefore, EventsOf, AppliedTo
  <2>4. f.at <= d.at
    BY <2>1, <2>2 DEF JustBefore, EventsOf, AppliedTo
  <2>5. d.at <= f.at
    BY <2>1, <2>3 DEF StoredSince
  <2>6. d.at \in Nat /\ f.at \in Nat
    BY <2>3 DEF IInv, TypeOK, Event
  <2>7. d = f
    BY <2>3, <2>4, <2>5, <2>6 DEF KeysApart
  <2> QED BY <2>1, <2>7
<1>2. ApiSpec => []KeysApart
  BY ApiKeepsStore, KeysStayApart, PTL
<1> QED BY <1>1, <1>2, ApiInvariance, ChangesAreFresh, PTL

-----------------------------------------------------------------------------
(***************************************************************************)
(* The causes of a 500.  The service replies with an error it did not      *)
(* expect in four places: a failure, a COMMIT whose acknowledgement is     *)
(* lost, a deadlock, and a company Postgres cannot store.                  *)
(***************************************************************************)
\* What the message of t has to be, for an unexpected error without a failure.
Cause(t) ==
    \/ message[t].method = "PATCH"
    \/ message[t].method = "POST" /\ Unfit(message[t].body)

CauseOK(t) ==
    faults = 0 =>
        /\ pc[t] = "idle" /\ status[t] = Pending /\ reply[t] = "internal" => Cause(t)
        /\ status[t] = 500 => Cause(t)

\* Failures are only counted up.
LEMMA FaultsOnlyGrow == IInv /\ [Next]_vars /\ faults' = 0 => faults = 0
<1> SUFFICES ASSUME IInv, [Next]_vars PROVE faults' = 0 => faults = 0
  OBVIOUS
<1>1. faults \in Nat
  BY BoundAssumption DEF IInv, TypeOK
<1>2. ASSUME NEW t \in Clients, Arrive(t) PROVE faults' = faults
  BY <1>2 DEF Arrive, CreateCompany, PatchCompany, DeleteCompany, GetCompany, Receive
<1>3. ASSUME NEW t \in Clients, Work(t) PROVE faults' = faults
  BY <1>3 DEF Work, GetByID, GetByName, InsertRow, UpdateRow, DeleteRow, ClaimName, StoreEvent,
     Commit, AbortDeadlock, bounds
<1>4. ASSUME NEW t \in Clients, Fail(t) \/ CommitUnacked(t) PROVE faults' = faults + 1
  BY <1>4 DEF Fail, CommitUnacked, Fault
<1>5. Crash => faults' = faults + 1
  BY DEF Crash, Fault
<1> QED BY <1>1, <1>2, <1>3, <1>4, <1>5 DEF Next, vars

\* A creation Postgres refuses was sent with what it refuses: a text is unstorable
\* before trimming as after, and the description that is put for a missing one is not.
LEMMA UnfitCreation ==
    ASSUME NEW t \in Clients, Connection(t), pc[t] \in {"lookupName", "write"},
           req[t].op = "create", ~ Encodable(local[t])
    PROVE  Cause(t)
<1> DEFINE m == message[t]
           b == [m.body EXCEPT !.description = IF @ = Nil THEN EmptyString ELSE @]
<1>1. /\ m \in Messages
      /\ MayCallService(m)
      /\ req[t] = ToRequest(m)
      /\ Carries(req[t].body, local[t])
  BY DEF Connection, AtWork
<1>2. m.method = "POST"
  BY <1>1, RequestOf DEF OpOf, Methods
<1>3. m.body \in CreateBody /\ m.body.amount # Nil /\ m.body.name # Nil
  BY <1>1, <1>2, MessageAssumption DEF MayCallService, Decodes, Complete, Required
<1>4. Carries(b, local[t])
  <2>1. req[t].body = b
    BY <1>1, <1>2 DEF ToRequest
  <2> HIDE DEF b
  <2> QED BY <1>1, <2>1
<1>5. /\ b.amount = m.body.amount
      /\ b.name = m.body.name
      /\ b.description = IF m.body.description = Nil THEN EmptyString ELSE m.body.description
  BY <1>3 DEF CreateBody
<1>6. /\ b.name \in Strings /\ b.description \in Strings
      /\ b.name # Nil /\ b.description # Nil /\ b.amount # Nil
      /\ m.body.amount \in Int /\ MaxInt4 \in Int
  BY <1>3, <1>5, TextAssumption, NilAssumption, BoundAssumption DEF CreateBody
<1> HIDE DEF b
<1>7. /\ local[t].amount = b.amount
      /\ local[t].name = TrimSpace[b.name]
      /\ local[t].description = TrimSpace[b.description]
  BY <1>4, <1>6 DEF Carries, Shown, PatchFields
<1>8. local[t].amount > MaxInt4 \/ b.name \in Unstorable \/ b.description \in Unstorable
  BY <1>5, <1>6, <1>7, UnstorableAssumption DEF Encodable
<1>9. Unfit(m.body)
  BY <1>5, <1>7, <1>8, UnstorableAssumption DEF Unfit
<1> QED BY <1>2, <1>9 DEF Cause

\* The service replies so without a failure only for such a reason.
LEMMA CauseServe ==
    ASSUME IInv, OnlyRenamesDeadlock, ApiTypeOK, NEW t \in Clients, Connection(t), Serve(t),
           faults = 0, faults' = 0, pc'[t] = "idle", reply'[t] = "internal"
    PROVE  Cause(t)
<1>1. TypeOK
  BY DEF IInv
<1>2. ASSUME NEW a \in Replies \ {"internal"}, Rollback(t, a) PROVE FALSE
  BY <1>1, <1>2 DEF Rollback, Finish, TypeOK
<1>3. ASSUME NEW c, NEW s, s # "idle", Proceed(t, c, s) \/ LockRow(t, s) PROVE FALSE
  BY <1>1, <1>3 DEF Proceed, LockRow, TypeOK
<1>4. ASSUME NEW c, ApplyPatchTo(t, c) PROVE FALSE
  BY <1>2, <1>3, <1>4 DEF ApplyPatchTo, Replies
<1>5. ASSUME pc[t] # "idle", req[t].op = "patch" PROVE Cause(t)
  <2>1. message[t] \in Messages /\ MayCallService(message[t]) /\ req[t] = ToRequest(message[t])
    BY <1>5 DEF Connection, AtWork
  <2> QED BY <1>5, <2>1, RequestOf DEF OpOf, Methods, Cause
<1>6. ~ GetByID(t)
  <2>1. ~ (Finish(t, "ok") /\ UNCHANGED <<database, clock, req, event>>)
    BY <1>1 DEF Finish, TypeOK
  <2> QED BY <1>2, <1>3, <1>4, <2>1 DEF GetByID, Replies
<1>7. CASE GetByName(t)
  <2>1. pc[t] = "lookupName" /\ NewName(t) \in Unstorable
    BY <1>2, <1>3, <1>4, <1>7 DEF GetByName, Replies
  <2>2. req[t].op = "create" => ~ Encodable(local[t])
    BY <2>1 DEF NewName, Encodable
  <2>3. req[t].op \in {"create", "patch"}
    BY <2>1 DEF IInv, PerClient, ClientOK
  <2> QED BY <1>5, <2>1, <2>2, <2>3, UnfitCreation
<1>8. CASE InsertRow(t) \/ UpdateRow(t) \/ DeleteRow(t)
  BY <1>2, <1>3, <1>5, <1>8, UnfitCreation DEF InsertRow, UpdateRow, DeleteRow, Replies
<1>9. ~ ClaimName(t)
  <2>1. ~ (pc' = [pc EXCEPT ![t] = "store"])
    BY <1>1 DEF TypeOK
  <2> QED BY <1>2, <2>1 DEF ClaimName, Replies
<1>10. ~ StoreEvent(t) /\ ~ Commit(t)
  BY <1>1 DEF StoreEvent, Commit, Finish, TypeOK
<1>11. CASE AbortDeadlock(t)
  BY <1>5, <1>11 DEF AbortDeadlock, OnlyRenamesDeadlock
<1>12. ~ Fail(t) /\ ~ CommitUnacked(t)
  BY DEF Fail, CommitUnacked, Fault
<1> QED BY <1>6, <1>7, <1>8, <1>9, <1>10, <1>11, <1>12 DEF Serve, Work

\* Only a reply nobody expected becomes a 500 (response.go:25-41).
LEMMA InternalStatus ==
    ASSUME ApiTypeOK, NEW t \in Clients, Connection(t), Respond(t), status'[t] = 500
    PROVE  reply[t] = "internal"
<1>1. message[t].method \in Methods /\ reply[t] \in {"ok"} \cup Reasons(OpOf(message[t]))
  BY MessageAssumption DEF Connection, Settled, Respond, Message
<1>2. StatusOf(message[t].method, reply[t]) = 500
  BY DEF Respond, ApiTypeOK, Cut
<1>3. reply[t] # "ok"
  BY <1>1, <1>2 DEF StatusOf, Methods
<1>4. WriteAppError(reply[t]) = 500
  BY <1>2, <1>3 DEF StatusOf
<1>5. reply[t] \in {"internal", "invalid", "emptyPatch", "notFound", "duplicateId", "duplicateName"}
  BY <1>1, <1>3 DEF Reasons, OpOf, Methods
<1> QED BY <1>4, <1>5 DEF WriteAppError

LEMMA CauseStep ==
    ASSUME IInv, OnlyRenamesDeadlock, ApiIInv, \A t \in Clients : CauseOK(t), [ApiNext]_allVars
    PROVE  \A t \in Clients : CauseOK(t)'
<1> SUFFICES ASSUME NEW u \in Clients, faults' = 0
             PROVE  /\ pc'[u] = "idle" /\ status'[u] = Pending /\ reply'[u] = "internal" => Cause(u)'
                    /\ status'[u] = 500 => Cause(u)'
  BY DEF CauseOK
<1>1. /\ TypeOK
      /\ ApiTypeOK
      /\ Connection(u)
      /\ faults = 0
  BY ApiStep, FaultsOnlyGrow DEF IInv, ApiIInv
<1> DEFINE Goal ==
             /\ pc'[u] = "idle" /\ status'[u] = Pending /\ reply'[u] = "internal" => Cause(u)'
             /\ status'[u] = 500 => Cause(u)'
<1>2. ASSUME pc'[u] = pc[u], reply'[u] = reply[u], message'[u] = message[u],
             status'[u] = status[u]
      PROVE  Goal
  BY <1>1, <1>2 DEF CauseOK, Cause
<1>3. ASSUME NEW t \in Clients \ {u},
             Arrive(t) \/ Work(t) \/ Fail(t) \/ CommitUnacked(t) \/ UNCHANGED vars,
             message'[u] = message[u], status'[u] = status[u]
      PROVE  Goal
  BY <1>2, <1>3, OthersAnswers DEF vars
<1>4. ASSUME NEW t \in Clients, NEW m \in Messages, Unauthorized(t, m) \/ BadRequest(t, m)
      PROVE  Goal
  <2>1. UNCHANGED vars
    BY <1>4 DEF Unauthorized, BadRequest, TurnAway
  <2>2. CASE u = t
    BY <1>1, <1>4, <2>2 DEF Unauthorized, BadRequest, TurnAway, Accept, ApiTypeOK, Pending
  <2>3. CASE u # t
    BY <1>1, <1>3, <1>4, <2>1, <2>3 DEF Unauthorized, BadRequest, TurnAway, Accept, ApiTypeOK
  <2> QED BY <2>2, <2>3
<1>5. ASSUME NEW t \in Clients, NEW m \in Messages, Handle(t, m)
      PROVE  Goal
  <2>1. CASE u = t
    <3>1. status'[u] = Pending
      BY <1>1, <1>5, <2>1 DEF Handle, Accept, ApiTypeOK
    <3>2. reply'[u] # "internal"
      BY <1>1, <1>5, <2>1
         DEF Handle, CallService, CreateCompany, PatchCompany, DeleteCompany, GetCompany, Begin,
             Rollback, Finish, TypeOK
    <3> QED BY <3>1, <3>2 DEF Pending
  <2>2. CASE u # t
    <3>1. message'[u] = message[u] /\ status'[u] = status[u]
      BY <1>1, <1>5, <2>2 DEF Handle, Accept, ApiTypeOK
    <3> HIDE DEF Goal
    <3> QED BY <1>3, <1>5, <2>2, <3>1, CallIsArrival
  <2> QED BY <2>1, <2>2
<1>6. ASSUME NEW t \in Clients, Serve(t)
      PROVE  Goal
  <2>1. /\ Work(t) \/ Fail(t) \/ CommitUnacked(t)
        /\ UNCHANGED <<message, status, seen>>
    BY <1>6 DEF Serve, apiVars
  <2>2. CASE u = t
    <3>1. pc'[u] = "idle" /\ reply'[u] = "internal" => Cause(u)
      BY <1>1, <1>6, <2>2, CauseServe
    <3> QED BY <1>1, <2>1, <3>1 DEF CauseOK, Cause
  <2>3. CASE u # t
    BY <1>3, <2>1, <2>3
  <2> QED BY <2>2, <2>3
<1>7. ASSUME NEW t \in Clients, Respond(t)
      PROVE  Goal
  <2>1. UNCHANGED <<vars, message>>
    BY <1>7 DEF Respond
  <2>2. CASE u = t
    <3>1. pc[u] = "idle" /\ status[u] = Pending
      BY <1>7, <2>2 DEF Respond
    <3>2. status'[u] = 500 => reply[u] = "internal"
      BY <1>1, <1>7, <2>2, InternalStatus
    <3>3. reply[u] = "internal" => Cause(u)
      BY <1>1, <3>1 DEF CauseOK
    <3> QED BY <2>1, <3>2, <3>3 DEF Cause, vars
  <2>3. CASE u # t
    BY <1>1, <1>3, <1>7, <2>1, <2>3 DEF Respond, ApiTypeOK
  <2> QED BY <2>2, <2>3
<1>8. ~ Die
  BY <1>1 DEF Die, Crash, Fault
<1>9. CASE UNCHANGED allVars
  BY <1>2, <1>9 DEF allVars, vars, apiVars
<1> QED BY <1>4, <1>5, <1>6, <1>7, <1>8, <1>9 DEF ApiNext

\* Without a failure a 500 means a patch, or a creation with an amount beyond the column
\* or with a zero byte in a text: no creation, deletion or read is ever the victim of a
\* deadlock, and every other error has a status of its own (response.go:25-41 over
\* company_repository.go:36-145, :190-204).
THEOREM InternalErrorsExplained == ApiSpec => []InternalErrorHasCause
<1> DEFINE C == \A t \in Clients : CauseOK(t)
<1>1. ApiInit => C
  BY NilAssumption DEF ApiInit, Init, CauseOK, Pending
<1>2. IInv /\ OnlyRenamesDeadlock /\ ApiIInv /\ C /\ [ApiNext]_allVars => C'
  BY CauseStep
<1>3. C => InternalErrorHasCause
  BY DEF CauseOK, Cause, InternalErrorHasCause
<1>4. ApiSpec => []OnlyRenamesDeadlock
  BY ApiKeepsStore, RenamesDeadlock, PTL
<1> HIDE DEF C
<1> QED BY <1>1, <1>2, <1>3, <1>4, ApiInvariance, PTL DEF ApiSpec
=============================================================================
