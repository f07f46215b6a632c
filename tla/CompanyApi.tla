----------------------------- MODULE CompanyApi -----------------------------
(***************************************************************************)
(* The HTTP interface (internal/interfaces/http) on top of CompanyStore:   *)
(* routing, the bearer token, the path and the body of a request decide    *)
(* whether the service is called; its outcome becomes a status code; and   *)
(* the answer may never reach the client.                                  *)
(*                                                                         *)
(* The bytes of a body are abstracted to what decodeJSON makes of them: an *)
(* object with or without each field, or an error.  Requests for other     *)
(* paths and methods never reach a handler and are left out, and so are    *)
(* the health endpoints and Swagger, which read nothing of this state.     *)
(***************************************************************************)
EXTENDS CompanyStore

CONSTANTS Messages,  \* the HTTP requests clients send
          NotUuid    \* a text uuid.Parse rejects

Methods == {"POST", "PATCH", "DELETE", "GET"}

\* What ParseWithClaims finds in a token.
Token == [hs256 : BOOLEAN, signed : BOOLEAN, expiry : {"past", "future", "absent"}]

\* A creation body: every field is a pointer, Nil when it was left out.
CreateBody == [id : Ids \cup {NotUuid, Nil}, name : Strings \cup {Nil},
               description : Strings \cup {Nil}, amount : Int \cup {Nil},
               registered : BOOLEAN \cup {Nil}, type : Types \cup {Nil}]

\* token is Nil without a bearer token, body Nil when it does not decode.
Message == [method : Methods, token : Token \cup {Nil}, path : Ids \cup {NotUuid, Nil},
            body : CreateBody \cup Patch \cup {Nil}]

Pending == 0   \* no status yet: a handler is at work
Cut == -1      \* no status ever: the connection ended without an answer
Statuses == {200, 201, 204, 400, 401, 404, 409, 500, Pending, Cut, Nil}

VARIABLES
    message,  \* the request each client's connection carries, or carried last
    status,   \* its answer
    seen      \* what the outbox held when the request was accepted (history)

apiVars == <<message, status, seen>>
allVars == <<vars, apiVars>>

ApiInit ==
    /\ Init
    /\ message = [t \in Clients |-> Nil]
    /\ status = [t \in Clients |-> Nil]
    /\ seen = [t \in Clients |-> {}]

-----------------------------------------------------------------------------
(***************************************************************************)
(* What is looked at before the service is called, in this order.          *)
(***************************************************************************)
\* Slip: GetCompany registered inside the protected group.
NeedsTokenAlways(m) == TRUE

NeedsToken(m) == m.method \in {"POST", "PATCH", "DELETE"}

\* Slip: a token without an expiry accepted.
ValidateUnexpiring(token) == token.hs256 /\ token.signed /\ token.expiry # "past"

\* An expiry that is given must lie ahead, and one must be given.
ValidateToken(token) == token.hs256 /\ token.signed /\ token.expiry = "future"

Authorized(m) == m.token # Nil /\ ValidateToken(m.token)

HasId(m) == m.method = "POST" \/ m.path # NotUuid

Decodes(m) == m.method \in {"DELETE", "GET"} \/ m.body # Nil

Required == {"id", "name", "amount", "registered", "type"}

\* toInput: every required field is there, and the id is one.
Complete(m) ==
    m.method = "POST" => /\ \A f \in Required : m.body[f] # Nil
                         /\ m.body.id # NotUuid

\* The request that reaches the service.
ToRequest(m) ==
    CASE m.method = "POST" ->
           [op |-> "create", id |-> m.body.id,
            body |-> [m.body EXCEPT !.description = IF @ = Nil THEN EmptyString ELSE @]]
      [] m.method = "PATCH" -> [op |-> "patch", id |-> m.path, body |-> m.body]
      [] m.method = "DELETE" -> [op |-> "delete", id |-> m.path, body |-> Nil]
      [] m.method = "GET" -> [op |-> "get", id |-> m.path, body |-> Nil]

MayCallService(m) ==
    /\ NeedsToken(m) => Authorized(m)
    /\ HasId(m)
    /\ Decodes(m)
    /\ Complete(m)

ASSUME MessageAssumption ==
    \A m \in Messages :
        /\ m \in Message
        /\ m.method = "POST" => m.body \in CreateBody \cup {Nil}
        /\ m.method = "PATCH" => m.body \in Patch \cup {Nil}
        /\ m.method # "POST" => m.path # Nil
        /\ MayCallService(m) => ToRequest(m) \in Requests

-----------------------------------------------------------------------------
(***************************************************************************)
(* The handlers.                                                           *)
(***************************************************************************)
\* A connection takes one request at a time.
Accept(t, m, s) ==
    /\ status[t] # Pending
    /\ pc[t] = "idle"
    /\ message' = [message EXCEPT ![t] = m]
    /\ status' = [status EXCEPT ![t] = s]
    /\ seen' = [seen EXCEPT ![t] = outbox]

\* Answered without a call of the service.
TurnAway(t, m, s) ==
    /\ Accept(t, m, s)
    /\ UNCHANGED vars

CallService(t, m) ==
    LET r == ToRequest(m)
    IN  \/ CreateCompany(t, r)
        \/ PatchCompany(t, r)
        \/ DeleteCompany(t, r)
        \/ GetCompany(t, r)

Unauthorized(t, m) ==
    /\ NeedsToken(m)
    /\ ~ Authorized(m)
    /\ TurnAway(t, m, 401)

BadRequest(t, m) ==
    /\ NeedsToken(m) => Authorized(m)
    /\ ~ (HasId(m) /\ Decodes(m) /\ Complete(m))
    /\ TurnAway(t, m, 400)

Handle(t, m) ==
    /\ MayCallService(m)
    /\ Accept(t, m, Pending)
    /\ CallService(t, m)

\* The service at work, with its failures.
Serve(t) ==
    /\ Work(t) \/ Fail(t) \/ CommitUnacked(t)
    /\ UNCHANGED apiVars

\* Slip: an error nobody mapped reported as a conflict.
WriteAppErrorConflict(answer) ==
    CASE answer \in {"invalid", "emptyPatch"}                    -> 400
      [] answer = "notFound"                                     -> 404
      [] answer \in {"duplicateId", "duplicateName", "internal"} -> 409

WriteAppError(answer) ==
    CASE answer \in {"invalid", "emptyPatch"}        -> 400
      [] answer = "notFound"                         -> 404
      [] answer \in {"duplicateId", "duplicateName"} -> 409
      [] answer = "internal"                         -> 500

StatusOf(method, answer) ==
    IF answer # "ok"
      THEN WriteAppError(answer)
      ELSE CASE method = "POST"             -> 201
             [] method \in {"PATCH", "GET"} -> 200
             [] method = "DELETE"           -> 204

\* The handler writes the status; or the connection can carry no answer any
\* more (the client is gone, or the server's WriteTimeout has passed).
Respond(t) ==
    /\ status[t] = Pending
    /\ pc[t] = "idle"
    /\ \/ status' = [status EXCEPT ![t] = StatusOf(message[t].method, reply[t])]
       \/ status' = [status EXCEPT ![t] = Cut]
    /\ UNCHANGED <<vars, message, seen>>

\* The process dies with every handler that is at work.
Die ==
    /\ Crash
    /\ status' = [t \in Clients |-> IF status[t] = Pending THEN Cut ELSE status[t]]
    /\ UNCHANGED <<message, seen>>

ApiNext == \/ \E t \in Clients : \/ \E m \in Messages : \/ Unauthorized(t, m)
                                                        \/ BadRequest(t, m)
                                                        \/ Handle(t, m)
                                 \/ Serve(t)
                                 \/ Respond(t)
           \/ Die

ApiSpec == ApiInit /\ [][ApiNext]_allVars

-----------------------------------------------------------------------------
(***************************************************************************)
(* Properties.                                                             *)
(***************************************************************************)
\* Every variable stays in its range, those of the service included.
ApiTypeOK ==
    /\ TypeOK
    /\ message \in [Clients -> Messages \cup {Nil}]
    /\ status \in [Clients -> Statuses]
    /\ seen \in [Clients -> SUBSET Event]

\* Each endpoint answers only what its @Success and @Failure lines document
\* (handlers.go:34-38, :75-79, :118-122, :145-148).
Documented(method) ==
    CASE method = "POST"   -> {201, 400, 401, 409, 500}
      [] method = "PATCH"  -> {200, 400, 401, 404, 409, 500}
      [] method = "DELETE" -> {204, 400, 401, 404, 500}
      [] method = "GET"    -> {200, 400, 404, 500}

AnswersAreDocumented ==
    \A t \in Clients :
        status[t] \notin {Nil, Pending, Cut} => status[t] \in Documented(message[t].method)

\* The request t carries has changed the database.
TookEffect(t) == event[t] # Nil /\ event[t] \in outbox \ seen[t]

IdOf(m) == IF m.method = "POST" THEN m.body.id ELSE m.path

\* A change is the one that was asked for, by someone who may ask for it: a token
\* that is signed with HS256 and expires in the future (jwt.go:22-42), the id of
\* the path or the body, and the fields as they were sent, trimmed
\* (middleware.go:12-29, dto.go:21-86).
EffectMatchesMessage ==
    \A t \in Clients : TookEffect(t) =>
        LET m == message[t]
            c == event[t].company
            Sent(f) == m.body[f] # Nil
            Shown(f) == IF f \in {"name", "description"} THEN TrimSpace[m.body[f]] ELSE m.body[f]
        IN  /\ m.token = [hs256 |-> TRUE, signed |-> TRUE, expiry |-> "future"]
            /\ event[t].type = CASE m.method = "POST"   -> "created"
                                 [] m.method = "PATCH"  -> "updated"
                                 [] m.method = "DELETE" -> "deleted"
            /\ c.id = IdOf(m)
            /\ m.method \in {"POST", "PATCH"} =>
                 \A f \in PatchFields : Sent(f) => c[f] = Shown(f)

\* A client can trust an answer: 2xx to a change means it happened, and the company
\* in the body is the one its event shows; 4xx means it did not.  Only 500 and a cut
\* connection leave it in doubt (response.go:25-41 over transaction.go:28-51).
AnswerTellsTheTruth ==
    \A t \in Clients :
        /\ status[t] \in {200, 201, 204} /\ message[t].method # "GET" =>
             TookEffect(t) /\ event[t].company = local[t]
        /\ status[t] \in {400, 401, 404, 409} => ~ TookEffect(t)

\* The company of e was stored as e shows it at some moment since t's request
\* was accepted: no event known at that time supersedes it.
StoredSince(t, e) ==
    /\ e.type # "deleted"
    /\ \A f \in seen[t] : f.company.id = e.company.id => f.at <= e.at

\* c was absent at some such moment: when the request was accepted, or since.
AbsentSince(t, c) ==
    \/ ~ \E e \in seen[t] : e.company.id = c /\ StoredSince(t, e)
    \/ \E e \in outbox \ seen[t] : e.company.id = c /\ e.type = "deleted"

\* n is the name the request of t would store: the one it gives, trimmed, or, when
\* a patch gives none, one its company had at some such moment.  UPDATE sets every
\* column, so a patch without a name writes back the name it has read
\* (company_repository.go:72).
WantsName(t, n) ==
    LET m == message[t]
    IN  \/ m.body.name # Nil /\ n = TrimSpace[m.body.name]
        \/ /\ m.body.name = Nil
           /\ \E d \in outbox : /\ StoredSince(t, d)
                               /\ d.company.id = IdOf(m)
                               /\ d.company.name = n

\* Another company stood in the way at some such moment: one with the id of a
\* creation, or with the name.
Conflict(t) ==
    LET m == message[t]
    IN  \E e \in outbox :
           /\ StoredSince(t, e)
           /\ \/ m.method = "POST" /\ e.company.id = m.body.id
              \/ e.company.id # IdOf(m) /\ WantsName(t, e.company.name)

\* Status s is no older than the request of t.
Fresh(t, s) ==
    LET m == message[t]
    IN  /\ s = 200 /\ m.method = "GET" =>
             \E e \in outbox : StoredSince(t, e) /\ e.company = local[t]
        /\ s = 404 => AbsentSince(t, m.path)
        /\ s = 409 => Conflict(t)

\* No answer is older than its request: what a GET shows was the state of the
\* company while the request was handled, 404 means it was absent then, and 409
\* that the id or the name was taken then, by a committed company
\* (company_repository.go:36-145 under READ COMMITTED).
AnswersAreFresh == \A t \in Clients : Fresh(t, status[t])

\* The event of t is the change its message asks for, made to the company that d shows.
AppliedTo(t, d) ==
    LET m == message[t]
    IN  /\ d.company.id = IdOf(m)
        /\ d.at < event[t].at
        /\ m.method = "DELETE" => event[t].company = d.company
        /\ m.method = "PATCH" => \A f \in PatchFields :
             m.body[f] = Nil => event[t].company[f] = d.company[f]

\* t has changed a company that was there before.
Changed(t) == TookEffect(t) /\ message[t].method \in {"PATCH", "DELETE"}

\* A patch or a deletion is made to the company as it was stored at some moment since
\* the request was accepted, although the row is read in one statement and written, or
\* its payload stored, in a later one that does not look at it again
\* (service.go:86 and :104, :118 and :127).
ChangesBuildOnFreshRows ==
    \A t \in Clients : Changed(t) =>
        \E d \in outbox : StoredSince(t, d) /\ AppliedTo(t, d)

\* A patch or a deletion that nothing overlaps is exact: if the event before its own
\* was there when the request was accepted, a patch changes nothing but the fields it
\* gives and a deletion shows the company it removes.  Only overlapping requests lose
\* updates (service.go:76-113, against PatchKeepsMissingFields).
LoneChangesAreExact ==
    \A t \in Clients : Changed(t) =>
        \A d \in seen[t] : JustBefore(d, event[t]) => AppliedTo(t, d)

\* Postgres cannot store the company of a creation: its amount is past the column, or
\* its name or description holds a zero byte, which the entity accepts.
Unfit(body) ==
    body.amount > MaxInt4 \/ body.name \in Unstorable \/ body.description \in Unstorable

\* Without a failure nothing but a patch, or a creation Postgres cannot store, is
\* answered 500: only patches are sacrificed to a deadlock, and every other error has a
\* status of its own (response.go:25-41 over company_repository.go:36-145, :190-204).
InternalErrorHasCause ==
    \A t \in Clients : status[t] = 500 /\ faults = 0 =>
        \/ message[t].method = "PATCH"
        \/ message[t].method = "POST" /\ Unfit(message[t].body)
=============================================================================
