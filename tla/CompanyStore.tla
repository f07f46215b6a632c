---------------------------- MODULE CompanyStore ----------------------------
(***************************************************************************)
(* The company service over Postgres: the application service              *)
(* (internal/application/company/service.go) as main.go wires it, with the *)
(* transactional outbox, over the repositories and the transaction manager *)
(* of internal/infrastructure/postgres.                                    *)
(*                                                                         *)
(* Clients are the goroutines that serve HTTP requests.  One action is one *)
(* SQL statement together with the code up to the next statement, so two   *)
(* requests interleave exactly where the code lets them.  Transactions run *)
(* at Postgres' default READ COMMITTED: a SELECT sees the committed rows   *)
(* and takes no lock; an UPDATE, DELETE or INSERT locks its row and, when  *)
(* it sets a new name, the entry of the unique index, until the end of the *)
(* transaction; a statement that finds its lock taken waits and then looks *)
(* again.  A transaction's own writes stay in lockedRow, claimedName,      *)
(* local and event until Commit installs them.                             *)
(***************************************************************************)
EXTENDS CompanyDomain, FiniteSets

CONSTANTS
    Clients,      \* the goroutines that serve requests
    Requests,     \* the requests they may receive
    Seed,         \* the companies stored before the first request
    MaxInt4,      \* the largest value of the integer column amount_of_employees
    Unstorable,   \* the texts with a zero byte, which Postgres takes in no text
    MaxRequests,  \* bound: requests received in a behaviour
    MaxFaults     \* bound: failures (statement, acknowledgement, process) in a behaviour

\* A company a statement can carry: the amount fits the int4 column, or pgx fails to
\* encode it, and its texts are ones the server takes.
Encodable(c) == c.amount <= MaxInt4 /\ c.name \notin Unstorable /\ c.description \notin Unstorable

Ops == {"create", "patch", "delete", "get"}

\* A request: body is the input of a creation or the patch of an update.
Request == [op : Ops, id : Ids, body : Company \cup Patch \cup {Nil}]

ASSUME RequestAssumption ==
    \A r \in Requests :
        /\ r \in Request
        /\ r.op = "create" => r.body \in Company /\ r.body.id = r.id
        /\ r.op = "patch" => r.body \in Patch
        /\ r.op \in {"delete", "get"} => r.body = Nil

\* A zero byte is no white space: trimming neither removes nor adds one.
ASSUME UnstorableAssumption ==
    /\ EmptyString \notin Unstorable
    /\ \A s \in Strings : s \in Unstorable <=> TrimSpace[s] \in Unstorable

\* The stored companies went through CreateCompany.
ASSUME SeedAssumption ==
    /\ Seed \in [Ids -> Company \cup {Nil}]
    /\ \A c \in Ids : Seed[c] # Nil =>
         Seed[c].id = c /\ Validate(Seed[c]) = {} /\ Encodable(Seed[c])
    /\ \A c, d \in Ids :
         Seed[c] # Nil /\ Seed[d] # Nil /\ Seed[c].name = Seed[d].name => c = d

\* The process serves finitely many requests at a time.
ASSUME ClientAssumption == IsFiniteSet(Clients)

ASSUME BoundAssumption == MaxInt4 \in Nat /\ MaxRequests \in Nat /\ MaxFaults \in Nat

ASSUME NoIdAssumption == Nil \notin Ids /\ Nil \notin Requests /\ Nil \notin Event

VARIABLES
    \* the database
    rows,         \* committed table companies: a company or Nil for each id
    outbox,       \* committed table outbox_events, as a set of events
    lockedRow,    \* the row each client's transaction has written, or Nil
    claimedName,  \* the new name it has entered in the unique index, or Nil
    \* the process
    clock,        \* the last stamp handed out by now()
    pc,           \* the statement each client executes next
    req,          \* the request it serves, or served last
    local,        \* its company in memory
    event,        \* the event it has written to its transaction
    reply,        \* its last answer
    issued,       \* requests received so far
    faults        \* failures so far

database == <<rows, outbox>>
bounds == <<issued, faults>>
vars == <<rows, outbox, lockedRow, claimedName, clock, pc, req, local, event,
          reply, issued, faults>>

InTransaction == {"lookupId", "lookupName", "write", "claimName", "store", "commit"}

\* The events the stored companies left when they were created.
SeedEvents == {[type |-> "created", company |-> Seed[c], at |-> 0] :
                  c \in {d \in Ids : Seed[d] # Nil}}

Init ==
    /\ rows = Seed
    /\ outbox = SeedEvents
    /\ lockedRow = [t \in Clients |-> Nil]
    /\ claimedName = [t \in Clients |-> Nil]
    /\ clock = 0
    /\ pc = [t \in Clients |-> "idle"]
    /\ req = [t \in Clients |-> Nil]
    /\ local = [t \in Clients |-> Nil]
    /\ event = [t \in Clients |-> Nil]
    /\ reply = [t \in Clients |-> "none"]
    /\ issued = 0
    /\ faults = 0

-----------------------------------------------------------------------------
(***************************************************************************)
(* The end of a request.  Commit and Rollback both release every lock.     *)
(***************************************************************************)
Finish(t, answer) ==
    /\ pc' = [pc EXCEPT ![t] = "idle"]
    /\ reply' = [reply EXCEPT ![t] = answer]
    /\ lockedRow' = [lockedRow EXCEPT ![t] = Nil]
    /\ claimedName' = [claimedName EXCEPT ![t] = Nil]

\* Slip: an error returned without tx.Rollback leaves the transaction open.
RollbackForgotten(t, answer) ==
    /\ pc' = [pc EXCEPT ![t] = "idle"]
    /\ reply' = [reply EXCEPT ![t] = answer]
    /\ req' = [req EXCEPT ![t] = Nil]
    /\ local' = [local EXCEPT ![t] = Nil]
    /\ event' = [event EXCEPT ![t] = Nil]
    /\ UNCHANGED <<rows, outbox, clock, lockedRow, claimedName>>

\* fn returned an error: WithinTransaction rolls back and the caller gets no
\* company.
Rollback(t, answer) ==
    /\ Finish(t, answer)
    /\ req' = [req EXCEPT ![t] = Nil]
    /\ local' = [local EXCEPT ![t] = Nil]
    /\ event' = [event EXCEPT ![t] = Nil]
    /\ UNCHANGED <<rows, outbox, clock>>

\* The next statement is s, with c in memory and no write so far.
Proceed(t, c, s) ==
    /\ pc' = [pc EXCEPT ![t] = s]
    /\ local' = [local EXCEPT ![t] = c]
    /\ UNCHANGED <<database, lockedRow, claimedName, clock, req, event, reply>>

-----------------------------------------------------------------------------
(***************************************************************************)
(* The arrival of a request.                                               *)
(***************************************************************************)
Receive(t, r) ==
    /\ pc[t] = "idle"
    /\ issued < MaxRequests
    /\ issued' = issued + 1
    /\ r \in Requests
    /\ UNCHANGED faults

\* The transaction begins; the first statement is s.
Begin(t, r, c, s) ==
    /\ pc' = [pc EXCEPT ![t] = s]
    /\ req' = [req EXCEPT ![t] = r]
    /\ local' = [local EXCEPT ![t] = c]
    /\ event' = [event EXCEPT ![t] = Nil]
    /\ reply' = [reply EXCEPT ![t] = "none"]
    /\ UNCHANGED <<database, lockedRow, claimedName, clock>>

CreateCompany(t, r) ==
    /\ Receive(t, r)
    /\ r.op = "create"
    /\ LET new == NewWithID(r.body)
       IN  IF new.errors # {}
             THEN Rollback(t, "invalid")
             ELSE Begin(t, r, new.company, "lookupName")

PatchCompany(t, r) ==
    /\ Receive(t, r)
    /\ r.op = "patch"
    /\ IF IsEmpty(r.body)
         THEN Rollback(t, "emptyPatch")
         ELSE Begin(t, r, Nil, "lookupId")

DeleteCompany(t, r) ==
    /\ Receive(t, r)
    /\ r.op = "delete"
    /\ Begin(t, r, Nil, "lookupId")

GetCompany(t, r) ==
    /\ Receive(t, r)
    /\ r.op = "get"
    /\ Begin(t, r, Nil, "lookupId")

-----------------------------------------------------------------------------
(***************************************************************************)
(* The reads.  A SELECT sees the committed rows of its moment.             *)
(***************************************************************************)
\* Slip: the event stored before the row is updated and locked.
ApplyPatchToEventFirst(t, c) ==
    LET patched == ApplyPatch(c, req[t].body)
    IN  IF patched.errors # {}
          THEN Rollback(t, "invalid")
          ELSE Proceed(t, patched.company, "store")

ApplyPatchTo(t, c) ==
    LET patched == ApplyPatch(c, req[t].body)
    IN  IF patched.errors # {}
          THEN Rollback(t, "invalid")
          ELSE Proceed(t, patched.company, "write")

\* Slip: SELECT ... FOR SHARE against the lost update.
GetByIDForShare(t) ==
    /\ pc[t] = "lookupId"
    /\ rows[req[t].id] # Nil
    /\ req[t].op = "patch"
    /\ lockedRow' = [lockedRow EXCEPT ![t] = req[t].id]
    /\ local' = [local EXCEPT ![t] = rows[req[t].id]]
    /\ pc' = [pc EXCEPT ![t] = "lookupName"]
    /\ UNCHANGED <<database, claimedName, clock, req, event, reply, bounds>>

\* Slip: the row taken from a cache that no write refreshes.
GetByIDCached(t) ==
    /\ pc[t] = "lookupId"
    /\ Seed[req[t].id] # Nil
    /\ req[t].op = "patch"
    /\ IF req[t].body.name # Nil
         THEN Proceed(t, Seed[req[t].id], "lookupName")
         ELSE ApplyPatchTo(t, Seed[req[t].id])
    /\ UNCHANGED bounds

GetByID(t) ==
    /\ pc[t] = "lookupId"
    /\ LET id == req[t].id
           op == req[t].op
       IN  \/ /\ rows[id] = Nil
              /\ Rollback(t, "notFound")
           \/ /\ rows[id] # Nil
              /\ op = "get"
              /\ Finish(t, "ok")
              /\ local' = [local EXCEPT ![t] = rows[id]]
              /\ UNCHANGED <<database, clock, req, event>>
           \/ /\ rows[id] # Nil
              /\ op = "delete"
              /\ Proceed(t, rows[id], "write")
           \/ /\ rows[id] # Nil
              /\ op = "patch"
              /\ req[t].body.name # Nil
              /\ Proceed(t, rows[id], "lookupName")
           \/ /\ rows[id] # Nil
              /\ op = "patch"
              /\ req[t].body.name = Nil
              /\ ApplyPatchTo(t, rows[id])
    /\ UNCHANGED bounds

\* The rows that carry a name.
Owners(name) == {c \in Ids : rows[c] # Nil /\ rows[c].name = name}

\* The name looked up: a creation's is validated and trimmed, a patch's only trimmed.
NewName(t) == IF req[t].op = "create" THEN local[t].name ELSE TrimSpace[req[t].body.name]

\* The early check of a name; the unique constraint decides later.  A creation
\* refuses any owner, a patch any owner but the company itself.
GetByName(t) ==
    /\ pc[t] = "lookupName"
    /\ \/ /\ NewName(t) \in Unstorable
          /\ Rollback(t, "internal")
       \/ /\ NewName(t) \notin Unstorable
          /\ req[t].op = "create"
          /\ IF Owners(NewName(t)) # {}
               THEN Rollback(t, "duplicateName")
               ELSE Proceed(t, local[t], "write")
       \/ /\ NewName(t) \notin Unstorable
          /\ req[t].op = "patch"
          /\ IF Owners(NewName(t)) \ {req[t].id} # {}
               THEN Rollback(t, "duplicateName")
               ELSE ApplyPatchTo(t, local[t])
    /\ UNCHANGED bounds

-----------------------------------------------------------------------------
(***************************************************************************)
(* The writes.  A statement waits while another transaction has written    *)
(* the row, or entered the name, it needs.                                 *)
(***************************************************************************)
RowHolders(t, c) == {u \in Clients \ {t} : lockedRow[u] = c}

\* The clients whose unfinished transaction decides whether name is taken: one
\* that enters it, or one that has written the row that carries it.
NameHolders(t, name) ==
    {u \in Clients \ {t} : \/ claimedName[u] = name
                           \/ lockedRow[u] \in Owners(name)}

LockRow(t, s) ==
    /\ lockedRow' = [lockedRow EXCEPT ![t] = req[t].id]
    /\ pc' = [pc EXCEPT ![t] = s]
    /\ UNCHANGED <<database, claimedName, clock, req, local, event, reply>>

InsertRow(t) ==
    /\ pc[t] = "write"
    /\ req[t].op = "create"
    /\ \/ /\ ~ Encodable(local[t])
          /\ Rollback(t, "internal")
       \/ /\ Encodable(local[t])
          /\ RowHolders(t, req[t].id) = {}
          /\ IF rows[req[t].id] # Nil
               THEN Rollback(t, "duplicateId")
               ELSE LockRow(t, "claimName")
    /\ UNCHANGED bounds

\* Update sets every column of the row to the company read earlier and patched.
UpdateRow(t) ==
    /\ pc[t] = "write"
    /\ req[t].op = "patch"
    /\ \/ /\ ~ Encodable(local[t])
          /\ Rollback(t, "internal")
       \/ /\ Encodable(local[t])
          /\ rows[req[t].id] = Nil
          /\ Rollback(t, "notFound")
       \/ /\ Encodable(local[t])
          /\ rows[req[t].id] # Nil
          /\ RowHolders(t, req[t].id) = {}
          /\ LockRow(t, "claimName")
    /\ UNCHANGED bounds

\* Slip: RowsAffected ignored.
DeleteRowUnchecked(t) ==
    /\ pc[t] = "write"
    /\ req[t].op = "delete"
    /\ RowHolders(t, req[t].id) = {}
    /\ LockRow(t, "store")
    /\ UNCHANGED bounds

DeleteRow(t) ==
    /\ pc[t] = "write"
    /\ req[t].op = "delete"
    /\ \/ /\ rows[req[t].id] = Nil
          /\ Rollback(t, "notFound")
       \/ /\ rows[req[t].id] # Nil
          /\ RowHolders(t, req[t].id) = {}
          /\ LockRow(t, "store")
    /\ UNCHANGED bounds

\* The row already carries the name the transaction sets.
KeepsName(t) ==
    /\ rows[req[t].id] # Nil
    /\ rows[req[t].id].name = local[t].name

\* Slip: no unique constraint, the early check of the name decides alone.
ClaimNameUnchecked(t) ==
    /\ pc[t] = "claimName"
    /\ pc' = [pc EXCEPT ![t] = "store"]
    /\ UNCHANGED <<database, lockedRow, claimedName, clock, req, local, event, reply>>
    /\ UNCHANGED bounds

\* Slip: a name another transaction has entered taken for a stored one.
ClaimNameImpatient(t) ==
    /\ pc[t] = "claimName"
    /\ ~ KeepsName(t)
    /\ IF NameHolders(t, local[t].name) # {}
         THEN Rollback(t, "duplicateName")
         ELSE /\ Owners(local[t].name) = {}
              /\ pc' = [pc EXCEPT ![t] = "store"]
              /\ claimedName' = [claimedName EXCEPT ![t] = local[t].name]
              /\ UNCHANGED <<database, lockedRow, clock, req, local, event, reply>>
    /\ UNCHANGED bounds

\* The second half of an INSERT or UPDATE: the entry in the unique index on name.
ClaimName(t) ==
    /\ pc[t] = "claimName"
    /\ \/ /\ KeepsName(t)
          /\ pc' = [pc EXCEPT ![t] = "store"]
          /\ UNCHANGED <<database, lockedRow, claimedName, clock, req, local, event, reply>>
       \/ /\ ~ KeepsName(t)
          /\ NameHolders(t, local[t].name) = {}
          /\ IF Owners(local[t].name) # {}
               THEN Rollback(t, "duplicateName")
               ELSE /\ pc' = [pc EXCEPT ![t] = "store"]
                    /\ claimedName' = [claimedName EXCEPT ![t] = local[t].name]
                    /\ UNCHANGED <<database, lockedRow, clock, req, local, event, reply>>
    /\ UNCHANGED bounds

-----------------------------------------------------------------------------
(***************************************************************************)
(* The event and the end of the transaction.                               *)
(***************************************************************************)
EventType(op) == CASE op = "create" -> "created"
                   [] op = "patch"  -> "updated"
                   [] op = "delete" -> "deleted"

\* Slip: the event inserted on a pool connection instead of the transaction's.
StoreEventOutside(t) ==
    /\ pc[t] = "store"
    /\ clock' = clock + 1
    /\ event' = [event EXCEPT ![t] = [type    |-> EventType(req[t].op),
                                     company |-> local[t],
                                     at      |-> clock + 1]]
    /\ outbox' = outbox \cup {event'[t]}
    /\ pc' = [pc EXCEPT ![t] = "commit"]
    /\ UNCHANGED <<rows, lockedRow, claimedName, req, local, reply, bounds>>

\* Slip: the payload shows the row as it was before the change.
StoreEventStale(t) ==
    /\ pc[t] = "store"
    /\ clock' = clock + 1
    /\ event' = [event EXCEPT ![t] =
                    [type    |-> EventType(req[t].op),
                     company |-> IF req[t].op = "create" THEN local[t] ELSE rows[req[t].id],
                     at      |-> clock + 1]]
    /\ pc' = [pc EXCEPT ![t] = "commit"]
    /\ UNCHANGED <<database, lockedRow, claimedName, req, local, reply, bounds>>

\* Slip: the event of a deletion carries no company.
StoreEventNoPayload(t) ==
    /\ pc[t] = "store"
    /\ clock' = clock + 1
    /\ event' = [event EXCEPT ![t] =
                    [type    |-> EventType(req[t].op),
                     company |-> IF req[t].op = "delete" THEN Nil ELSE local[t],
                     at      |-> clock + 1]]
    /\ pc' = [pc EXCEPT ![t] = "commit"]
    /\ UNCHANGED <<database, lockedRow, claimedName, req, local, reply, bounds>>

\* publish stamps the event with now(), while the transaction holds the lock of
\* its row, and inserts it in the same transaction.
StoreEvent(t) ==
    /\ pc[t] = "store"
    /\ clock' = clock + 1
    /\ event' = [event EXCEPT ![t] = [type    |-> EventType(req[t].op),
                                     company |-> local[t],
                                     at      |-> clock + 1]]
    /\ pc' = [pc EXCEPT ![t] = "commit"]
    /\ UNCHANGED <<database, lockedRow, claimedName, req, local, reply, bounds>>

\* Slip: the row committed, its event lost.
InstallRowOnly(t) ==
    /\ rows' = [rows EXCEPT ![req[t].id] = IF req[t].op = "delete" THEN Nil ELSE local[t]]
    /\ UNCHANGED outbox

\* The row and the event become visible together.
Install(t) ==
    /\ rows' = [rows EXCEPT ![req[t].id] = IF req[t].op = "delete" THEN Nil ELSE local[t]]
    /\ outbox' = outbox \cup {event[t]}

Commit(t) ==
    /\ pc[t] = "commit"
    /\ Install(t)
    /\ Finish(t, "ok")
    /\ UNCHANGED <<clock, req, local, event, bounds>>

-----------------------------------------------------------------------------
(***************************************************************************)
(* Failures.                                                               *)
(***************************************************************************)
Fault == faults < MaxFaults /\ faults' = faults + 1

\* A statement, BEGIN or COMMIT returns an error (a lost connection, an expired
\* context): the transaction is rolled back and the client is told 500.
Fail(t) ==
    /\ Fault
    /\ pc[t] \in InTransaction
    /\ Rollback(t, "internal")
    /\ UNCHANGED issued

\* COMMIT takes effect but its acknowledgement is lost: the client is told 500.
CommitUnacked(t) ==
    /\ Fault
    /\ pc[t] = "commit"
    /\ Install(t)
    /\ Finish(t, "internal")
    /\ UNCHANGED <<clock, req, local, event, issued>>

\* The statement of t gets as far as the lock of its row: the company can be encoded,
\* and an UPDATE or DELETE finds the row.
NeedsRow(t) ==
    /\ req[t].op = "create" \/ rows[req[t].id] # Nil
    /\ req[t].op = "delete" \/ Encodable(local[t])

\* The clients whose transaction t's next statement waits for.
WaitsFor(t) ==
    CASE pc[t] = "write"     -> IF NeedsRow(t) THEN RowHolders(t, req[t].id) ELSE {}
      [] pc[t] = "claimName" -> IF KeepsName(t) THEN {} ELSE NameHolders(t, local[t].name)
      [] OTHER               -> {}

\* S holds whoever a member of it waits for.
ClosedUnderWaiting(S) == \A u \in S : WaitsFor(u) \subseteq S

\* t waits for itself through others.
Deadlocked(t) ==
    \A S \in SUBSET Clients :
        WaitsFor(t) \subseteq S /\ ClosedUnderWaiting(S) => t \in S

\* Postgres breaks a cycle of waiting transactions by aborting one of them with
\* an error mapPostgresError does not recognise.
AbortDeadlock(t) ==
    /\ pc[t] \in {"write", "claimName"}
    /\ Deadlocked(t)
    /\ Rollback(t, "internal")
    /\ UNCHANGED bounds

\* The process dies: every unfinished transaction is rolled back by Postgres and
\* its client never gets an answer.
Crash ==
    /\ Fault
    /\ \E t \in Clients : pc[t] # "idle"
    /\ reply' = [t \in Clients |-> IF pc[t] = "idle" THEN reply[t] ELSE "lost"]
    /\ req' = [t \in Clients |-> IF pc[t] = "idle" THEN req[t] ELSE Nil]
    /\ local' = [t \in Clients |-> IF pc[t] = "idle" THEN local[t] ELSE Nil]
    /\ event' = [t \in Clients |-> IF pc[t] = "idle" THEN event[t] ELSE Nil]
    /\ pc' = [t \in Clients |-> "idle"]
    /\ lockedRow' = [t \in Clients |-> Nil]
    /\ claimedName' = [t \in Clients |-> Nil]
    /\ UNCHANGED <<database, clock, issued>>

-----------------------------------------------------------------------------
Arrive(t) == \E r \in Requests : \/ CreateCompany(t, r)
                                 \/ PatchCompany(t, r)
                                 \/ DeleteCompany(t, r)
                                 \/ GetCompany(t, r)

\* A step of t's own code or of the server on its behalf, failures aside.
Work(t) == \/ GetByID(t)
           \/ GetByName(t)
           \/ InsertRow(t)
           \/ UpdateRow(t)
           \/ DeleteRow(t)
           \/ ClaimName(t)
           \/ StoreEvent(t)
           \/ Commit(t)
           \/ AbortDeadlock(t)

Next == \/ \E t \in Clients : \/ Arrive(t)
                              \/ Work(t)
                              \/ Fail(t)
                              \/ CommitUnacked(t)
        \/ Crash

Spec == Init /\ [][Next]_vars

\* The scheduler runs every goroutine and the server serves every statement whose
\* lock is free.  Arrivals and failures are nobody's duty.
FairSpec == Spec /\ \A t \in Clients : WF_vars(Work(t))

-----------------------------------------------------------------------------
(***************************************************************************)
(* Properties.                                                             *)
(***************************************************************************)
Replies == {"none", "ok", "invalid", "emptyPatch", "notFound", "duplicateName",
            "duplicateId", "internal", "lost"}

\* Every variable stays in its range.
TypeOK ==
    /\ rows \in [Ids -> Company \cup {Nil}]
    /\ outbox \subseteq Event
    /\ lockedRow \in [Clients -> Ids \cup {Nil}]
    /\ claimedName \in [Clients -> Strings \cup {Nil}]
    /\ clock \in Nat
    /\ pc \in [Clients -> InTransaction \cup {"idle"}]
    /\ req \in [Clients -> Requests \cup {Nil}]
    /\ local \in [Clients -> Company \cup {Nil}]
    /\ event \in [Clients -> Event \cup {Nil}]
    /\ reply \in [Clients -> Replies]
    /\ issued \in 0..MaxRequests
    /\ faults \in 0..MaxFaults

\* Two committed rows never carry the same name, although CreateCompany and
\* PatchCompany check the name in one statement and write it in another
\* (service.go:53 and :59, :93 and :104).
NamesUnique ==
    \A c, d \in Ids :
        rows[c] # Nil /\ rows[d] # Nil /\ rows[c].name = rows[d].name => c = d

EventsOf(c) == {e \in outbox : e.company.id = c}

\* e carries the last stamp of its company.
Latest(e) == \A f \in EventsOf(e.company.id) : f.at <= e.at

\* A reader who keeps the last event of each company by stamp has exactly the
\* table: the last event of a stored company is no deletion and shows its row,
\* the last event of a company that is not stored is a deletion.  This is what
\* storing the event in the transaction that writes the row is for, and it
\* needs now() to be called under the row's lock (service.go:144-168).
OutboxMirrorsTable ==
    \A c \in Ids :
        IF rows[c] = Nil
          THEN \A e \in EventsOf(c) : Latest(e) => e.type = "deleted"
          ELSE \E e \in EventsOf(c) : /\ Latest(e)
                                      /\ e.type # "deleted"
                                      /\ e.company = rows[c]

\* d is the event of its company just before e.
JustBefore(d, e) ==
    /\ d \in EventsOf(e.company.id)
    /\ d.at < e.at
    /\ \A f \in EventsOf(e.company.id) : f.at < e.at => f.at <= d.at

\* The events of a company tell a life: a creation comes first or after a
\* deletion and nowhere else, so no update or deletion of a company that is not
\* there is ever announced, and no creation is announced twice, whichever
\* requests race (service.go:63, :108, :127).
EventsTellALife ==
    \A e \in outbox :
        LET before == {d \in outbox : JustBefore(d, e)}
        IN  (e.type = "created") <=> (\A d \in before : d.type = "deleted")

\* An answer 200/201/204 to a change means that its event is in the outbox, with
\* the company the answer shows (service.go:46-133).
OkMeansRecorded ==
    \A t \in Clients :
        reply[t] = "ok" /\ req[t].op # "get" =>
            event[t] \in outbox /\ event[t].company = local[t]

\* The company a deletion shows is one an earlier event announced.  It need not
\* be the last one: DeleteCompany reads the row before it locks it, and a patch
\* may come between (service.go:118, :123).
DeletionsShowAnnounced ==
    \A e \in outbox : e.type = "deleted" =>
        \E d \in EventsOf(e.company.id) :
            d.type # "deleted" /\ d.at < e.at /\ d.company = e.company

\* Events of a company become visible in the order of their stamps, so a reader
\* of the outbox who has read up to a stamp misses nothing of that company
\* (service.go:148 takes the stamp, transaction.go:46 commits it).
StampsFollowCommits ==
    [][\A e \in outbox' \ outbox : \A f \in EventsOf(e.company.id) : f.at < e.at]_vars

\* A patch leaves the fields it does not mention as they are: the test "patch
\* partial update does not overwrite missing fields"
\* (tests/integration/company_http_test.go:147).
PatchFields == {"name", "description", "amount", "registered", "type"}
PatchKeepsMissingFields ==
    [][\A t \in Clients :
         pc[t] = "commit" /\ req[t].op = "patch" /\ outbox' # outbox /\ pc'[t] = "idle" =>
           LET c == req[t].id
           IN  \A f \in PatchFields : req[t].body[f] = Nil => rows'[c][f] = rows[c][f]]_vars

\* Requests in flight never all wait for each other for good: some statement can
\* always be served (the row and name locks of company_repository.go:36-113 are
\* taken in an order that depends on the requests).
SomeoneCanMove == (\E t \in Clients : pc[t] # "idle") => \E t \in Clients : ENABLED Work(t)

\* Only renames deadlock: a creation or deletion is never the victim the server
\* picks, and no cycle goes through the lock of a row (company_repository.go:36-113
\* lock one row each and then at most one name).
OnlyRenamesDeadlock ==
    \A t \in Clients : Deadlocked(t) => pc[t] = "claimName" /\ req[t].op = "patch"

\* Every request is answered, unless the process dies: a waiting statement gets
\* its lock or the deadlock is broken.
EveryRequestAnswered == \A t \in Clients : pc[t] # "idle" ~> pc[t] = "idle"

\* The service keeps the promise of CompanyLog: a change and its event are one
\* step, taken when the transaction commits.
Log == INSTANCE CompanyLog WITH Seed <- Seed, rows <- rows, outbox <- outbox
Refinement == Log!Spec
=============================================================================
