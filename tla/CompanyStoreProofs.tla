------------------------- MODULE CompanyStoreProofs -------------------------
(***************************************************************************)
(* Theorems about CompanyStore, for every set of clients, ids, texts and   *)
(* requests and for any number of failures.                                *)
(***************************************************************************)
EXTENDS CompanyStore, DomainLemmas, OrderLemmas, FiniteSetTheorems

-----------------------------------------------------------------------------
(***************************************************************************)
(* The inductive invariant.  Its parts say, in turn: what a client knows   *)
(* at each statement; which locks it holds there; what the rows look like; *)
(* that locks are exclusive; what the locks protect, namely the existence  *)
(* of the row written and the freedom of the name set; and that stamps     *)
(* grow.                                                                   *)
(***************************************************************************)
Writing == {"claimName", "store", "commit"}

ClientOK(t) ==
    /\ pc[t] # "idle" => req[t] \in Requests
    /\ pc[t] = "lookupName" =>
         /\ req[t].op \in {"create", "patch"}
         /\ req[t].op = "create" => Validate(local[t]) = {}
         /\ local[t] \in Company
         /\ local[t].id = req[t].id
    /\ pc[t] \in {"write"} \cup Writing =>
         /\ req[t].op \in {"create", "patch", "delete"}
         /\ local[t] \in Company
         /\ local[t].id = req[t].id
         /\ Validate(local[t]) = {}
    /\ pc[t] = "claimName" => req[t].op # "delete"

LockOK(t) ==
    /\ pc[t] \in Writing => lockedRow[t] = req[t].id
    /\ pc[t] \notin Writing => lockedRow[t] = Nil
    /\ claimedName[t] # Nil => /\ pc[t] \in {"store", "commit"}
                              /\ req[t].op # "delete"
                              /\ claimedName[t] = local[t].name

RowsOK == \A c \in Ids : rows[c] # Nil => rows[c].id = c /\ Validate(rows[c]) = {}

RowLocksExclusive ==
    \A t, u \in Clients : t # u /\ lockedRow[t] # Nil => lockedRow[t] # lockedRow[u]

NameLocksExclusive ==
    \A t, u \in Clients : t # u /\ claimedName[t] # Nil => claimedName[t] # claimedName[u]

RowExists(t) ==
    pc[t] \in Writing =>
        (req[t].op = "create") <=> (rows[req[t].id] = Nil)

NameHeld(t) ==
    pc[t] \in {"store", "commit"} /\ req[t].op # "delete" =>
        \/ KeepsName(t)
        \/ claimedName[t] = local[t].name /\ Owners(local[t].name) = {}

StampsOK == \A e \in outbox : e.at <= clock

EventOK(t) ==
    pc[t] = "commit" =>
        /\ event[t] \in Event
        /\ event[t].type = EventType(req[t].op)
        /\ event[t].company = local[t]
        /\ event[t].at <= clock
        /\ \A e \in EventsOf(req[t].id) : e.at < event[t].at

PerClient(t) == /\ ClientOK(t)
                /\ LockOK(t)
                /\ RowExists(t)
                /\ NameHeld(t)
                /\ EventOK(t)

IInv == /\ TypeOK
        /\ RowsOK
        /\ RowLocksExclusive
        /\ NameLocksExclusive
        /\ StampsOK
        /\ NamesUnique
        /\ OutboxMirrorsTable
        /\ \A t \in Clients : PerClient(t)

-----------------------------------------------------------------------------
(***************************************************************************)
(* Steps that leave the tables alone and change one client.                *)
(***************************************************************************)

\* The step does not touch client u.
Untouched(u) == /\ pc'[u] = pc[u]
                /\ req'[u] = req[u]
                /\ local'[u] = local[u]
                /\ event'[u] = event[u]
                /\ lockedRow'[u] = lockedRow[u]
                /\ claimedName'[u] = claimedName[u]

\* What holds of a client goes on to hold while neither it nor a table changes.
LEMMA ClientUntouched ==
    ASSUME NEW u \in Clients, Untouched(u), PerClient(u),
           UNCHANGED <<rows, outbox>>,
           clock \in Nat, clock' \in Nat, clock <= clock'
    PROVE  PerClient(u)'
<1>1. ClientOK(u)'
  BY DEF PerClient, ClientOK, Untouched, Writing
<1>2. LockOK(u)'
  BY DEF PerClient, LockOK, Untouched, Writing
<1>3. RowExists(u)'
  BY DEF PerClient, RowExists, Untouched, Writing
<1>4. NameHeld(u)'
  BY DEF PerClient, NameHeld, Untouched, KeepsName, Owners
<1>5. EventOK(u)'
  <2>1. ASSUME pc[u] = "commit"
        PROVE  event[u].at <= clock'
    BY <2>1 DEF PerClient, EventOK, Event
  <2> QED BY <2>1 DEF PerClient, EventOK, Untouched, EventsOf
<1> QED BY <1>1, <1>2, <1>3, <1>4, <1>5 DEF PerClient

\* Such a step keeps the invariant if it is right about the client it changes
\* and takes only locks that are free.
LEMMA QuietStep ==
    ASSUME IInv, TypeOK', NEW t \in Clients, PerClient(t)',
           \A u \in Clients \ {t} : Untouched(u),
           \A u \in Clients \ {t} :
               /\ lockedRow'[t] # Nil => lockedRow[u] # lockedRow'[t]
               /\ claimedName'[t] # Nil => claimedName[u] # claimedName'[t],
           UNCHANGED <<rows, outbox>>, clock <= clock'
    PROVE  IInv'
<1>1. \A u \in Clients \ {t} : PerClient(u)'
  BY ClientUntouched DEF IInv, TypeOK
<1>2. RowsOK' /\ NamesUnique'
  BY DEF IInv, RowsOK, NamesUnique
<1>3. OutboxMirrorsTable'
  BY DEF IInv, OutboxMirrorsTable, EventsOf, Latest
<1>4. StampsOK'
  BY DEF IInv, StampsOK, TypeOK, Event
<1>5. RowLocksExclusive'
  BY DEF IInv, RowLocksExclusive, Untouched
<1>6. NameLocksExclusive'
  BY DEF IInv, NameLocksExclusive, Untouched
<1> QED BY <1>1, <1>2, <1>3, <1>4, <1>5, <1>6 DEF IInv

\* The fields of a request.
LEMMA RequestType ==
    ASSUME NEW r \in Requests
    PROVE  /\ r.op \in Ops
           /\ r.id \in Ids
           /\ r.op = "create" => r.body \in Company /\ r.body.id = r.id
           /\ r.op = "patch" => r.body \in Patch
           /\ r # Nil
BY RequestAssumption, NoIdAssumption DEF Request

BoundsOK == issued' \in 0..MaxRequests /\ faults' \in 0..MaxFaults

\* A refused or failed request gives everything back.
LEMMA RollbackKeeps ==
    ASSUME IInv, NEW t \in Clients, NEW a \in Replies, Rollback(t, a), BoundsOK
    PROVE  IInv'
<1> USE DEF Rollback, Finish
<1>1. TypeOK'
  BY DEF IInv, TypeOK, BoundsOK
<1>2. /\ pc'[t] = "idle"
      /\ lockedRow'[t] = Nil
      /\ claimedName'[t] = Nil
  BY DEF IInv, TypeOK
<1>3. PerClient(t)'
  BY <1>2 DEF PerClient, ClientOK, LockOK, RowExists, NameHeld, EventOK, Writing
<1>4. \A u \in Clients \ {t} : Untouched(u)
  BY DEF Untouched, IInv, TypeOK
<1> QED
  BY <1>1, <1>2, <1>3, <1>4, QuietStep DEF IInv, TypeOK

\* A read that hands a valid company of the right id to the next statement.
LEMMA ProceedKeeps ==
    ASSUME IInv, NEW t \in Clients, NEW c \in Company, c.id = req[t].id,
           NEW s \in {"lookupName", "write"}, Proceed(t, c, s), BoundsOK,
           pc[t] \in {"lookupId", "lookupName"},
           s = "lookupName" => req[t].op = "patch",
           s = "write" => /\ req[t].op \in {"create", "patch", "delete"}
                          /\ Validate(c) = {}
    PROVE  IInv'
<1> USE DEF Proceed, database
<1>1. TypeOK'
  BY DEF IInv, TypeOK, BoundsOK, InTransaction
<1>2. /\ pc'[t] = s
      /\ local'[t] = c
      /\ req'[t] = req[t]
      /\ lockedRow'[t] = Nil
      /\ claimedName'[t] = Nil
      /\ req[t] \in Requests
  BY DEF IInv, TypeOK, PerClient, LockOK, ClientOK, Writing
<1>3. ClientOK(t)'
  BY <1>2 DEF ClientOK, Writing
<1>4. PerClient(t)'
  BY <1>2, <1>3 DEF PerClient, LockOK, RowExists, NameHeld, EventOK, Writing
<1>5. \A u \in Clients \ {t} : Untouched(u)
  BY DEF Untouched, IInv, TypeOK
<1> QED
  BY <1>1, <1>2, <1>4, <1>5, QuietStep DEF IInv, TypeOK

\* A request arrives and its transaction begins.
LEMMA BeginKeeps ==
    ASSUME IInv, NEW t \in Clients, NEW r \in Requests, NEW c \in Company \cup {Nil},
           NEW s \in {"lookupId", "lookupName"}, pc[t] = "idle", Begin(t, r, c, s), BoundsOK,
           s = "lookupName" => /\ r.op = "create"
                               /\ c \in Company
                               /\ c.id = r.id
                               /\ Validate(c) = {}
    PROVE  IInv'
<1> USE DEF Begin, database
<1>1. TypeOK'
  BY DEF IInv, TypeOK, BoundsOK, InTransaction, Replies
<1>2. /\ pc'[t] = s
      /\ local'[t] = c
      /\ req'[t] = r
      /\ lockedRow'[t] = Nil
      /\ claimedName'[t] = Nil
  BY DEF IInv, TypeOK, PerClient, LockOK, Writing
<1>3. PerClient(t)'
  BY <1>2 DEF PerClient, ClientOK, LockOK, RowExists, NameHeld, EventOK, Writing
<1>4. \A u \in Clients \ {t} : Untouched(u)
  BY DEF Untouched, IInv, TypeOK
<1> QED
  BY <1>1, <1>2, <1>3, <1>4, QuietStep DEF IInv, TypeOK

\* A statement that finds its row free locks it.
LEMMA LockRowKeeps ==
    ASSUME IInv, NEW t \in Clients, NEW s \in {"claimName", "store"}, LockRow(t, s), BoundsOK,
           pc[t] = "write",
           RowHolders(t, req[t].id) = {},
           (req[t].op = "create") <=> (rows[req[t].id] = Nil),
           s = "claimName" <=> req[t].op # "delete"
    PROVE  IInv'
<1> USE DEF LockRow, database
<1>1. /\ req[t] \in Requests
      /\ req[t].id \in Ids
      /\ req[t].id # Nil
      /\ claimedName[t] = Nil
  BY RequestType, NoIdAssumption DEF IInv, PerClient, ClientOK, LockOK
<1>2. TypeOK'
  BY <1>1 DEF IInv, TypeOK, BoundsOK, InTransaction
<1>3. /\ pc'[t] = s
      /\ lockedRow'[t] = req[t].id
      /\ UNCHANGED <<req, local, event, claimedName, rows, outbox, clock>>
  BY DEF IInv, TypeOK
<1>4. ClientOK(t)'
  BY <1>1, <1>3 DEF IInv, PerClient, ClientOK, Writing
<1>5. PerClient(t)'
  BY <1>1, <1>3, <1>4 DEF PerClient, LockOK, RowExists, NameHeld, EventOK, Writing
<1>6. \A u \in Clients \ {t} : Untouched(u)
  BY DEF Untouched, IInv, TypeOK
<1>7. \A u \in Clients \ {t} : lockedRow[u] # req[t].id
  BY DEF RowHolders
<1> QED
  BY <1>1, <1>2, <1>3, <1>5, <1>6, <1>7, QuietStep DEF IInv, TypeOK

-----------------------------------------------------------------------------
(***************************************************************************)
(* The actions that leave the tables alone.                                *)
(***************************************************************************)
\* A request that arrives is refused at once or begins its transaction
\* (service.go:46-52, :71-74).
LEMMA ArriveKeeps ==
    ASSUME IInv, NEW t \in Clients, Arrive(t)
    PROVE  IInv'
<1>1. PICK r \in Requests : \/ CreateCompany(t, r)
                            \/ PatchCompany(t, r)
                            \/ DeleteCompany(t, r)
                            \/ GetCompany(t, r)
  BY DEF Arrive
<1>2. pc[t] = "idle" /\ BoundsOK
  <2>1. Receive(t, r)
    BY <1>1 DEF CreateCompany, PatchCompany, DeleteCompany, GetCompany
  <2> QED BY <2>1, BoundAssumption DEF Receive, BoundsOK, IInv, TypeOK
<1>3. CASE CreateCompany(t, r)
  <2>1. CASE NewWithID(r.body).errors # {}
    <3>1. Rollback(t, "invalid")
      BY <1>3, <2>1 DEF CreateCompany
    <3> QED BY <3>1, <1>2, RollbackKeeps DEF Replies
  <2>2. CASE NewWithID(r.body).errors = {}
    <3>1. Begin(t, r, NewWithID(r.body).company, "lookupName")
      BY <1>3, <2>2 DEF CreateCompany
    <3>2. r.op = "create" /\ r.body \in Company /\ r.body.id = r.id
      BY <1>3, RequestType DEF CreateCompany
    <3>3. /\ NewWithID(r.body).company \in Company
          /\ NewWithID(r.body).company.id = r.id
          /\ Validate(NewWithID(r.body).company) = {}
      BY <2>2, <3>2, NewCompany
    <3> QED BY <3>1, <3>2, <3>3, <1>2, BeginKeeps
  <2> QED BY <2>1, <2>2
<1>4. CASE PatchCompany(t, r)
  <2>1. CASE Rollback(t, "emptyPatch")
    BY <2>1, <1>2, RollbackKeeps DEF Replies
  <2>2. CASE Begin(t, r, Nil, "lookupId")
    BY <2>2, <1>2, BeginKeeps
  <2> QED BY <1>4, <2>1, <2>2 DEF PatchCompany
<1>5. CASE DeleteCompany(t, r) \/ GetCompany(t, r)
  BY <1>5, <1>2, BeginKeeps DEF DeleteCompany, GetCompany
<1> QED BY <1>1, <1>3, <1>4, <1>5

\* Failures are counted and requests are not, or neither.
LEMMA BoundsKept ==
    ASSUME IInv, UNCHANGED bounds \/ (Fault /\ UNCHANGED issued)
    PROVE  BoundsOK
BY BoundAssumption DEF IInv, TypeOK, BoundsOK, bounds, Fault

\* The patch is applied in memory.
LEMMA ApplyPatchKeeps ==
    ASSUME IInv, NEW t \in Clients, NEW c \in Company, c.id = req[t].id,
           ApplyPatchTo(t, c), BoundsOK,
           pc[t] \in {"lookupId", "lookupName"}, req[t].op = "patch"
    PROVE  IInv'
<1> DEFINE patched == ApplyPatch(c, req[t].body)
<1>1. CASE patched.errors # {}
  <2>1. Rollback(t, "invalid")
    BY <1>1 DEF ApplyPatchTo
  <2> QED BY <2>1, RollbackKeeps DEF Replies
<1>2. CASE patched.errors = {}
  <2>1. Proceed(t, patched.company, "write")
    BY <1>2 DEF ApplyPatchTo
  <2>2. req[t].body \in Patch
    BY RequestType DEF IInv, PerClient, ClientOK
  <2>3. /\ patched.company \in Company
        /\ patched.company.id = c.id
        /\ Validate(patched.company) = {}
    BY <1>2, <2>2, PatchedCompany
  <2> HIDE DEF patched
  <2> QED BY <2>1, <2>3, ProceedKeeps
<1> QED BY <1>1, <1>2

\* The SELECT by id ends the request or hands the row to the next statement.
LEMMA GetByIDKeeps ==
    ASSUME IInv, NEW t \in Clients, GetByID(t)
    PROVE  IInv'
<1>1. /\ pc[t] = "lookupId"
      /\ req[t] \in Requests
      /\ req[t].id \in Ids
      /\ BoundsOK
  BY BoundsKept, RequestType DEF GetByID, IInv, PerClient, ClientOK
<1> DEFINE c == rows[req[t].id]
<1>2. CASE c = Nil /\ Rollback(t, "notFound")
  BY <1>1, <1>2, RollbackKeeps DEF Replies
<1>3. ASSUME c # Nil
      PROVE  c \in Company /\ c.id = req[t].id /\ Validate(c) = {}
  BY <1>1, <1>3 DEF IInv, TypeOK, RowsOK
<1>4. CASE /\ c # Nil
           /\ Finish(t, "ok")
           /\ local' = [local EXCEPT ![t] = c]
           /\ UNCHANGED <<database, clock, req, event>>
  <2> USE DEF Finish, database
  <2>1. TypeOK'
    BY <1>1, <1>3, <1>4 DEF IInv, TypeOK, BoundsOK, Replies
  <2>2. /\ pc'[t] = "idle"
        /\ lockedRow'[t] = Nil
        /\ claimedName'[t] = Nil
    BY <1>4 DEF IInv, TypeOK
  <2>3. PerClient(t)'
    BY <2>2 DEF PerClient, ClientOK, LockOK, RowExists, NameHeld, EventOK, Writing
  <2>4. \A u \in Clients \ {t} : Untouched(u)
    BY <1>4 DEF Untouched, IInv, TypeOK
  <2> QED
    BY <1>4, <2>1, <2>2, <2>3, <2>4, QuietStep DEF IInv, TypeOK
<1>5. CASE c # Nil /\ req[t].op = "delete" /\ Proceed(t, c, "write")
  BY <1>1, <1>3, <1>5, ProceedKeeps
<1>6. CASE c # Nil /\ req[t].op = "patch" /\ Proceed(t, c, "lookupName")
  BY <1>1, <1>3, <1>6, ProceedKeeps
<1>7. CASE c # Nil /\ req[t].op = "patch" /\ ApplyPatchTo(t, c)
  BY <1>1, <1>3, <1>7, ApplyPatchKeeps
<1> QED
  BY <1>2, <1>4, <1>5, <1>6, <1>7 DEF GetByID

\* The SELECT by name refuses the request or lets it write; it takes no lock.
LEMMA GetByNameKeeps ==
    ASSUME IInv, NEW t \in Clients, GetByName(t)
    PROVE  IInv'
<1>1. /\ pc[t] = "lookupName"
      /\ local[t] \in Company
      /\ local[t].id = req[t].id
      /\ req[t].op = "create" => Validate(local[t]) = {}
      /\ BoundsOK
  BY BoundsKept DEF GetByName, IInv, PerClient, ClientOK
<1>2. CASE Rollback(t, "duplicateName") \/ Rollback(t, "internal")
  BY <1>1, <1>2, RollbackKeeps DEF Replies
<1>3. CASE req[t].op = "create" /\ Proceed(t, local[t], "write")
  BY <1>1, <1>3, ProceedKeeps
<1>4. CASE req[t].op = "patch" /\ ApplyPatchTo(t, local[t])
  BY <1>1, <1>4, ApplyPatchKeeps
<1> QED BY <1>2, <1>3, <1>4 DEF GetByName

\* INSERT, UPDATE and DELETE find their row free, and lock it, or give up
\* (company_repository.go:36-113).
LEMMA WriteKeeps ==
    ASSUME IInv, NEW t \in Clients, InsertRow(t) \/ UpdateRow(t) \/ DeleteRow(t)
    PROVE  IInv'
<1>1. pc[t] = "write" /\ BoundsOK
  BY BoundsKept DEF InsertRow, UpdateRow, DeleteRow
<1>2. CASE \E a \in {"internal", "duplicateId", "notFound"} : Rollback(t, a)
  BY <1>1, <1>2, RollbackKeeps DEF Replies
<1>3. CASE /\ req[t].op \in {"create", "patch"}
           /\ (req[t].op = "create") <=> (rows[req[t].id] = Nil)
           /\ RowHolders(t, req[t].id) = {}
           /\ LockRow(t, "claimName")
  BY <1>1, <1>3, LockRowKeeps
<1>4. CASE /\ req[t].op = "delete"
           /\ rows[req[t].id] # Nil
           /\ RowHolders(t, req[t].id) = {}
           /\ LockRow(t, "store")
  BY <1>1, <1>4, LockRowKeeps
<1> QED BY <1>2, <1>3, <1>4 DEF InsertRow, UpdateRow, DeleteRow

\* The entry in the unique index is made only while no other transaction holds
\* the name and no row carries it (migrations/000001_create_companies.up.sql).
LEMMA ClaimNameKeeps ==
    ASSUME IInv, NEW t \in Clients, ClaimName(t)
    PROVE  IInv'
<1> USE DEF database
<1>1. /\ pc[t] = "claimName"
      /\ req[t] \in Requests
      /\ req[t].id \in Ids
      /\ req[t].op \in {"create", "patch"}
      /\ local[t] \in Company
      /\ local[t].name \in Strings
      /\ BoundsOK
  BY BoundsKept, RequestType DEF ClaimName, IInv, PerClient, ClientOK, Writing, Company
<1>2. CASE Rollback(t, "duplicateName")
  BY <1>1, <1>2, RollbackKeeps DEF Replies
<1>3. ASSUME pc' = [pc EXCEPT ![t] = "store"],
             UNCHANGED <<database, lockedRow, clock, req, local, event, reply>>,
             \/ KeepsName(t) /\ UNCHANGED claimedName
             \/ /\ claimedName' = [claimedName EXCEPT ![t] = local[t].name]
                /\ NameHolders(t, local[t].name) = {}
                /\ Owners(local[t].name) = {}
      PROVE  IInv'
  <2>1. TypeOK'
    BY <1>1, <1>3 DEF IInv, TypeOK, BoundsOK, InTransaction
  <2>2. pc'[t] = "store" /\ claimedName[t] = Nil
    BY <1>1, <1>3 DEF IInv, TypeOK, PerClient, LockOK
  <2>3. ClientOK(t)'
    BY <1>1, <1>3, <2>2 DEF IInv, PerClient, ClientOK, Writing
  <2>4. LockOK(t)' /\ RowExists(t)'
    BY <1>1, <1>3, <2>2 DEF IInv, TypeOK, PerClient, LockOK, RowExists, Writing
  <2>5. NameHeld(t)'
    BY <1>3 DEF NameHeld, KeepsName, Owners, IInv, TypeOK
  <2>6. PerClient(t)'
    BY <2>2, <2>3, <2>4, <2>5 DEF PerClient, EventOK
  <2>7. \A u \in Clients \ {t} : Untouched(u)
    BY <1>3 DEF Untouched, IInv, TypeOK
  <2>8. \A u \in Clients \ {t} :
            /\ lockedRow'[t] # Nil => lockedRow[u] # lockedRow'[t]
            /\ claimedName'[t] # Nil => claimedName[u] # claimedName'[t]
    BY <1>3, <2>2 DEF IInv, RowLocksExclusive, NameHolders, TypeOK
  <2> QED
    BY <1>3, <2>1, <2>6, <2>7, <2>8, QuietStep DEF IInv, TypeOK
<1> QED BY <1>2, <1>3 DEF ClaimName

\* The stamp is later than every stamp in the outbox.
LEMMA StoreEventKeeps ==
    ASSUME IInv, NEW t \in Clients, StoreEvent(t)
    PROVE  IInv'
<1> USE DEF StoreEvent, database, bounds
<1>1. /\ pc[t] = "store"
      /\ req[t] \in Requests
      /\ req[t].op \in {"create", "patch", "delete"}
      /\ local[t] \in Company
      /\ local[t].id = req[t].id
      /\ clock \in Nat
      /\ BoundsOK
  BY BoundsKept DEF IInv, TypeOK, PerClient, ClientOK, Writing
<1> DEFINE e == [type |-> EventType(req[t].op), company |-> local[t], at |-> clock + 1]
<1>2. e \in Event
  BY <1>1 DEF Event, EventType, EventTypes
<1>3. /\ pc'[t] = "commit"
      /\ event'[t] = e
      /\ clock' = clock + 1
      /\ UNCHANGED <<rows, outbox, lockedRow, claimedName, req, local>>
  BY DEF IInv, TypeOK
<1>4. TypeOK'
  BY <1>1, <1>2 DEF IInv, TypeOK, BoundsOK, InTransaction
<1>5. \A f \in EventsOf(req[t].id) : f.at < clock + 1
  BY <1>1 DEF EventsOf, IInv, StampsOK, TypeOK, Event
<1>6. ClientOK(t)' /\ LockOK(t)' /\ RowExists(t)'
  BY <1>1, <1>3 DEF IInv, PerClient, ClientOK, LockOK, RowExists, Writing
<1>7. NameHeld(t)'
  BY <1>1, <1>3 DEF IInv, PerClient, NameHeld, KeepsName, Owners
<1>8. EventOK(t)'
  <2>1. /\ e.type = EventType(req[t].op)
        /\ e.company = local[t]
        /\ e.at = clock + 1
    OBVIOUS
  <2> HIDE DEF e
  <2> QED BY <1>1, <1>2, <1>3, <1>5, <2>1 DEF EventOK, EventsOf
<1>9. PerClient(t)'
  BY <1>6, <1>7, <1>8 DEF PerClient
<1>10. \A u \in Clients \ {t} : Untouched(u)
  BY DEF Untouched, IInv, TypeOK
<1>11. \A u \in Clients \ {t} :
          /\ lockedRow'[t] # Nil => lockedRow[u] # lockedRow'[t]
          /\ claimedName'[t] # Nil => claimedName[u] # claimedName'[t]
  BY <1>3 DEF IInv, RowLocksExclusive, NameLocksExclusive
<1> QED
  BY <1>1, <1>3, <1>4, <1>9, <1>10, <1>11, QuietStep

-----------------------------------------------------------------------------
(***************************************************************************)
(* The commit.                                                             *)
(***************************************************************************)

\* What the locks guarantee at the moment of the commit.
LEMMA AtCommit ==
    ASSUME IInv, NEW t \in Clients, pc[t] = "commit"
    PROVE  /\ req[t] \in Requests
           /\ req[t].id \in Ids
           /\ req[t].op \in {"create", "patch", "delete"}
           /\ local[t] \in Company
           /\ local[t].id = req[t].id
           /\ Validate(local[t]) = {}
           /\ lockedRow[t] = req[t].id
           /\ (req[t].op = "create") <=> (rows[req[t].id] = Nil)
           /\ event[t] \in Event
           /\ event[t].type = EventType(req[t].op)
           /\ event[t].company = local[t]
           /\ event[t].at <= clock
           /\ \A e \in EventsOf(req[t].id) : e.at < event[t].at
           /\ req[t].op # "delete" =>
                \A d \in Ids : d # req[t].id /\ rows[d] # Nil => rows[d].name # local[t].name
<1>1. /\ req[t] \in Requests
      /\ req[t].id \in Ids
      /\ lockedRow[t] = req[t].id
      /\ (req[t].op = "create") <=> (rows[req[t].id] = Nil)
      /\ event[t] \in Event
      /\ event[t].type = EventType(req[t].op)
      /\ event[t].company = local[t]
      /\ event[t].at <= clock
      /\ \A e \in EventsOf(req[t].id) : e.at < event[t].at
  BY RequestType DEF IInv, PerClient, ClientOK, LockOK, RowExists, EventOK, Writing
<1>2. /\ req[t].op \in {"create", "patch", "delete"}
      /\ local[t] \in Company
      /\ local[t].id = req[t].id
      /\ Validate(local[t]) = {}
  BY DEF IInv, PerClient, ClientOK, Writing
<1>3. ASSUME req[t].op # "delete", NEW d \in Ids, d # req[t].id, rows[d] # Nil
      PROVE  rows[d].name # local[t].name
  BY <1>1, <1>3 DEF IInv, PerClient, NameHeld, KeepsName, Owners, NamesUnique
<1> QED BY <1>1, <1>2, <1>3

\* A commit installs the row and the event together; the locks held until then
\* make the event the last of its company and the name unique (transaction.go:46).
LEMMA CommitKeeps ==
    ASSUME IInv, NEW t \in Clients, NEW a \in {"ok", "internal"},
           pc[t] = "commit", Install(t), Finish(t, a),
           UNCHANGED <<clock, req, local, event>>, BoundsOK
    PROVE  IInv'
<1> DEFINE id == req[t].id
           new == IF req[t].op = "delete" THEN Nil ELSE local[t]
<1>1. /\ id \in Ids
      /\ local[t] \in Company /\ local[t].id = id /\ Validate(local[t]) = {}
      /\ local[t] # Nil
      /\ lockedRow[t] = id
      /\ id # Nil
      /\ event[t] \in Event /\ event[t].company = local[t]
      /\ event[t].type = EventType(req[t].op)
      /\ event[t].at <= clock
      /\ \A e \in EventsOf(id) : e.at < event[t].at
      /\ req[t].op \in {"create", "patch", "delete"}
      /\ req[t].op # "delete" =>
           \A d \in Ids : d # id /\ rows[d] # Nil => rows[d].name # local[t].name
  BY AtCommit, NilAssumption, NoIdAssumption
<1>2. /\ rows' = [rows EXCEPT ![id] = new]
      /\ outbox' = outbox \cup {event[t]}
      /\ pc'[t] = "idle"
      /\ lockedRow'[t] = Nil
      /\ claimedName'[t] = Nil
      /\ \A u \in Clients \ {t} : Untouched(u)
  BY DEF Install, Finish, Untouched, IInv, TypeOK
<1>3. TypeOK'
  BY <1>1, <1>2 DEF IInv, TypeOK, Finish, BoundsOK, Replies
<1>4. /\ rows'[id] = new
      /\ \A d \in Ids \ {id} : rows'[d] = rows[d]
  BY <1>1, <1>2 DEF IInv, TypeOK
<1>5. RowsOK'
  BY <1>1, <1>4 DEF IInv, RowsOK
<1>6. NamesUnique'
  BY <1>1, <1>4 DEF IInv, NamesUnique
<1>7. StampsOK'
  BY <1>1, <1>2 DEF IInv, StampsOK
<1>8. RowLocksExclusive' /\ NameLocksExclusive'
  BY <1>2 DEF IInv, RowLocksExclusive, NameLocksExclusive, Untouched
<1>9. /\ \A d \in Ids \ {id} : EventsOf(d)' = EventsOf(d)
      /\ EventsOf(id)' = EventsOf(id) \cup {event[t]}
  BY <1>1, <1>2 DEF EventsOf
<1>10. OutboxMirrorsTable'
  <2> SUFFICES ASSUME NEW c \in Ids
               PROVE  IF rows'[c] = Nil
                        THEN \A e \in EventsOf(c)' : Latest(e)' => e.type = "deleted"
                        ELSE \E e \in EventsOf(c)' : /\ Latest(e)'
                                                     /\ e.type # "deleted"
                                                     /\ e.company = rows'[c]
    BY DEF OutboxMirrorsTable
  <2>1. CASE c # id
    <3>1. \A e \in EventsOf(c) : Latest(e)' <=> Latest(e)
      BY <1>9, <2>1 DEF Latest, EventsOf
    <3> QED BY <1>4, <1>9, <2>1, <3>1 DEF IInv, OutboxMirrorsTable
  <2>2. CASE c = id
    <3>1. event[t] \in EventsOf(id)' /\ event[t].company.id = id
      BY <1>1, <1>9
    <3>2. \A f \in EventsOf(id)' : f.at \in Int /\ event[t].at \in Int
      BY <1>1, <1>2 DEF EventsOf, IInv, TypeOK, Event
    <3>3. Latest(event[t])'
      <4>1. event'[t] = event[t]
        OBVIOUS
      <4>2. \A f \in EventsOf(id)' : f.at <= event[t].at
        BY <1>1, <1>9, <3>2
      <4> QED BY <1>1, <4>1, <4>2 DEF Latest
    <3>4. \A e \in EventsOf(id)' : Latest(e)' => e = event[t]
      BY <1>1, <1>9, <3>1, <3>2 DEF Latest, EventsOf
    <3>5. event[t].type = "deleted" <=> req[t].op = "delete"
      BY <1>1 DEF EventType
    <3> QED BY <1>1, <1>4, <2>2, <3>1, <3>3, <3>4, <3>5
  <2> QED BY <2>1, <2>2
<1>11. ASSUME NEW u \in Clients \ {t}
       PROVE  PerClient(u)'
  <2>1. pc[u] \in Writing => req[u].id \in Ids \ {id}
    BY <1>1, RequestType DEF IInv, PerClient, ClientOK, LockOK, RowLocksExclusive, Writing
  <2>2. ClientOK(u)' /\ LockOK(u)'
    BY <1>2 DEF IInv, PerClient, ClientOK, LockOK, Untouched, Writing
  <2>3. RowExists(u)'
    BY <1>2, <1>4, <2>1 DEF IInv, PerClient, RowExists, Untouched, Writing
  <2>4. NameHeld(u)'
    <3> SUFFICES ASSUME pc[u] \in {"store", "commit"}, req[u].op # "delete"
                 PROVE  \/ KeepsName(u)'
                        \/ claimedName[u] = local[u].name /\ Owners(local[u].name)' = {}
      BY <1>2 DEF NameHeld, Untouched
    <3>1. CASE KeepsName(u)
      BY <1>4, <2>1, <3>1 DEF KeepsName, Writing
    <3>2. CASE claimedName[u] = local[u].name /\ Owners(local[u].name) = {}
      <4>1. new # Nil => local[t].name # local[u].name
        <5>1. claimedName[u] # Nil
          BY <3>2, NilAssumption DEF IInv, PerClient, ClientOK, Writing, Company
        <5>2. CASE KeepsName(t)
          BY <1>1, <3>2, <5>2 DEF KeepsName, Owners
        <5>3. CASE claimedName[t] = local[t].name
          BY <3>2, <5>1, <5>3 DEF IInv, NameLocksExclusive
        <5> QED BY <5>2, <5>3 DEF IInv, PerClient, NameHeld
      <4> QED BY <1>4, <3>2, <4>1 DEF Owners
    <3> QED BY <3>1, <3>2 DEF IInv, PerClient, NameHeld
  <2>5. EventOK(u)'
    BY <1>2, <1>9, <2>1 DEF IInv, PerClient, EventOK, Untouched, Writing
  <2> QED BY <2>2, <2>3, <2>4, <2>5 DEF PerClient
<1>12. PerClient(t)'
  BY <1>2 DEF PerClient, ClientOK, LockOK, RowExists, NameHeld, EventOK, Writing
<1> QED
  BY <1>3, <1>5, <1>6, <1>7, <1>8, <1>10, <1>11, <1>12 DEF IInv

\* After a crash nobody is at work and no lock is held.
LEMMA CrashKeeps ==
    ASSUME IInv, Crash
    PROVE  IInv'
<1> USE DEF Crash, database
<1>1. TypeOK'
  BY BoundsKept DEF IInv, TypeOK, BoundsOK, Replies
<1>2. \A u \in Clients : pc'[u] = "idle" /\ lockedRow'[u] = Nil /\ claimedName'[u] = Nil
  OBVIOUS
<1>3. \A u \in Clients : PerClient(u)'
  BY <1>2 DEF PerClient, ClientOK, LockOK, RowExists, NameHeld, EventOK, Writing
<1>4. RowLocksExclusive' /\ NameLocksExclusive'
  BY <1>2 DEF RowLocksExclusive, NameLocksExclusive
<1>5. RowsOK' /\ NamesUnique' /\ StampsOK'
  BY DEF IInv, RowsOK, NamesUnique, StampsOK
<1>6. OutboxMirrorsTable'
  BY DEF IInv, OutboxMirrorsTable, EventsOf, Latest
<1> QED BY <1>1, <1>3, <1>4, <1>5, <1>6 DEF IInv

-----------------------------------------------------------------------------
(***************************************************************************)
(* The invariant.                                                          *)
(***************************************************************************)
\* The seeded table and the events of its creation satisfy the invariant.
LEMMA InitInv == Init => IInv
<1> SUFFICES ASSUME Init PROVE IInv
  OBVIOUS
<1> USE DEF Init
<1>1. SeedEvents \subseteq Event
  BY SeedAssumption DEF SeedEvents, Event, EventTypes
<1>2. TypeOK
  BY <1>1, SeedAssumption, BoundAssumption DEF TypeOK, Replies
<1>3. RowsOK /\ NamesUnique
  BY SeedAssumption DEF RowsOK, NamesUnique
<1>4. StampsOK
  BY DEF StampsOK, SeedEvents
<1>5. OutboxMirrorsTable
  <2> SUFFICES ASSUME NEW c \in Ids
               PROVE  IF rows[c] = Nil
                        THEN \A e \in EventsOf(c) : Latest(e) => e.type = "deleted"
                        ELSE \E e \in EventsOf(c) : /\ Latest(e)
                                                    /\ e.type # "deleted"
                                                    /\ e.company = rows[c]
    BY DEF OutboxMirrorsTable
  <2>1. CASE Seed[c] = Nil
    <3>1. EventsOf(c) = {}
      BY <2>1, SeedAssumption DEF EventsOf, SeedEvents
    <3> QED BY <2>1, <3>1
  <2>2. CASE Seed[c] # Nil
    <3> DEFINE e == [type |-> "created", company |-> Seed[c], at |-> 0]
    <3>1. e \in EventsOf(c)
      BY <2>2, SeedAssumption DEF EventsOf, SeedEvents
    <3>2. \A f \in outbox : f.at = 0
      BY DEF SeedEvents
    <3>3. Latest(e)
      BY <3>2 DEF Latest, EventsOf
    <3> QED BY <2>2, <3>1, <3>3
  <2> QED BY <2>1, <2>2
<1>6. RowLocksExclusive /\ NameLocksExclusive
  BY DEF RowLocksExclusive, NameLocksExclusive
<1>7. \A t \in Clients : PerClient(t)
  BY DEF PerClient, ClientOK, LockOK, RowExists, NameHeld, EventOK, Writing
<1> QED BY <1>2, <1>3, <1>4, <1>5, <1>6, <1>7 DEF IInv

\* No step breaks the invariant: one lemma above for each action.
LEMMA StepInv == IInv /\ [Next]_vars => IInv'
<1> SUFFICES ASSUME IInv, [Next]_vars PROVE IInv'
  OBVIOUS
<1>1. ASSUME NEW t \in Clients, Arrive(t) PROVE IInv'
  BY <1>1, ArriveKeeps
<1>2. ASSUME NEW t \in Clients, Work(t) PROVE IInv'
  <2>1. CASE GetByID(t)
    BY <2>1, GetByIDKeeps
  <2>2. CASE GetByName(t)
    BY <2>2, GetByNameKeeps
  <2>3. CASE InsertRow(t) \/ UpdateRow(t) \/ DeleteRow(t)
    BY <2>3, WriteKeeps
  <2>4. CASE ClaimName(t)
    BY <2>4, ClaimNameKeeps
  <2>5. CASE StoreEvent(t)
    BY <2>5, StoreEventKeeps
  <2>6. CASE Commit(t)
    BY <2>6, CommitKeeps, BoundsKept DEF Commit
  <2>7. CASE AbortDeadlock(t)
    BY <2>7, RollbackKeeps, BoundsKept DEF AbortDeadlock, Replies
  <2> QED BY <1>2, <2>1, <2>2, <2>3, <2>4, <2>5, <2>6, <2>7 DEF Work
<1>3. ASSUME NEW t \in Clients, Fail(t) PROVE IInv'
  BY <1>3, RollbackKeeps, BoundsKept DEF Fail, Replies
<1>4. ASSUME NEW t \in Clients, CommitUnacked(t) PROVE IInv'
  BY <1>4, CommitKeeps, BoundsKept DEF CommitUnacked
<1>5. CASE Crash
  BY <1>5, CrashKeeps
<1>6. CASE UNCHANGED vars
  <2> USE <1>6 DEF vars
  <2>1. TypeOK' /\ RowsOK' /\ NamesUnique' /\ StampsOK'
    BY DEF IInv, TypeOK, RowsOK, NamesUnique, StampsOK
  <2>2. RowLocksExclusive' /\ NameLocksExclusive'
    BY DEF IInv, RowLocksExclusive, NameLocksExclusive
  <2>3. OutboxMirrorsTable'
    BY DEF IInv, OutboxMirrorsTable, EventsOf, Latest
  <2>4. \A t \in Clients : PerClient(t)'
    BY ClientUntouched DEF IInv, TypeOK, Untouched
  <2> QED BY <2>1, <2>2, <2>3, <2>4 DEF IInv
<1> QED BY <1>1, <1>2, <1>3, <1>4, <1>5, <1>6 DEF Next

\* The inductive invariant holds in every reachable state, for any number of
\* clients, ids, texts, requests and failures.
THEOREM Invariance == Spec => []IInv
BY InitInv, StepInv, PTL DEF Spec

\* Every variable stays in its range.
THEOREM TypeCorrect == Spec => []TypeOK
<1>1. IInv => TypeOK
  BY DEF IInv
<1> QED BY <1>1, Invariance, PTL

\* No two stored companies ever share a name, however the requests interleave
\* and fail (service.go:53 and :93 against the constraint behind :59 and :104).
THEOREM NoDuplicateNames == Spec => []NamesUnique
<1>1. IInv => NamesUnique
  BY DEF IInv
<1> QED BY <1>1, Invariance, PTL

\* The last event of each company shows its row, or its absence
\* (service.go:144-168).
THEOREM MirrorCorrect == Spec => []OutboxMirrorsTable
<1>1. IInv => OutboxMirrorsTable
  BY DEF IInv
<1> QED BY <1>1, Invariance, PTL

-----------------------------------------------------------------------------
(***************************************************************************)
(* The commit, and only the commit, is a step of CompanyLog.               *)
(***************************************************************************)
TablesFixed == UNCHANGED <<rows, outbox>>

\* Every action but a commit leaves both tables as they are.
LEMMA OnlyCommitWrites ==
    ASSUME [Next]_vars
    PROVE  \/ TablesFixed
           \/ \E t \in Clients : pc[t] = "commit" /\ Install(t) /\ UNCHANGED <<clock, req, local, event>>
<1> USE DEF TablesFixed, database
<1>1. ASSUME NEW t \in Clients, Arrive(t) PROVE TablesFixed
  BY <1>1 DEF Arrive, CreateCompany, PatchCompany, DeleteCompany, GetCompany, Begin, Rollback
<1>2. ASSUME NEW t \in Clients,
             \/ GetByID(t) \/ GetByName(t)
      PROVE  TablesFixed
  BY <1>2 DEF GetByID, GetByName, ApplyPatchTo, Proceed, Rollback
<1>3. ASSUME NEW t \in Clients,
             \/ InsertRow(t) \/ UpdateRow(t) \/ DeleteRow(t) \/ ClaimName(t)
      PROVE  TablesFixed
  BY <1>3 DEF InsertRow, UpdateRow, DeleteRow, ClaimName, LockRow, Rollback
<1>4. ASSUME NEW t \in Clients,
             \/ StoreEvent(t) \/ AbortDeadlock(t) \/ Fail(t) \/ Crash
      PROVE  TablesFixed
  BY <1>4 DEF StoreEvent, AbortDeadlock, Fail, Crash, Rollback
<1>5. CASE Crash \/ UNCHANGED vars
  BY <1>5 DEF Crash, vars
<1>6. ASSUME NEW t \in Clients, Commit(t) \/ CommitUnacked(t)
      PROVE  pc[t] = "commit" /\ Install(t) /\ UNCHANGED <<clock, req, local, event>>
  BY <1>6 DEF Commit, CommitUnacked
<1> QED BY <1>1, <1>2, <1>3, <1>4, <1>5, <1>6 DEF Next, Work

\* CompanyLog means the same events and the same validation.
LEMMA SameDomain ==
    /\ Log!Event = Event
    /\ \A c : Log!Validate(c) = Validate(c)
<1>1. Log!Event = Event
  BY DEF Log!Event, Event, Log!EventTypes, EventTypes, Log!Company, Company
<1>2. ASSUME NEW c PROVE Log!Validate(c) = Validate(c)
  BY DEF Log!Validate, Validate, Log!ValidName, ValidName, Log!ValidDescription,
         ValidDescription, Log!ValidAmount, ValidAmount, Log!IsValidType, IsValidType,
         Log!ValidTypes, ValidTypes
<1> QED BY <1>1, <1>2

\* A commit is one Create, Update or Delete of CompanyLog.
LEMMA CommitIsLogStep ==
    ASSUME IInv, NEW t \in Clients, pc[t] = "commit", Install(t)
    PROVE  \E e \in outbox' \ outbox :
             /\ e \in Event
             /\ e.company.id \in Ids
             /\ Log!Create(e) \/ Log!Update(e) \/ Log!Delete(e)
<1> DEFINE e == event[t]
           id == req[t].id
<1>1. /\ id \in Ids
      /\ req[t].op \in {"create", "patch", "delete"}
      /\ local[t].id = id /\ Validate(local[t]) = {}
      /\ (req[t].op = "create") <=> (rows[id] = Nil)
      /\ e \in Event /\ e.company = local[t]
      /\ e.type = EventType(req[t].op)
      /\ \A f \in EventsOf(id) : f.at < e.at
      /\ req[t].op # "delete" =>
           \A d \in Ids : d # id /\ rows[d] # Nil => rows[d].name # local[t].name
  BY AtCommit
<1>2. e.company.id = id /\ e.at \in Int
  BY <1>1 DEF Event
<1>3. e \in outbox' \ outbox
  <2>1. e \notin EventsOf(id)
    BY <1>1, <1>2
  <2> QED BY <1>2, <2>1 DEF EventsOf, Install
<1>4. Log!AppendEvent(e)
  BY <1>1, <1>2 DEF Log!AppendEvent, EventsOf, Install
<1>5. req[t].op # "delete" => /\ rows' = [rows EXCEPT ![e.company.id] = e.company]
                              /\ Log!NameFree(e.company.name, e.company.id)
  BY <1>1, <1>2 DEF Log!NameFree, Install
<1>6. Log!Validate(e.company) = {}
  BY <1>1, SameDomain
<1>7. ASSUME req[t].op = "create" PROVE Log!Create(e)
  <2>1. e.type = "created" /\ rows[e.company.id] = Nil
    BY <1>1, <1>2, <1>7 DEF EventType
  <2> QED BY <1>4, <1>5, <1>6, <1>7, <2>1 DEF Log!Create
<1>8. ASSUME req[t].op = "patch" PROVE Log!Update(e)
  <2>1. e.type = "updated" /\ rows[e.company.id] # Nil
    BY <1>1, <1>2, <1>8 DEF EventType
  <2> QED BY <1>4, <1>5, <1>6, <1>8, <2>1 DEF Log!Update
<1>9. ASSUME req[t].op = "delete" PROVE Log!Delete(e)
  <2>1. e.type = "deleted" /\ rows[e.company.id] # Nil
    BY <1>1, <1>2, <1>9 DEF EventType
  <2> QED BY <1>1, <1>2, <1>4, <1>9, <2>1 DEF Log!Delete, Install
<1>10. Log!Create(e) \/ Log!Update(e) \/ Log!Delete(e)
  BY <1>1, <1>7, <1>8, <1>9
<1> HIDE DEF e
<1> QED BY <1>1, <1>2, <1>3, <1>10

\* The service implements CompanyLog: seen through its two tables it changes a
\* company and announces the change in one indivisible step, and does nothing
\* else (service.go:46-133 inside transaction.go:28-51).
THEOREM ImplementsLog == Spec => Refinement
<1>1. Init => Log!Init
  BY DEF Init, Log!Init, SeedEvents, Log!SeedEvents
<1>2. IInv /\ [Next]_vars => [Log!Next]_Log!vars
  <2> SUFFICES ASSUME IInv, [Next]_vars PROVE [Log!Next]_Log!vars
    OBVIOUS
  <2>1. CASE TablesFixed
    BY <2>1 DEF TablesFixed, Log!vars
  <2>2. ASSUME NEW t \in Clients, pc[t] = "commit", Install(t) PROVE Log!Next
    BY <2>2, CommitIsLogStep, SameDomain DEF Log!Next
  <2> QED BY <2>1, <2>2, OnlyCommitWrites
<1> QED BY <1>1, <1>2, Invariance, PTL DEF Spec, Log!Spec, Refinement

\* An event that appears carries a later stamp than every event of its company.
LEMMA AppearsInOrder ==
    ASSUME IInv, [Next]_vars, NEW e \in outbox' \ outbox, NEW f \in outbox,
           f.company.id = e.company.id
    PROVE  f.at < e.at
<1>1. CASE TablesFixed
  BY <1>1 DEF TablesFixed
<1>2. ASSUME NEW t \in Clients, pc[t] = "commit", Install(t) PROVE f.at < e.at
  <2>1. /\ event[t].company.id = req[t].id
        /\ \A g \in EventsOf(req[t].id) : g.at < event[t].at
    BY <1>2, AtCommit
  <2> QED BY <1>2, <2>1 DEF Install, EventsOf
<1> QED BY <1>1, <1>2, OnlyCommitWrites

\* The events of a company become visible in the order of their stamps
\* (service.go:148, transaction.go:46).
THEOREM StampOrder == Spec => StampsFollowCommits
<1>1. IInv /\ [Next]_vars =>
        [\A e \in outbox' \ outbox : \A f \in EventsOf(e.company.id) : f.at < e.at]_vars
  BY AppearsInOrder DEF EventsOf
<1> QED BY <1>1, Invariance, PTL DEF Spec, StampsFollowCommits

\* The events of a company have different stamps.
KeysApart ==
    \A e, f \in outbox : e.company.id = f.company.id /\ e.at = f.at => e = f

LEMMA KeysStayApart == Spec => []KeysApart
<1>1. Init => KeysApart
  <2>1. \A e \in SeedEvents : \E c \in Ids :
          e = [type |-> "created", company |-> Seed[c], at |-> 0] /\ e.company.id = c
    BY SeedAssumption DEF SeedEvents
  <2> QED BY <2>1 DEF Init, KeysApart
<1>2. IInv /\ KeysApart /\ [Next]_vars => KeysApart'
  <2> SUFFICES ASSUME IInv, KeysApart, [Next]_vars PROVE KeysApart'
    OBVIOUS
  <2>1. CASE TablesFixed
    BY <2>1 DEF TablesFixed, KeysApart
  <2>2. ASSUME NEW t \in Clients, outbox' = outbox \cup {event[t]} PROVE KeysApart'
    <3>1. ASSUME event[t] \notin outbox, NEW f \in outbox, f.company.id = event[t].company.id
          PROVE  f.at # event[t].at
      <4>1. f.at < event[t].at
        BY <2>2, <3>1, AppearsInOrder
      <4>2. f.at \in Nat
        BY DEF IInv, TypeOK, Event
      <4> QED BY <4>1, <4>2
    <3> QED BY <2>2, <3>1 DEF KeysApart
  <2> QED BY <2>1, <2>2, OnlyCommitWrites DEF Install
<1> QED BY <1>1, <1>2, Invariance, PTL DEF Spec

-----------------------------------------------------------------------------
(***************************************************************************)
(* The life an outbox tells.                                               *)
(***************************************************************************)
\* The event a commit adds continues the life its company's events tell.
LEMMA LifeGoesOn ==
    ASSUME IInv, EventsTellALife, NEW t \in Clients, pc[t] = "commit", Install(t),
           NEW n, n = event[t], NEW id, id = req[t].id
    PROVE  EventsTellALife'
<1>1. /\ id \in Ids
      /\ n \in Event
      /\ n.company.id = id
      /\ req[t].op \in {"create", "patch", "delete"}
      /\ (req[t].op = "create") <=> (rows[id] = Nil)
      /\ n.type = EventType(req[t].op)
      /\ \A f \in EventsOf(id) : f.at < n.at
  BY AtCommit
<1>2. outbox' = outbox \cup {n}
  BY DEF Install
<1>3. \A f \in outbox \cup {n} : f.at \in Int
  BY <1>1 DEF IInv, TypeOK, Event
<1>4. /\ \A c : c # id => EventsOf(c)' = EventsOf(c)
      /\ EventsOf(id)' = EventsOf(id) \cup {n}
      /\ \A c : EventsOf(c) \subseteq outbox
      /\ \A e \in outbox : e \in EventsOf(e.company.id)
  BY <1>1, <1>2 DEF EventsOf
<1> SUFFICES ASSUME NEW e \in outbox'
             PROVE  (e.type = "created") <=>
                      (\A d \in {d \in outbox' : JustBefore(d, e)'} : d.type = "deleted")
  BY DEF EventsTellALife
<1>5. CASE e \in outbox
  <2>1. ASSUME e.company.id = id
        PROVE  e.at < n.at /\ ~ (n.at < e.at)
    BY <1>1, <1>3, <1>4, <1>5, <2>1
  <2>2. ASSUME NEW d
        PROVE  JustBefore(d, e)' <=> JustBefore(d, e)
    BY <1>4, <2>1 DEF JustBefore
  <2>3. \A d : JustBefore(d, e) => d \in outbox
    BY <1>4 DEF JustBefore
  <2>4. {d \in outbox' : JustBefore(d, e)'} = {d \in outbox : JustBefore(d, e)}
    BY <1>2, <2>2, <2>3
  <2> QED BY <1>5, <2>4 DEF EventsTellALife
<1>6. CASE e = n
  <2>1. ASSUME NEW d
        PROVE  JustBefore(d, e)' <=> d \in EventsOf(id) /\ Latest(d)
    <3>1. d \in EventsOf(id) => d \in outbox /\ d.company.id = id
      BY DEF EventsOf
    <3> QED BY <1>1, <1>3, <1>4, <1>6, <3>1 DEF JustBefore, Latest
  <2>2. {d \in outbox' : JustBefore(d, e)'} = {d \in EventsOf(id) : Latest(d)}
    BY <1>2, <1>4, <2>1
  <2>3. (rows[id] = Nil) <=> (\A d \in {d \in EventsOf(id) : Latest(d)} : d.type = "deleted")
    BY <1>1 DEF IInv, OutboxMirrorsTable
  <2>4. e.type = "created" <=> req[t].op = "create"
    BY <1>1, <1>6 DEF EventType
  <2> QED BY <1>1, <2>2, <2>3, <2>4
<1> QED BY <1>2, <1>5, <1>6

\* The events of each company, in the order of their stamps, tell a life: it is
\* created, updated, deleted, created again (service.go:63, :108, :127).
THEOREM LivesAreTold == Spec => []EventsTellALife
<1>1. Init => EventsTellALife
  <2> SUFFICES ASSUME Init, NEW e \in outbox
               PROVE  (e.type = "created") <=>
                        (\A d \in {d \in outbox : JustBefore(d, e)} : d.type = "deleted")
    BY DEF EventsTellALife
  <2>1. \A f \in outbox : f.type = "created" /\ f.at = 0
    BY DEF Init, SeedEvents
  <2>2. {d \in outbox : JustBefore(d, e)} = {}
    BY <2>1 DEF JustBefore
  <2> QED BY <2>1, <2>2
<1>2. IInv /\ EventsTellALife /\ [Next]_vars => EventsTellALife'
  <2> SUFFICES ASSUME IInv, EventsTellALife, [Next]_vars PROVE EventsTellALife'
    OBVIOUS
  <2>1. CASE TablesFixed
    BY <2>1 DEF TablesFixed, EventsTellALife, JustBefore, EventsOf
  <2>2. ASSUME NEW t \in Clients, pc[t] = "commit", Install(t) PROVE EventsTellALife'
    BY <2>2, LifeGoesOn
  <2> QED BY <2>1, <2>2, OnlyCommitWrites
<1> QED BY <1>1, <1>2, Invariance, PTL DEF Spec

-----------------------------------------------------------------------------
(***************************************************************************)
(* The truth of answers.                                                   *)
(***************************************************************************)
AnswerOK(t) ==
    /\ pc[t] # "idle" => reply[t] = "none"
    /\ reply[t] = "ok" /\ req[t].op # "get" =>
         event[t] \in outbox /\ event[t].company = local[t]

\* The outbox only grows.
LEMMA OutboxGrows ==
    ASSUME [Next]_vars
    PROVE  outbox \subseteq outbox'
BY OnlyCommitWrites DEF TablesFixed, Install

\* An answer given earlier stays true while its client does nothing.
LEMMA AnswerStays ==
    ASSUME NEW u \in Clients, AnswerOK(u), outbox \subseteq outbox',
           pc'[u] = pc[u], reply'[u] = reply[u], req'[u] = req[u],
           event'[u] = event[u], local'[u] = local[u]
    PROVE  AnswerOK(u)'
BY DEF AnswerOK

\* A client that is at work or was refused has told nothing that could be false.
LEMMA NothingTold ==
    ASSUME NEW t \in Clients, reply'[t] # "ok", pc'[t] = "idle" \/ reply'[t] = "none"
    PROVE  AnswerOK(t)'
BY DEF AnswerOK

\* Whatever client t does, its answer is true.
LEMMA OwnAnswer ==
    ASSUME IInv, NEW t \in Clients, AnswerOK(t),
           Arrive(t) \/ Work(t) \/ Fail(t) \/ CommitUnacked(t)
    PROVE  AnswerOK(t)'
<1>1. TypeOK
  BY DEF IInv
<1> USE <1>1 DEF TypeOK
<1>2. ASSUME NEW a \in Replies \ {"ok"}, Rollback(t, a) PROVE AnswerOK(t)'
  BY <1>2, NothingTold DEF Rollback, Finish
<1>3. ASSUME NEW c, NEW s, pc[t] # "idle", Proceed(t, c, s) PROVE AnswerOK(t)'
  BY <1>3, NothingTold DEF Proceed, AnswerOK
<1>4. ASSUME NEW s, pc[t] # "idle", LockRow(t, s) PROVE AnswerOK(t)'
  BY <1>4, NothingTold DEF LockRow, AnswerOK
<1>5. CASE Arrive(t)
  <2>1. ASSUME NEW r, NEW c, NEW s, Begin(t, r, c, s) PROVE AnswerOK(t)'
    BY <2>1, NothingTold DEF Begin
  <2> QED BY <1>5, <1>2, <2>1
          DEF Arrive, CreateCompany, PatchCompany, DeleteCompany, GetCompany, Replies
<1>6. ASSUME NEW c, pc[t] # "idle", ApplyPatchTo(t, c) PROVE AnswerOK(t)'
  BY <1>6, <1>2, <1>3 DEF ApplyPatchTo, Replies
<1>7. CASE GetByID(t)
  <2> DEFINE id == req[t].id
  <2>1. CASE Rollback(t, "notFound")
    BY <2>1, <1>2 DEF Replies
  <2>2. CASE Proceed(t, rows[id], "write") \/ Proceed(t, rows[id], "lookupName")
    BY <1>7, <2>2, <1>3 DEF GetByID
  <2>3. CASE ApplyPatchTo(t, rows[id])
    BY <1>7, <2>3, <1>6 DEF GetByID
  <2>4. CASE /\ rows[id] # Nil
             /\ req[t].op = "get"
             /\ Finish(t, "ok")
             /\ local' = [local EXCEPT ![t] = rows[id]]
             /\ UNCHANGED <<database, clock, req, event>>
    <3>1. pc'[t] = "idle" /\ req'[t].op = "get"
      BY <2>4 DEF Finish
    <3> QED BY <3>1 DEF AnswerOK
  <2> QED BY <1>7, <2>1, <2>2, <2>3, <2>4 DEF GetByID
<1>8. CASE GetByName(t)
  BY <1>8, <1>2, <1>3, <1>6 DEF GetByName, Replies
<1>9. CASE InsertRow(t) \/ UpdateRow(t) \/ DeleteRow(t)
  <2>1. pc[t] # "idle"
    BY <1>9 DEF InsertRow, UpdateRow, DeleteRow
  <2> QED BY <1>9, <2>1, <1>2, <1>4 DEF InsertRow, UpdateRow, DeleteRow, Replies
<1>10. CASE ClaimName(t)
  <2>1. CASE Rollback(t, "duplicateName")
    BY <2>1, <1>2 DEF Replies
  <2>2. CASE UNCHANGED reply
    BY <1>10, <2>2, NothingTold DEF ClaimName, AnswerOK
  <2> QED BY <1>10, <2>1, <2>2 DEF ClaimName
<1>11. CASE StoreEvent(t)
  BY <1>11, NothingTold DEF StoreEvent, AnswerOK
<1>12. CASE Commit(t)
  <2>1. /\ event[t] \in outbox'
        /\ event[t].company = local[t]
        /\ req[t].op # "get"
    BY <1>12 DEF Commit, Install, IInv, PerClient, EventOK, ClientOK, Writing
  <2>2. /\ pc'[t] = "idle"
        /\ UNCHANGED <<req, local, event>>
    BY <1>12 DEF Commit, Finish
  <2> QED BY <2>1, <2>2 DEF AnswerOK
<1>13. CASE AbortDeadlock(t) \/ Fail(t)
  BY <1>13, <1>2 DEF AbortDeadlock, Fail, Replies
<1>14. CASE CommitUnacked(t)
  BY <1>14, NothingTold DEF CommitUnacked, Finish
<1> QED BY <1>5, <1>7, <1>8, <1>9, <1>10, <1>11, <1>12, <1>13, <1>14 DEF Work

\* A client that takes a step leaves the others' answers alone.
LEMMA OthersAnswers ==
    ASSUME IInv, NEW t \in Clients, NEW u \in Clients \ {t},
           Arrive(t) \/ Work(t) \/ Fail(t) \/ CommitUnacked(t)
    PROVE  /\ pc'[u] = pc[u]
           /\ reply'[u] = reply[u]
           /\ req'[u] = req[u]
           /\ event'[u] = event[u]
           /\ local'[u] = local[u]
<1>1. TypeOK
  BY DEF IInv
<1> USE <1>1 DEF TypeOK
<1>2. CASE Arrive(t)
  BY <1>2 DEF Arrive, CreateCompany, PatchCompany, DeleteCompany, GetCompany, Begin, Rollback, Finish
<1>3. CASE GetByID(t) \/ GetByName(t)
  BY <1>3 DEF GetByID, GetByName, ApplyPatchTo, Proceed, Rollback, Finish
<1>4. CASE InsertRow(t) \/ UpdateRow(t) \/ DeleteRow(t) \/ ClaimName(t)
  BY <1>4 DEF InsertRow, UpdateRow, DeleteRow, ClaimName, LockRow, Rollback, Finish
<1>5. CASE StoreEvent(t) \/ Commit(t) \/ CommitUnacked(t)
  BY <1>5 DEF StoreEvent, Commit, CommitUnacked, Finish
<1>6. CASE AbortDeadlock(t) \/ Fail(t)
  BY <1>6 DEF AbortDeadlock, Fail, Rollback, Finish
<1> QED BY <1>2, <1>3, <1>4, <1>5, <1>6 DEF Work

\* Every answer to a change is true in every reachable state: a success has its event
\* in the outbox (service.go:46-133).
THEOREM AnswersAreTrue == Spec => []\A t \in Clients : AnswerOK(t)
<1>1. Init => \A t \in Clients : AnswerOK(t)
  BY DEF Init, AnswerOK
<1>2. IInv /\ (\A t \in Clients : AnswerOK(t)) /\ [Next]_vars
        => (\A t \in Clients : AnswerOK(t))'
  <2> SUFFICES ASSUME IInv, \A t \in Clients : AnswerOK(t), [Next]_vars, NEW u \in Clients
               PROVE  AnswerOK(u)'
    OBVIOUS
  <2>1. outbox \subseteq outbox'
    BY OutboxGrows
  <2>2. ASSUME NEW t \in Clients, Arrive(t) \/ Work(t) \/ Fail(t) \/ CommitUnacked(t)
        PROVE  AnswerOK(u)'
    <3>1. CASE u = t
      BY <2>2, <3>1, OwnAnswer
    <3>2. CASE u # t
      <4>1. /\ pc'[u] = pc[u]
            /\ reply'[u] = reply[u]
            /\ req'[u] = req[u]
            /\ event'[u] = event[u]
            /\ local'[u] = local[u]
        BY <2>2, <3>2, OthersAnswers
      <4> QED BY <2>1, <4>1, AnswerStays
    <3> QED BY <3>1, <3>2
  <2>3. CASE Crash
    <3>1. CASE pc[u] = "idle"
      BY <2>1, <2>3, <3>1, AnswerStays DEF Crash
    <3>2. CASE pc[u] # "idle"
      BY <2>3, <3>2, NothingTold DEF Crash
    <3> QED BY <3>1, <3>2
  <2>4. CASE UNCHANGED vars
    BY <2>1, <2>4, AnswerStays DEF vars
  <2> QED BY <2>2, <2>3, <2>4 DEF Next
<1> QED BY <1>1, <1>2, Invariance, PTL DEF Spec

\* A change answered with success has its event in the outbox, with the company
\* the answer shows (service.go:46-133).
THEOREM AnswersAreRecorded == Spec => []OkMeansRecorded
<1>1. (\A t \in Clients : AnswerOK(t)) => OkMeansRecorded
  BY DEF AnswerOK, OkMeansRecorded
<1> QED BY <1>1, AnswersAreTrue, PTL

-----------------------------------------------------------------------------
(***************************************************************************)
(* What a deletion shows.                                                  *)
(***************************************************************************)
Announced(c) == \E d \in outbox : d.type # "deleted" /\ d.company = c

\* From the SELECT on, a deletion has a company in memory that was announced.
DeleterOK(t) ==
    pc[t] \in {"write", "claimName", "store", "commit"} /\ req[t].op = "delete" =>
        Announced(local[t])

\* A step of client t leaves it with an announced company.
LEMMA OwnDeletion ==
    ASSUME IInv, NEW t \in Clients, DeleterOK(t), outbox \subseteq outbox',
           Arrive(t) \/ Work(t) \/ Fail(t) \/ CommitUnacked(t)
    PROVE  DeleterOK(t)'
<1>1. TypeOK
  BY DEF IInv
<1> USE <1>1 DEF TypeOK
<1>2. ASSUME pc'[t] \in {"idle", "lookupId", "lookupName"} PROVE DeleterOK(t)'
  BY <1>2 DEF DeleterOK
<1>3. ASSUME pc[t] \in {"write", "claimName", "store"}, UNCHANGED <<req, local>>
      PROVE  DeleterOK(t)'
  BY <1>3 DEF DeleterOK, Announced
<1>4. ASSUME req[t].op # "delete", UNCHANGED req PROVE DeleterOK(t)'
  BY <1>4 DEF DeleterOK
<1>5. CASE Arrive(t)
  BY <1>2, <1>5 DEF Arrive, CreateCompany, PatchCompany, DeleteCompany, GetCompany, Begin,
     Rollback, Finish
<1>6. CASE GetByID(t)
  <2>1. CASE /\ rows[req[t].id] # Nil
             /\ req[t].op = "delete"
             /\ Proceed(t, rows[req[t].id], "write")
    <3>1. req[t].id \in Ids
      BY <1>6, RequestType DEF IInv, PerClient, ClientOK, GetByID
    <3>2. Announced(rows[req[t].id])
      BY <2>1, <3>1 DEF IInv, OutboxMirrorsTable, EventsOf, Announced
    <3> QED BY <2>1, <3>2 DEF Proceed, DeleterOK, Announced
  <2> QED BY <1>2, <1>4, <1>6, <2>1 DEF GetByID, ApplyPatchTo, Proceed, Rollback, Finish
<1>7. CASE GetByName(t)
  BY <1>2, <1>4, <1>7 DEF GetByName, ApplyPatchTo, Proceed, Rollback, Finish
<1>8. CASE InsertRow(t) \/ UpdateRow(t) \/ DeleteRow(t) \/ ClaimName(t)
  BY <1>2, <1>3, <1>8 DEF InsertRow, UpdateRow, DeleteRow, ClaimName, LockRow, Rollback, Finish
<1>9. CASE StoreEvent(t)
  BY <1>3, <1>9 DEF StoreEvent
<1>10. CASE Commit(t) \/ CommitUnacked(t) \/ AbortDeadlock(t) \/ Fail(t)
  BY <1>2, <1>10 DEF Commit, CommitUnacked, AbortDeadlock, Fail, Rollback, Finish
<1> QED BY <1>5, <1>6, <1>7, <1>8, <1>9, <1>10 DEF Work

\* The company a deleted event shows was announced earlier, whatever overlaps
\* the deletion (service.go:116-127).
THEOREM DeletionsTellTheTruth == Spec => []DeletionsShowAnnounced
<1> DEFINE Deleters == \A t \in Clients : DeleterOK(t)
<1>1. Init => Deleters /\ DeletionsShowAnnounced
  BY DEF Init, DeleterOK, DeletionsShowAnnounced, SeedEvents
<1>2. IInv /\ Deleters /\ DeletionsShowAnnounced /\ [Next]_vars
        => (Deleters /\ DeletionsShowAnnounced)'
  <2> SUFFICES ASSUME IInv, Deleters, DeletionsShowAnnounced, [Next]_vars
               PROVE  Deleters' /\ DeletionsShowAnnounced'
    OBVIOUS
  <2>1. outbox \subseteq outbox'
    BY OutboxGrows
  <2>2. ASSUME NEW u \in Clients PROVE DeleterOK(u)'
    <3>1. ASSUME NEW t \in Clients, Arrive(t) \/ Work(t) \/ Fail(t) \/ CommitUnacked(t)
          PROVE  DeleterOK(u)'
      <4>1. CASE u = t
        BY <2>1, <3>1, <4>1, OwnDeletion
      <4>2. CASE u # t
        <5>1. pc'[u] = pc[u] /\ req'[u] = req[u] /\ local'[u] = local[u]
          BY <3>1, <4>2, OthersAnswers
        <5> QED BY <2>1, <5>1 DEF DeleterOK, Announced
      <4> QED BY <4>1, <4>2
    <3>2. CASE Crash
      BY <3>2 DEF Crash, DeleterOK
    <3>3. CASE UNCHANGED vars
      BY <3>3 DEF vars, DeleterOK, Announced
    <3> QED BY <3>1, <3>2, <3>3 DEF Next
  <2>3. DeletionsShowAnnounced'
    <3>1. CASE TablesFixed
      BY <3>1 DEF TablesFixed, DeletionsShowAnnounced, EventsOf
    <3>2. ASSUME NEW t \in Clients, pc[t] = "commit", Install(t)
          PROVE  DeletionsShowAnnounced'
      <4> DEFINE n == event[t]
      <4>1. /\ n.company = local[t] /\ local[t].id = req[t].id
            /\ n.type = EventType(req[t].op)
            /\ req[t].op \in {"create", "patch", "delete"}
            /\ \A d \in EventsOf(req[t].id) : d.at < n.at
        BY <3>2, AtCommit
      <4>2. outbox' = outbox \cup {n} /\ \A c : EventsOf(c) \subseteq EventsOf(c)'
        BY <3>2 DEF Install, EventsOf
      <4>3. ASSUME n.type = "deleted"
            PROVE  \E d \in EventsOf(n.company.id) :
                      d.type # "deleted" /\ d.at < n.at /\ d.company = n.company
        <5>1. req[t].op = "delete"
          BY <4>1, <4>3 DEF EventType
        <5>2. PICK d \in outbox : d.type # "deleted" /\ d.company = local[t]
          BY <3>2, <5>1 DEF DeleterOK, Announced
        <5> QED BY <4>1, <5>2 DEF EventsOf
      <4> HIDE DEF n
      <4> QED BY <4>2, <4>3 DEF DeletionsShowAnnounced
    <3> QED BY <3>1, <3>2, OnlyCommitWrites
  <2> QED BY <2>2, <2>3
<1> QED BY <1>1, <1>2, Invariance, PTL DEF Spec
-----------------------------------------------------------------------------
(***************************************************************************)
(* Waiting.  Who is waited for has written its row, so it can itself wait  *)
(* for a name only; and the clients reached by waiting become fewer with   *)
(* each step along it, unless it comes back.                               *)
(***************************************************************************)
LEMMA HoldersHaveWritten ==
    ASSUME IInv, NEW t \in Clients, NEW u \in WaitsFor(t)
    PROVE  u \in Clients /\ pc[u] \in Writing
<1>2. CASE pc[t] = "write"
  <2>1. u \in RowHolders(t, req[t].id)
    BY <1>2 DEF WaitsFor
  <2>2. u \in Clients /\ lockedRow[u] = req[t].id
    BY <2>1 DEF RowHolders
  <2>3. req[t].id \in Ids
    BY <1>2, RequestAssumption DEF IInv, PerClient, ClientOK, Request
  <2> QED BY <2>2, <2>3, NoIdAssumption DEF IInv, PerClient, LockOK
<1>3. CASE pc[t] = "claimName"
  <2>1. u \in NameHolders(t, local[t].name)
    BY <1>3 DEF WaitsFor
  <2>2. u \in Clients /\ (claimedName[u] = local[t].name \/ lockedRow[u] \in Ids)
    BY <2>1 DEF NameHolders, Owners
  <2>3. local[t].name # Nil
    BY <1>3, NilAssumption DEF IInv, PerClient, ClientOK, Writing, Company
  <2> QED BY <2>2, <2>3, NoIdAssumption DEF IInv, PerClient, LockOK, Writing
<1> QED BY <1>2, <1>3 DEF WaitsFor

\* One who writes and still waits, waits for a name.
LEMMA WritersWaitForNames ==
    ASSUME IInv, NEW t \in Clients, pc[t] \in Writing, WaitsFor(t) # {}
    PROVE  pc[t] = "claimName"
BY DEF WaitsFor, Writing

\* The clients t waits for, through others or not.
Reach(t) ==
    {v \in Clients : \A S \in SUBSET Clients :
                        WaitsFor(t) \subseteq S /\ ClosedUnderWaiting(S) => v \in S}

LEMMA ReachIsClosed ==
    ASSUME IInv, NEW t \in Clients
    PROVE  /\ Reach(t) \in SUBSET Clients
           /\ WaitsFor(t) \subseteq Reach(t)
           /\ ClosedUnderWaiting(Reach(t))
<1>1. \A u \in Clients : WaitsFor(u) \subseteq Clients
  BY HoldersHaveWritten
<1>2. WaitsFor(t) \subseteq Reach(t)
  BY <1>1 DEF Reach
<1>3. ASSUME NEW u \in Reach(t), NEW v \in WaitsFor(u) PROVE v \in Reach(t)
  <2>1. u \in Clients /\ v \in Clients
    BY <1>1 DEF Reach
  <2>2. ASSUME NEW S \in SUBSET Clients, WaitsFor(t) \subseteq S, ClosedUnderWaiting(S)
        PROVE  v \in S
    <3>1. u \in S
      BY <2>2 DEF Reach
    <3> QED BY <2>2, <3>1 DEF ClosedUnderWaiting
  <2> QED BY <2>1, <2>2 DEF Reach
<1> QED BY <1>2, <1>3 DEF Reach, ClosedUnderWaiting

\* One step along the waiting reaches less, unless it comes back.
LEMMA ReachShrinks ==
    ASSUME IInv, NEW t \in Clients, NEW u \in WaitsFor(t), ~ Deadlocked(u)
    PROVE  Cardinality(Reach(u)) < Cardinality(Reach(t))
<1>1. u \in Clients
  BY HoldersHaveWritten
<1>2. /\ Reach(t) \in SUBSET Clients /\ u \in Reach(t) /\ ClosedUnderWaiting(Reach(t))
      /\ WaitsFor(u) \subseteq Reach(t)
  BY ReachIsClosed DEF ClosedUnderWaiting
<1>3. Reach(u) \subseteq Reach(t)
  BY <1>2 DEF Reach
<1>4. u \notin Reach(u)
  BY <1>1 DEF Reach, Deadlocked
<1>5. IsFiniteSet(Reach(t))
  BY <1>2, ClientAssumption, FS_Subset
<1>6. /\ Cardinality(Reach(u)) <= Cardinality(Reach(t))
      /\ Cardinality(Reach(u)) # Cardinality(Reach(t))
      /\ IsFiniteSet(Reach(u))
  BY <1>2, <1>3, <1>4, <1>5, FS_Subset
<1>7. Cardinality(Reach(u)) \in Nat /\ Cardinality(Reach(t)) \in Nat
  BY <1>5, <1>6, FS_CardinalityType
<1> QED BY <1>6, <1>7

\* While requests are in flight, one of them waits for nobody or the server sees the
\* cycle it is in.
WaitingEnds ==
    (\E t \in Clients : pc[t] # "idle") =>
        \E t \in Clients : pc[t] # "idle" /\ (WaitsFor(t) = {} \/ Deadlocked(t))

\* No locks taken in any order, by any number of requests, leave everyone waiting
\* without a cycle for the server to break: no transaction that ended, failed or
\* crashed keeps a lock (company_repository.go:36-113, transaction.go:32-56).
THEOREM WaitingAlwaysEnds == Spec => []WaitingEnds
<1>1. ASSUME IInv PROVE WaitingEnds
  <2> DEFINE Busy == {t \in Clients : pc[t] # "idle"}
             Sizes == {Cardinality(Reach(t)) : t \in Busy}
  <2> SUFFICES ASSUME Busy # {},
                      \A t \in Busy : WaitsFor(t) # {} /\ ~ Deadlocked(t)
               PROVE  FALSE
    BY DEF WaitingEnds
  <2>1. Sizes \subseteq Nat /\ Sizes # {}
    <3>1. ASSUME NEW t \in Busy PROVE Cardinality(Reach(t)) \in Nat
      BY <1>1, ReachIsClosed, ClientAssumption, FS_Subset, FS_CardinalityType
    <3> QED BY <3>1
  <2>2. PICK n \in Sizes : \A m \in Sizes : n <= m
    <3> HIDE DEF Sizes
    <3> QED BY <2>1, Least
  <2>3. PICK t \in Busy : n = Cardinality(Reach(t))
    BY <2>2
  <2>4. PICK u \in WaitsFor(t) : TRUE
    BY <2>3
  <2>5. u \in Busy
    BY <1>1, <2>3, <2>4, HoldersHaveWritten DEF Writing
  <2>6. Cardinality(Reach(u)) < n
    BY <1>1, <2>3, <2>4, <2>5, ReachShrinks
  <2>7. Cardinality(Reach(u)) \in Sizes
    BY <2>5
  <2>8. n \in Nat /\ Cardinality(Reach(u)) \in Nat /\ n <= Cardinality(Reach(u))
    BY <2>1, <2>2, <2>7
  <2> HIDE DEF Sizes
  <2> QED BY <2>6, <2>8
<1> QED BY <1>1, Invariance, PTL

\* Only renames deadlock, whatever creations and deletions run beside them
\* (company_repository.go:36-113).
THEOREM RenamesDeadlock == Spec => []OnlyRenamesDeadlock
<1>1. IInv => OnlyRenamesDeadlock
  <2> SUFFICES ASSUME IInv, NEW t \in Clients, Deadlocked(t)
               PROVE  pc[t] = "claimName" /\ req[t].op = "patch"
    BY DEF OnlyRenamesDeadlock
  <2> DEFINE Awaited == {u \in Clients : \E v \in Clients : u \in WaitsFor(v)}
             AwaitedByThem == {u \in Clients : \E v \in Awaited : u \in WaitsFor(v)}
  <2>1. \A u \in Clients : WaitsFor(u) \subseteq Awaited
    BY HoldersHaveWritten
  <2>2. t \in Awaited
    <3>1. WaitsFor(t) \subseteq Awaited /\ ClosedUnderWaiting(Awaited)
      BY <2>1 DEF ClosedUnderWaiting
    <3> QED BY <3>1 DEF Deadlocked
  <2>3. t \in AwaitedByThem
    <3>1. \A u \in Awaited : WaitsFor(u) \subseteq AwaitedByThem
      BY <2>1
    <3>2. AwaitedByThem \subseteq Awaited
      OBVIOUS
    <3>3. ClosedUnderWaiting(AwaitedByThem) /\ WaitsFor(t) \subseteq AwaitedByThem
      BY <2>2, <3>1, <3>2 DEF ClosedUnderWaiting
    <3> QED BY <3>3 DEF Deadlocked
  <2>4. WaitsFor(t) # {}
    <3>1. ASSUME WaitsFor(t) = {} PROVE FALSE
      <4>1. ClosedUnderWaiting({}) /\ {} \in SUBSET Clients
        BY DEF ClosedUnderWaiting
      <4> QED BY <3>1, <4>1 DEF Deadlocked
    <3> QED BY <3>1
  <2>5. pc[t] = "claimName"
    BY <2>2, <2>4, HoldersHaveWritten, WritersWaitForNames
  <2>6. PICK v \in Awaited : t \in WaitsFor(v)
    BY <2>3
  <2>7. pc[v] = "claimName"
    BY <2>6, HoldersHaveWritten, WritersWaitForNames
  <2>8. claimedName[t] = Nil /\ local[v].name # Nil /\ lockedRow[t] = req[t].id
    BY <2>5, <2>6, <2>7, NilAssumption
       DEF IInv, PerClient, ClientOK, LockOK, Writing, Company
  <2>9. rows[req[t].id] # Nil
    <3>1. t \in NameHolders(v, local[v].name)
      BY <2>6, <2>7 DEF WaitsFor
    <3> QED BY <2>8, <3>1 DEF NameHolders, Owners
  <2>10. /\ req[t].op \in {"create", "patch"}
         /\ (req[t].op = "create") <=> (rows[req[t].id] = Nil)
    BY <2>5 DEF IInv, PerClient, ClientOK, RowExists, Writing
  <2> QED BY <2>5, <2>9, <2>10
<1> QED BY <1>1, Invariance, PTL
=============================================================================
