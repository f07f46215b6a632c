# Company service: specifications, model checking and proofs

The repository is a Go microservice that stores companies in Postgres, changes
them over a JSON API, and announces every change as an event: the change and an
outbox row are written in one transaction, and a background worker relays the
outbox to Kafka. This directory holds TLA+ modules of that system, the TLC
configurations that check them on small instances, and theorems that TLAPS proves
for every instance. Source paths below are relative to
`src/`; `service.go` is `internal/application/company/service.go`, and the other
short names are unique in the tree.

## 1. Inventory

| Component | Source | State | Operations |
|---|---|---|---|
| Company entity | `domain/company/company.go`, `type.go` | a company in memory | `NewWithID`, `ApplyPatch`, `Validate`, `IsEmpty` |
| Application service | `application/company/service.go`, `entities.go` | none between calls; a company and an event during a call | `CreateCompany`, `PatchCompany`, `DeleteCompany`, `GetCompany`, `publish` |
| Company repository | `postgres/company_repository.go`, first migration | table `companies` (primary key, unique name, `int4` amount) | `Create`, `Update`, `Delete`, `GetByID`, `GetByName` |
| Transactions | `postgres/transaction.go` | the open transaction, carried in the context | `WithinTransaction` |
| Outbox repository | `postgres/outbox_repository.go`, second migration | table `outbox_events` | `Store`, `FetchPending`, `MarkPublished`, `MarkFailed` |
| Outbox publisher | `outbox/publisher.go` | a batch in memory, its rows locked | `Run`, `ProcessBatch` |
| Producers | `events/` | the Kafka writer and its message in flight | `NewProducer`, `Publish`, `Close` |
| HTTP interface | `interfaces/http/` | one goroutine for each request | four endpoints, two health endpoints, token middleware |
| Token manager | `auth/jwt.go`, `cmd/token` | the secret | `Validate`, `Generate` |
| Lifecycle and pool | `cmd/api/main.go`, `postgres/postgres.go` | signal context, server, connection pool | start, stop on a signal or when the listener fails |
| Configuration | `config/config.go` | none; the environment is read once | `Load` |

How they interact: a handler calls the service; the service runs its statements
inside `WithinTransaction`, which puts the transaction into the context, where
the repositories find it (`executorFromContext`). The only state the requests
share is the database. The publisher goroutine shares the outbox table with
them, and with the publishers of other processes.

What is hard here, and what makes each component correct:

* **Service and repository.** Requests interleave between statements under READ
  COMMITTED. A name is looked up in one statement and written in another; a row
  is read before it is locked; locks are taken in an order that depends on the
  requests; a statement, an acknowledgement or the process may fail anywhere.
  Correct means: names stay unique, a change and its event are one step, events
  of a company appear in the order of their stamps, and everyone gets an answer
  that is true.
* **Publisher.** It sends inside a transaction that may still be rolled back, so
  Kafka and the table disagree after every failure. Correct means: nothing
  marked is lost, nothing marked is sent again, two processes do not work on one
  event, the last message of a company is its last event, and an event Kafka
  never takes does not hold up the others.
* **Entity.** `ApplyPatch` assigns field by field and returns at the first
  rejected one. Correct means: it does what a field-by-field reference says.
* **Lifecycle and pool.** Requests, the publisher and the shutdown run side by
  side. Every transaction needs a connection of a limited pool; `main` waits for
  the handlers up to a deadline, for the Kafka writer and for the connections
  without one, and for the publisher not at all. Correct means: the pool never
  locks up, nothing is closed under a request before the deadline, a committed
  change is answered, the end of the process is not recorded as the failure of an
  event, and the process ends.
* **Configuration.** Values that do not parse fall back to defaults; values that
  parse to nonsense (zero, negative, beyond 32 bits, blank) are caught later or
  not at all. Correct means: a process that starts can work.
* **From the request to the consumer.** Events are stored in order, and sent in
  another: processes overtake each other, refused events wait, rows come due late.
  Correct means: a consumer who goes by `occurred_at` has the table in the end.
* **HTTP interface.** Five layers can refuse a request. Correct means: a change
  comes only from a request that passed them all and is the change it asked for,
  and the status tells what happened.

`PROJECT.json` lists every hazard with the line where it bites and the properties
that cover it, or why none does.

## 2. Modules

| Module | What it is |
|---|---|
| `CompanyDomain` | Pure operators: validation, `NewWithID`, `ApplyPatch`. Extended by the next four. |
| `CompanyEntity`, `MCCompanyEntity` | The life of one entity in memory. |
| `CompanyLog` | Abstract specification of the service: a table and a log that change together. |
| `CompanyStore`, `MCCompanyStore` | The core: service, repositories and transactions over Postgres. |
| `CompanyApi`, `MCCompanyApi` | The HTTP interface composed with `CompanyStore`. |
| `OutboxPublisher`, `MCOutboxPublisher` | The relay from the outbox to Kafka. |
| `EventRelay` | Abstract specification of the relay: at-least-once delivery. |
| `CompanySystem`, `MCCompanySystem` | The service, the relay and a consumer over one table. |
| `Config` | Pure operators: what the process makes of its environment. |
| `Process`, `MCProcess` | One process from start to end: `main`, pool, server, handlers, publisher's goroutine, producer. Extends `Config`. |
| `CompanyEntityProofs`, `CompanyStoreProofs`, `CompanyApiProofs`, `OutboxPublisherProofs`, `CompanySystemProofs`, `ProcessProofs` | The theorems about the module of that name and their proofs. |
| `DomainLemmas` | What `NewWithID` and `ApplyPatch` return: the ground of the proofs about the entity and the store. |
| `OrderLemmas` | The least of a set of numbers, and where messages stand in a topic: used by every proof that would be an induction. |

Operators introduced by a comment "Slip:" are not part of a specification. Each
is a definition as a plausible bug would have it (a dropped check, a wrong
order); it shows that a property can fail.

### CompanyStore and the code

A client is a goroutine that serves a request. `pc` names the statement it
executes next: one action is that statement and the code up to the following
one. Statements map to actions like this:

| `pc` | Action | Code |
|---|---|---|
| `idle` | `CreateCompany`, `PatchCompany`, `DeleteCompany`, `GetCompany` | the call up to BEGIN; validation and the empty patch are refused here |
| `lookupId` | `GetByID` | the SELECT by id; for PATCH without a name also `ApplyPatch` |
| `lookupName` | `GetByName` | the SELECT by name; for PATCH also `ApplyPatch` |
| `write` | `InsertRow`, `UpdateRow`, `DeleteRow` | the row part of the statement |
| `claimName` | `ClaimName` | the unique-index part of INSERT and UPDATE |
| `store` | `StoreEvent` | `publish`: `now()`, then the INSERT into the outbox |
| `commit` | `Commit`, `CommitUnacked` | COMMIT, with or without its acknowledgement |
| any | `Fail`, `AbortDeadlock`, `Crash` | an error of a statement, the deadlock detector, the death of the process |

Postgres is external and modelled from how the code uses it. `rows` and `outbox`
are what is committed. A transaction's own writes are in `lockedRow`,
`claimedName`, `local` and `event` until `Commit` installs them, and a rollback
drops them. A SELECT reads committed rows and locks nothing. A writing statement
waits while another transaction has written its row; an INSERT or UPDATE that
sets a new name also waits while another transaction has entered that name, or
has written the row that carries it; after the wait it looks again. INSERT and
UPDATE are two actions because a transaction holds its row while it waits for
the name, which is what makes a deadlock possible. `WaitsFor` says whose end a
statement waits for; `Deadlocked(t)` says that whoever follows the waits from `t`
comes back to it: every set that holds those `t` waits for, and with each client
those it waits for, holds `t`. A text with a zero byte passes every check of the
code, and Postgres takes it in no text (`Unstorable`): `GetByName` with such a name,
and `InsertRow` and `UpdateRow` with a company that is not `Encodable`, end in a
rollback and an error without a status of its own, as for an amount past `int4`.

### OutboxPublisher and the code

A poll is `FetchPending`, then for each row in `created_at` order `PublishOk` or
`PublishError` and then `MarkPublished` or `MarkFailed`, then `Commit`. The
marks live in `marks` until `Commit`; `BatchFails` (a mark or COMMIT returns an
error) and `Stop` drop them, while `topic` keeps what was sent. One call of `Publish`
may leave any number of copies: `WriteUnacknowledged` is a message the writer sends
again because its acknowledgement is lost, each time a failure of its own, before
`PublishOk` or `PublishError` ends the call. `SKIP LOCKED` locks row by row, so two
polls at the same time may split the oldest rows: with more than one publisher
`Scanned` lets a poll pass over any due rows, which allows more than Postgres does
(rows are skipped only while another process has them). An event is known by its
`created_at` and its company. `Store` takes the newest event of its company: the
assumption that `CompanySystem` discharges. Time is one bit an event: `waiting` until
`available_at`, which `BecomeDue` ends at any moment. `late` remembers the
events stored with an `available_at` after the publisher's `now()`: `now()` is
the start of the writer's transaction for one and of the publisher's for the
other. A lost acknowledgement of the publisher's COMMIT needs no action of its
own: the publisher goes back to polling either way, so it is `Commit`. A poll
that finds nothing due, or whose SELECT fails, changes nothing and is left out.

### CompanyApi and the code

It extends `CompanyStore`. `Unauthorized` and `BadRequest` answer without a call
of the service, `Handle` calls it, `Serve` lets it work, `Respond` turns its
outcome into a status or loses it with the connection. `seen` is a history
variable: what the outbox held when the request was accepted. A request turned
away changes nothing of the service, so every step of the interface is a step of
`CompanyStore` or leaves it alone.

### CompanySystem and the code

`CompanySystem` extends `CompanyStore` and instantiates `OutboxPublisher` with
`stored` as the keys (stamp and company) of the committed rows. A commit of the
service is a step of both; every other step is a step of one of them. The
properties are about a consumer of the topic that keeps, for each company, the
message with the greatest `occurred_at`; it is not part of the repository and has
no state of its own in the model: what it has is a function of the topic.

### Process and the code

`main` names the next step of `main()`; `work` that of each goroutine. A request
is `Accept`, `Begin` (wait for a connection), `Query`, `Exec`, `Commit` or a
`Rollback` in between, and `Respond`; the publisher runs the same transaction
around `Publish` and `PublishReturns`, and `Tick` between two of them. What the
statements do is in `CompanyStore` and `OutboxPublisher`; here it matters that
they take and give back connections, and when. `age` holds the timeouts a request
has outlived, `WriteTimeout` and the router's; `HTTP_WRITE_TIMEOUT` is configured, so
either may pass first; the router's is dropped once the transaction has ended, because
nothing reads its context then. `Signal` and `DeadlinePasses` may come at any moment, and the
listener may fail at once (`Listen`) or with requests running (`ListenerBreaks`).

| `main` | Action | Code |
|---|---|---|
| `load` | `LoadConfig` | `config.Load`, `NotifyContext` |
| `connect` | `NewPool`, `NewPoolFails` | `postgres.NewPool` |
| `build` | `Build` | `NewProducer`, `NewPublisher`, the two `go` statements |
| `wait` | `StopServer` | `<-ctx.Done()`, the listener is closed |
| `shutdown` | `ShutdownReturns` | `server.Shutdown` returns |
| `closeProducer`, `flush` | `CloseProducer`, `ClosePool` | `eventProducer.Close`, which returns when nothing is in flight |
| `drain` | `Exit` | `dbPool.Close`, which returns when no connection is out |

## 3. Runs

| Run | Instance | States | Question |
|---|---|---|---|
| `entity` | every input and patch over 8 texts | 3,492 | Does the early-returning `ApplyPatch` agree with a field-by-field reference? |
| `store_safety` | 2 clients, 13 kinds of request, 4 requests, 1 failure | 102,388 | Does the service, statement by statement, implement `CompanyLog`? |
| `store_races` | 3 clients, 5 racing requests, 4 requests, 1 failure | 146,883 | Do names stay unique and is the outbox a faithful history? |
| `store_deadlock` | 3 clients, crossing renames with a creation and a deletion, 4 requests | 103,123 | Can everyone wait for everyone for good, and who can be in a deadlock? |
| `store_liveness` | 3 clients, crossing renames of two companies, 4 requests | 206,497 | Is every request answered, the cyclic lock wait included? |
| `store_lost_update` | 2 clients, 2 patches | violation | Does a patch keep the fields it does not mention? |
| `api` | 2 clients, 12 messages, 3 requests that reach the service, 1 failure | 324,205 | Are answers documented and true, and are they and the rows the changes were made from no older than the requests? |
| `relay_safety` | 2 publishers, 3 events, batch 2, 2 failures | 1,140,408 | Is anything lost, sent after its mark, or repeated without a failure? Is it at-least-once delivery? |
| `relay_order` | 1 publisher, 3 events, batch 2, 1 refused, 2 failures | 78,640 | Is the last message of a company its last event, and is every event Kafka takes published? |
| `relay_failure_record` | 1 publisher, 2 failures | violation | Does the record of a failed publication outlive its batch? |
| `system` | 1 company, 2 clients, 2 requests, 2 publishers, batch 1, 1 failure on each side | 198,852 | Does the consumer end up with the table? |
| `process` | 2 requests, the publisher, 7 environments | 522,407 | Does the pool keep moving, is nothing closed too early, does the process end? |

Bounds, and why they are enough:

* *Two companies and a few names.* Conflicts are about one row or one name; a
  second company is what takes the name, and what crosses in the deadlock run.
* *Requests.* Three or four requests let a creation, a rename, a deletion and a
  second creation of one company follow or overlap each other. The deadlock
  needs exactly four: two renames that looked their names up while they were
  free, and two later ones that gave each name to the other company.
* *Failures.* One failure hits every statement of every interleaving; the relay
  runs have two because one batch is interrupted and its repetition
  again. `store_liveness` has none: a failure takes no lock and no request along
  (it ends in the same `Rollback` as a refusal), and with one the instance that
  reaches the deadlock is too large. `WaitingAlwaysEnds` covers failures by proof.
* *Texts.* One text at each limit, the same text padded, one past the limit, a
  blank and an empty one. In the store runs only equality of trimmed names
  matters, and one text has a zero byte (`store_safety`, `api`): as a new company's
  name, and as a description in a patch.
* *Amounts.* `MaxInt4` is 1, so that 2 overflows the column.
* *Events and batch.* Three events with a batch of two: a full batch, a rest,
  and two events of one company around one of another.
* *The system.* One company and two changes of it give two events that two
  publishers with a batch of one carry at the same time, in either order; the
  batch of one is what lets them overtake each other most.
* *The process.* Three goroutines share a pool of one or two connections, so
  someone waits. One request for each handler and one event for each batch: the
  properties are about who holds what, and a second request or event of the same
  goroutine starts where the first ended.
* *Environments.* Each value is missing, unparsable, zero, negative, or too wide
  in one of them. `int32` is scaled down: 2^31 is 16, and 33 stands for 2^32 + 1.
* `MaxAttempts` caps `attempts` and `failures`; nothing reads them beyond zero.

Deadlock checking is on in `api`, where clients can always send another request
that is turned away. In the other configurations it is off: a behaviour ends when
the bounded number of requests, events or failures is used up, or the process has
ended. `SomeoneCanMove` is the
deadlock property of the store and is checked as an invariant.

Three properties are subtler than their names say:

* `AnswersAreFresh` compares an answer with what was stored between the arrival
  of the request and the answer. A 409 to a patch that gives no name is possible
  and counted as fresh: `Update` writes back the name read at `GetByID`
  (`company_repository.go:72`), and if the company was renamed meanwhile and the old
  name given to another one, the patch asks for a name its sender never mentioned.
  The `api` run reaches it.
* `LastMessageWins` asks of the older of two events only that it went its way
  untroubled. The later one may have been refused or stored late: it is sent after
  the older one in any case.
* `ChangesBuildOnFreshRows` does not say that a patch or a deletion sees the row it
  replaces (`PatchKeepsMissingFields` says so, and fails). It says that the row it was
  computed from was the stored one at some moment while the request was handled.

Four properties are in no run, and stated for a theorem each: `OkMeansRecorded`, which
`AnswerTellsTheTruth` repeats at the interface; `LastMessageShowsRow`, which takes one
publisher where the `system` run has two; `LoneChangesAreExact` and
`InternalErrorHasCause`, which hold beside `ChangesBuildOnFreshRows` and
`AnswersAreDocumented` in the instance of the `api` run.

### Fairness

`FairSpec` of `CompanyStore` asks weak fairness of each client's `Work`: the Go
scheduler runs every goroutine, and the server executes a statement whose lock
is free, or aborts one in a cycle of waits (`deadlock_timeout`). Arrivals and
failures are not fair. A lock that is free, taken and free again could starve a
waiter under weak fairness; with a bounded number of requests this cannot happen,
and Postgres queues waiters, so the bound hides no behaviour of the server.

`FairSpec` of `OutboxPublisher` asks weak fairness of each publisher's `Work`
(the ticker of `Run` fires) and of `BecomeDue` (time passes). A stopped process
is started again: an assumption about the deployment (`docker-compose.yml` has
no restart policy), without which nothing is published after a stop. Failures
are not fair, and their number is bounded. The property is stated for refused events that
cannot fill a batch. Beyond that number they starve the others whenever all of
them are due at each poll, and the ten seconds of `available_at`, which the
model does not measure, decide.

`FairSystem` asks the same of the service and of the publishers side by side.
Requests, failures of either side, and stops are not fair.

`FairSpec` of `Process` asks weak fairness of `main`, of the listener's goroutine,
of the publisher's and of each handler's; of the shutdown deadline (a timer); and
of `Flush`: the Kafka writer settles a message in a bounded number of attempts,
which is kafka-go's default. It asks nothing of signals, of new requests, or of
the two timeouts of a request: a process ends although no timeout ever passes.
The fairness of the handlers includes that the server answers each statement,
also after the deadline; `dbPool.Close` has no deadline of its own, so without it
the process would not end.

### Disagreements with the documentation

* `PatchKeepsMissingFields` (`store_lost_update`). `PatchCompany` reads the row
  without locking it, patches the copy and writes every column back, so of two
  overlapping patches the later one undoes the earlier one's field. The test
  "patch partial update does not overwrite missing fields" covers one request.
  `LoneChangesExact` bounds the damage: only requests that overlap lose a field.
* `FailureRecorded` (`relay_failure_record`). A failure is recorded in the
  transaction of the whole batch and vanishes when another statement of the batch
  fails. In the trace two events are fetched, the first is refused and marked as
  failed, the second is sent and its mark fails: the row of the first says nothing
  of its failure. `README.md:139` of the repository says the row records it.

### Assumptions

* The wall clock of the service does not step back, and one process (or several
  with synchronous clocks) hands out stamps: `clock` only grows. The mirror
  property is about stamps and would fail without it.
* Two changes of one company do not carry the same microsecond.
* `Store` in `OutboxPublisher` commits the events of one company in the order of
  `created_at`. That is not a free assumption: `CompanySystem` has no such guard,
  and `RelayGetsItsOrder` is checked and proved of it.
* A message arrives in the topic before `Publish` returns or the process is gone,
  or never. A message that is given up and arrives later, after another process
  has sent and marked the event, is left out; `main` waits for the writer, so it
  takes two processes, or a kill with bytes on the wire.
* The pool: pgxpool cannot be built with room for no connection (it fails or
  panics in `NewPool`, which both end the process); it gives a connection to a
  waiter in no particular order; a transaction that commits, rolls back or fails
  gives its connection back; `Close` waits for all of them. `ListenAndServe` after
  `Shutdown` returns at once.
* `LastMessageWins` is stated for one publisher process, for companies none of
  whose events Kafka refused, and for events that were due when they were stored.
  Each exception is a real reordering: `SKIP LOCKED` lets a second process
  overtake, a refused event waits ten seconds, and a late `available_at` hides
  an older event.

## 4. Proofs

All theorems hold for every value of the constants that satisfies the modules'
assumptions.

| Module | Theorem | Property |
|---|---|---|
| `CompanyEntityProofs` | `EntityTypeCorrect` | `TypeOK` |
| | `EntityIsValid` | `EntityStaysValid` |
| | `PatchIsAsExpected` | `PatchMatchesReference` |
| | `RetryChangesNothing` | `RetryIsIdempotent` |
| `CompanyStoreProofs` | `TypeCorrect` | `TypeOK` |
| | `NoDuplicateNames` | `NamesUnique` |
| | `MirrorCorrect` | `OutboxMirrorsTable` |
| | `AnswersAreRecorded` | `OkMeansRecorded` |
| | `StampOrder` | `StampsFollowCommits` |
| | `LivesAreTold` | `EventsTellALife` |
| | `DeletionsTellTheTruth` | `DeletionsShowAnnounced` |
| | `ImplementsLog` | `Refinement`: every step is a step of `CompanyLog` or leaves its variables alone |
| | `WaitingAlwaysEnds` | the part of `SomeoneCanMove` about locks, without ENABLED |
| | `RenamesDeadlock` | `OnlyRenamesDeadlock` |
| `CompanyApiProofs` | `ApiKeepsStore` | the interface's behaviours are the store's, seen through the store's variables |
| | `ApiTypeCorrect` | `ApiTypeOK` |
| | `AnswersDocumented` | `AnswersAreDocumented` |
| | `AnswersTellTheTruth` | `AnswerTellsTheTruth` |
| | `EffectsMatch` | `EffectMatchesMessage` |
| | `AnswersStayFresh` | `AnswersAreFresh` |
| | `ChangesAreFresh` | `ChangesBuildOnFreshRows` |
| | `LoneChangesExact` | `LoneChangesAreExact` |
| | `InternalErrorsExplained` | `InternalErrorHasCause` |
| `OutboxPublisherProofs` | `RelayTypeCorrect` | `TypeOK` |
| | `NothingLost` | `PublishedWasDelivered` |
| | `PublishersKeptApart` | `OnePublisherPerEvent` |
| | `MarkedStaysUnsent` | `NeverResentOnceMarked` |
| | `ImplementsRelay` | `AtLeastOnce`: the refinement of `EventRelay` |
| | `LastMessageIsNewest` | `LastMessageWins`, with one publisher |
| | `RepeatsAreFailures` | `RepeatsTakeFailures` |
| `CompanySystemProofs` | `SystemKeepsStore` | the system's behaviours are the store's, seen through the store's variables |
| | `RelayKept` | `RelayGetsItsOrder` |
| | `SystemRepeats` | `RepeatsTakeFailures`, from the requests on |
| | `SystemDelivers` | the refinement of `EventRelay`, from the requests on |
| | `ConsumerHasTheTable` | `ConsumerAgrees` |
| | `LastMessageHasTheRow` | `LastMessageShowsRow`, with one publisher |
| `ProcessProofs` | `ProcessTypeCorrect` | `TypeOK` |
| | `PoolNeverLocksUp` | `PoolKeepsMoving` |
| | `PoolClosedLast` | `ClosedAfterTheRequests` |
| | `CommitsAreAnswered` | `CommittedIsAnswered` |
| | `StopIsNeverBlamed` | `StopIsNoFailure` |
| | `StartedWorks` | `StartedCanWork` |

### The entity

`OverlayIsNormal` is the core: `ApplyPatch` assigns a field only after it was found
acceptable, so whatever it returns with, the company in memory is as good as before.
`AcceptedPatch` follows, and says that the final `Validate` never finds more than the
checks before it. The invariant adds that the entity is the built company, patched
once or not at all.

### The store

The theorems rest on the assumptions declared in `CompanyDomain` and `CompanyStore`:
trimming is idempotent and keeps the empty text, the valid types are among the
types, `Nil` is distinct from every value, requests are well-formed, the seed
holds valid companies with distinct names that Postgres can store, trimming adds
and removes no zero byte and the empty text has none, there are finitely many clients. The store
runs evaluate all of them.

The properties are not inductive. `NamesUnique` alone says nothing about a
transaction about to commit; what makes the commit safe was established several
statements earlier and has been protected by a lock since. The invariant `IInv`
says so in parts:

* `ClientOK`: what a client knows at each statement (a valid company in memory,
  with the id of the request).
* `LockOK`: which locks it holds there, and that they are its own.
* `RowLocksExclusive`, `NameLocksExclusive`: no two clients hold one lock.
* `RowExists`: from the moment the row is locked until the commit, the row exists
  exactly if the request is not a creation. Only the holder of the lock can
  change that.
* `NameHeld`: from the entry in the unique index until the commit, the row
  already carries the name, or the name is claimed and no row carries it.
* `EventOK`, `StampsOK`: the event about to be committed has a later stamp than
  every event of its company, because the stamp is taken under the row lock.
* `RowsOK`: stored companies are valid.

`AppearsInOrder` says that an event is committed with a later stamp than any of its
company. `StampOrder` follows, and `KeysApart`, which the interface and the system use:
two events of one company with one stamp are the same event.

Each action has a lemma that says it keeps `IInv`. Those that change one client
and no table share `QuietStep`; `AtCommit` collects what the locks guarantee at
the commit, and `CommitKeeps` uses it. The refinement follows from `OnlyCommitWrites`
(no other action changes a table) and `CommitIsLogStep`.

Waiting has two theorems. `HoldersHaveWritten` says that whoever is waited for is past
its row lock, so it waits for a name if at all; a creation there has a row nobody can
see, and a deletion has no name to wait for, so a cycle consists of renames.
`WaitingAlwaysEnds` is a descent: the clients reached along the waits become fewer
with each step (`ReachShrinks`), unless they lead back. That a client who waits for
nobody can then really take its step is what `SomeoneCanMove` adds, by model checking.

### The HTTP interface

`ApiKeepsStore` makes the store's invariant available; besides it rests on
`MessageAssumption` (messages are well-formed and what may be passed on is one of
the store's requests). What is added is `ApiIInv`, one part for each phase of a
connection:

* `AtWork`: the service works on the request the message stands for, the company
  in memory carries the fields the message gives, and no event is in hand before
  the last statement.
* `Settled`: the service has replied, for a reason the operation has; success of
  a change means that its event appeared since the request was accepted.
* `Answered`: the status is documented and says what happened.
* `EventKnown`: an event that appeared since the request was accepted is the one
  its message asks for.

A request turned away, and one refused before it wrote, leave the event of an
earlier request in hand or none: that is why `seen` is in the properties.
`ServeCases` reduces the service's actions to the five things they can do to a
connection; `EventIsNew` is where the stamps of the store's invariant are needed.

`AnswersStayFresh` has an invariant of its own, `FreshConnection`: what a client knows
at each statement was so at some moment since its request was accepted. Rows come and
go, so it is stated about the outbox, which only grows: `StoredIsShown` and
`MissingIsAbsent` turn what a statement sees in the table into what the outbox says of
it, and `FreshnessStays` keeps that from then on.

`ChangesAreFresh` and `LoneChangesExact` share the invariant `BuildOK`. From `GetByID`
on, a patch or a deletion carries a company that was computed from a stored row
(`MadeFrom`): some event stored since the request was accepted shows that row, and the
company in memory is it with the given fields replaced (`PatchLeavesRest`, a lemma
about `ApplyPatch`). The outbox only grows, so `BuildStays` keeps that whatever other
requests do. If the event just before the request's own was there when it was accepted,
no other change lies between the two, and the row read is the row replaced.

`InternalErrorsExplained` follows a reply from the cause it has in the service
(`CauseOK`): an error without a status of its own is left by a failure, by the deadlock
detector, which `RenamesDeadlock` confines to patches, or by a company Postgres cannot
store: an amount past the column, a zero byte in a text. Of patches the theorem says
nothing.

### The relay

A mark is safe to commit because Kafka took the event earlier, while its row was
locked. The invariant says so for every step between: `CurrentWasSent` (the event
about to be marked is in the topic), `MarkedWasSent` (an uncommitted mark says
what happened), `BatchPending` (a locked row carries no committed mark),
`OnePublisherPerEvent`, and `RestHasNoMarks`, without which a new batch could
inherit the marks of an old one. `StepKeeps` does not need the order in which
events are stored.

`LastMessageIsNewest` does, and takes one publisher. Its invariant `OrderInv` follows
an event from the table to the topic: a batch leaves nothing behind that its events
supersede (`BatchIsPrefix`), is marked in order (`MarksInOrder`), and whatever it has
sent comes, in the topic, after every message of the events it supersedes
(`SentInOrder`), which then holds of what is published (`PublishedInOrder`). A batch
that is rolled back may leave the topic in disorder; only the last transmission of an
event counts, and the next batch starts again from the oldest.

`RepeatsAreFailures` is a count. The publisher forgets that it sent an event only when
a failure takes its mark or its batch away, so an event has at most as many messages as
there were failures, and one more if it is `Remembered`: published, or sent in the batch
a publisher holds (`CopiesCounted`). `CurrentIsForgotten` is the step that matters:
whoever is about to send an event, no publisher remembers it.
`SystemRepeats` carries the result over to the system.

### The system

`SystemKeepsStore` carries every theorem about the store over. `RelayKept` is
where the two components meet: what `AtCommit` knows of a commit is what
`OutboxPublisher` assumes in `Store`. It makes every theorem about the relay available:
`OutboxPublisherProofs` is instantiated (`RelayProofs`) and its assumptions follow from
the system's (`RelayConstants`). So `SystemDelivers`, and `ConsumerHasTheTable` from two
facts: the outbox mirrors the table (`OutboxMirrorsTable`), and what is marked was sent
(`NothingLost`). It covers every number of publishers, so the exceptions of
`LastMessageWins` do not arise. `LastMessageHasTheRow` is about the simpler consumer, who
keeps the message received last; it joins `LastMessageIsNewest` with the mirror. Its
property is in no run, because the `system` run has two publishers, and they do break it.

### The process

The invariant ties the pool to the goroutines (a connection is held exactly at
the statements of a transaction), the shutdown to the requests (`main` is past
`ShutdownReturns` only when no request is active or the deadline is past) and the
producer to the context (it is closed, and a `Publish` interrupted, only when the
publisher's context is done, and then its `Commit` fails).

`StartedWorks` needs that what the loop of `getCSV` leaves has no blank part, for a
list of any length. `NonBlank` writes the loop as a function of the number of parts
looked at; `LoopEnds` and `NonBlankParts` are inductions over that number, by way of
the least one for which the claim would fail.

### Only model-checked

* Liveness: `EveryRequestAnswered`, `EveryEventPublished`, `ConsumerCatchesUp`,
  `ProcessEnds`. The prover has no rules for fairness.
* `SomeoneCanMove`, which says ENABLED; what it says of locks is `WaitingAlwaysEnds`.
* The two disagreements with the documentation, which are counterexamples.

## 5. What is not modelled

* The timeouts as times: an expired context is a failing statement, an exceeded
  `WriteTimeout` a cut connection, each at any moment and in any order.
* More than the two timeouts in one process: `MaxConnLifetime`, `MinConns` and the
  idle timeouts only replace connections nobody holds.
* The service without outbox (`NewService`): no program builds it.
* Timestamps of a company and `last_error`: no decision reads them.
* The CHECK constraints of the table, which repeat the entity's rules.
* A panic inside a transaction. `WithinTransaction` has no deferred rollback
  (`transaction.go:28-51`), so a panic that the router's `Recoverer` catches would
  leave the transaction open, with its locks and its connection. No code that runs
  inside a transaction panics on an input it can be given, so there is no step to
  model; `RollbackForgotten` is the slip that shows what would follow, and breaks
  `SomeoneCanMove`, `EveryRequestAnswered` and `ProcessEnds`.
* The two health endpoints: they read nothing but the pool and change nothing.
* Mocks and the generated API documentation. `Generate` of the token manager and
  the token command, which make tokens for local use.

## 6. Plan

Done: every module of section 2, and a theorem for each safety property the passing
runs check, `SomeoneCanMove` excepted. What could follow:

1. The relay with several publishers: which events they can reorder.
2. The steps of the liveness arguments that are plain safety: which action a request or
   an event waits for, and what that action makes smaller.
