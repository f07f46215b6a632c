------------------------------ MODULE Process ------------------------------
(***************************************************************************)
(* One process of the service, from main to its end: cmd/api/main.go with  *)
(* the connection pool, the HTTP server, the handlers, the publisher's     *)
(* loop and the event producer that it starts and stops.                   *)
(*                                                                         *)
(* A handler or the publisher is a goroutine that takes a connection from  *)
(* the pool, executes its statements and gives it back; what they do to    *)
(* the tables is in CompanyStore and OutboxPublisher.  A request that      *)
(* needs no connection is one that fails to get one.  A batch has at most  *)
(* one event.  Each of Handlers serves one request.                        *)
(***************************************************************************)
EXTENDS Config, FiniteSets

CONSTANTS
    Environments,  \* the environments the process may be started in
    Handlers,      \* the goroutines that serve requests
    Publisher      \* the goroutine that runs Publisher.Run

ASSUME EnvironmentAssumption == Environments \subseteq Environment

ASSUME PublisherAssumption == Publisher \notin Handlers

Goroutines == Handlers \cup {Publisher}

VARIABLES
    env,        \* the environment
    main,       \* main's next step
    cancelled,  \* ctx of main is done
    server,     \* "new", "listening", "closed" or "failed"
    expired,    \* shutdownCtx is done
    pool,       \* "none", "open" or "closed"
    holders,    \* the goroutines that hold a connection
    producer,   \* "none", "open" or "closed"
    sending,    \* the Kafka writer has a message in flight
    work,       \* each goroutine's next step
    age,        \* the timeouts each request has outlived: "write" (the
                \* server's WriteTimeout), "router" (the router's)
    outcome,    \* what the last Publish returned
    committed,  \* the requests whose transaction is committed
    lastErrors  \* the errors MarkFailed has recorded in outbox_events

inner == <<sending, outcome, committed, lastErrors>>
outer == <<env, main, cancelled, server, expired, pool, producer>>
vars == <<outer, inner, holders, work, age>>

cfg == Load(env)

Init ==
    /\ env \in Environments
    /\ main = "load"
    /\ cancelled = FALSE
    /\ server = "new"
    /\ expired = FALSE
    /\ pool = "none"
    /\ holders = {}
    /\ producer = "none"
    /\ sending = FALSE
    /\ work = [g \in Goroutines |-> "none"]
    /\ age = [h \in Handlers |-> {}]
    /\ outcome = "none"
    /\ committed = {}
    /\ lastErrors = {}

-----------------------------------------------------------------------------
(***************************************************************************)
(* The goroutines.                                                         *)
(***************************************************************************)
\* Slip: the publisher runs on context.Background().
ContextDoneUnlinked(g) == g \in Handlers /\ "router" \in age[g]

\* A request's context is independent of main's.
ContextDone(g) == IF g = Publisher THEN cancelled ELSE "router" \in age[g]

Step(g, s) == work' = [work EXCEPT ![g] = s]

\* Where g goes on when its transaction has ended, well or not.
After(g) == IF g = Publisher THEN "tick" ELSE "respond"

\* Commit and Rollback give the connection back, also when they fail: it is
\* closed then.
Release(g) == Step(g, After(g)) /\ holders' = holders \ {g}

\* Slip: an error returned without tx.Rollback.
RollbackForgotten(g) ==
    /\ Step(g, After(g))
    /\ UNCHANGED <<outer, inner, holders, age>>

Rollback(g) == Release(g) /\ UNCHANGED <<outer, inner, age>>

Go(g, s) == Step(g, s) /\ UNCHANGED <<outer, inner, holders, age>>

\* Slip: one connection too many.
SpareOffByOne == Cardinality(holders) <= cfg.maxConns

Spare == Cardinality(holders) < cfg.maxConns

\* BEGIN, or a statement outside a transaction: wait for a connection.
Begin(g) ==
    /\ work[g] = "begin"
    /\ \/ /\ pool = "closed" \/ ContextDone(g)
          /\ Go(g, After(g))
       \/ /\ pool = "open"
          /\ ~ ContextDone(g)
          /\ Spare
          /\ holders' = holders \cup {g}
          /\ Step(g, "query")
          /\ UNCHANGED <<outer, inner, age>>

\* Slip: a statement of the transaction sent through the pool.
QueryThenPool(g) ==
    /\ work[g] = "query"
    /\ Rollback(g) \/ Go(g, "begin")

\* The first statement.  Any may fail; that of a lookup is the only one, and a
\* poll may find nothing.
Query(g) ==
    /\ work[g] = "query"
    /\ \/ Rollback(g)
       \/ /\ ~ ContextDone(g)
          /\ Go(g, IF g = Publisher THEN "publish" ELSE "exec")

\* The others use the connection of the transaction (executorFromContext).
Exec(g) ==
    /\ work[g] = "exec"
    /\ \/ Rollback(g)
       \/ ~ ContextDone(g) /\ Go(g, "commit")

Commit(g) ==
    /\ work[g] = "commit"
    /\ \/ Rollback(g)
       \/ /\ ~ ContextDone(g)
          /\ Release(g)
          /\ committed' = committed \cup ({g} \cap Handlers)
          /\ IF g = Publisher
               THEN lastErrors' = lastErrors \cup ({outcome} \ {"none", "ok"}) /\ outcome' = "none"
               ELSE UNCHANGED <<lastErrors, outcome>>
          /\ UNCHANGED <<outer, sending, age>>

-----------------------------------------------------------------------------
(***************************************************************************)
(* Handlers.                                                               *)
(***************************************************************************)
Active == {h \in Handlers : work[h] \notin {"none", "answered", "lost"}}

Accept(h) ==
    /\ server = "listening"
    /\ work[h] = "none"
    /\ Go(h, "begin")

\* After WriteTimeout the connection takes no answer.
Respond(h) ==
    /\ work[h] = "respond"
    /\ Go(h, IF "write" \in age[h] THEN "lost" ELSE "answered")

Timeouts == {"write", "router"}

\* WriteTimeout is configurable, so it may pass before or after the router's.  Once
\* the transaction has ended nothing reads the context that the router's ends.
Age(h) ==
    /\ h \in Active
    /\ \E t \in Timeouts \ age[h] :
          /\ t = "router" => work[h] # "respond"
          /\ age' = [age EXCEPT ![h] = @ \cup {t}]
    /\ UNCHANGED <<outer, inner, holders, work>>

-----------------------------------------------------------------------------
(***************************************************************************)
(* The publisher.                                                          *)
(***************************************************************************)
Publish ==
    /\ work[Publisher] = "publish"
    /\ IF NewProducer(cfg) = "kafka" /\ producer = "open"
         THEN sending' = TRUE /\ Step(Publisher, "sending") /\ UNCHANGED outcome
         ELSE /\ outcome' = IF NewProducer(cfg) = "log" THEN "ok" ELSE "closed"
              /\ Step(Publisher, "exec")
              /\ UNCHANGED sending
    /\ UNCHANGED <<outer, holders, age, committed, lastErrors>>

\* The writer delivers the message or gives it up.
Flush ==
    /\ sending
    /\ sending' = FALSE
    /\ UNCHANGED <<outer, outcome, committed, lastErrors, holders, work, age>>

\* WriteMessages returns when the message is settled, or the context is done.
PublishReturns ==
    /\ work[Publisher] = "sending"
    /\ \/ ~ sending /\ outcome' \in {"ok", "refused"}
       \/ ContextDone(Publisher) /\ outcome' = "interrupted"
    /\ Step(Publisher, "exec")
    /\ UNCHANGED <<outer, sending, committed, lastErrors, holders, age>>

\* Both channels of the select may be ready.
Tick ==
    /\ work[Publisher] = "tick"
    /\ Go(Publisher, "begin") \/ (ContextDone(Publisher) /\ Go(Publisher, "stopped"))

-----------------------------------------------------------------------------
(***************************************************************************)
(* main.                                                                   *)
(***************************************************************************)
Proceed(s) == main' = s /\ UNCHANGED <<env, inner, holders, work, age>>

\* The process is gone, and every goroutine and connection with it.
Halt(s) ==
    /\ main' = s
    /\ work' = [g \in Goroutines |-> IF g \in Active THEN "lost" ELSE
                                     IF g = Publisher THEN "stopped" ELSE work[g]]
    /\ holders' = {}
    /\ UNCHANGED <<env, cancelled, server, expired, pool, producer, inner, age>>

Ended == main \in {"exited", "fatal"}

LoadConfig ==
    /\ main = "load"
    /\ IF Loads(env)
         THEN Proceed("connect") /\ UNCHANGED <<cancelled, server, expired, pool, producer>>
         ELSE Halt("fatal")

\* The database cannot be reached, or the pool has no room for a connection; a
\* signal also ends the attempt.
NewPoolFails == main = "connect" /\ Halt("fatal")

NewPool ==
    /\ main = "connect"
    /\ ~ cancelled
    /\ cfg.maxConns > 0
    /\ pool' = "open"
    /\ Proceed("build")
    /\ UNCHANGED <<cancelled, server, expired, producer>>

\* The producer is built and the two goroutines are started.
Build ==
    /\ main = "build"
    /\ IF NewProducer(cfg) = "unsupported"
         THEN Halt("fatal")
         ELSE /\ producer' = "open"
              /\ main' = "wait"
              /\ Step(Publisher, "begin")
              /\ UNCHANGED <<env, cancelled, server, expired, pool, inner, holders, age>>

Started == main \notin {"load", "connect", "build", "exited", "fatal"}

\* ListenAndServe opens the port, unless Shutdown came first, or fails.
Listen ==
    /\ Started
    /\ server = "new"
    /\ \/ server' = "listening" /\ UNCHANGED cancelled
       \/ server' = "failed" /\ cancelled' = TRUE
    /\ UNCHANGED <<env, main, expired, pool, producer, inner, holders, work, age>>

\* It also returns when the port can no longer be served; requests that came in
\* are still running.
ListenerBreaks ==
    /\ server = "listening"
    /\ server' = "failed"
    /\ cancelled' = TRUE
    /\ UNCHANGED <<env, main, expired, pool, producer, inner, holders, work, age>>

\* Before NotifyContext a signal kills the process.
Signal ==
    \/ main = "load" /\ Halt("fatal")
    \/ /\ main \in {"connect", "build"} \/ Started
       /\ ~ cancelled
       /\ cancelled' = TRUE
       /\ UNCHANGED <<env, main, server, expired, pool, producer, inner, holders, work, age>>

\* Slip: main returns once ctx is done.
ReturnAtOnce ==
    /\ main = "wait"
    /\ cancelled
    /\ Halt("exited")

\* server.Shutdown closes the listener ...
StopServer ==
    /\ main = "wait"
    /\ cancelled
    /\ server' = IF server = "failed" THEN "failed" ELSE "closed"
    /\ IF cfg.shutdownTimeout <= 0 THEN expired' = TRUE ELSE UNCHANGED expired
    /\ Proceed("shutdown")
    /\ UNCHANGED <<cancelled, pool, producer>>

\* Slip: Shutdown given the context that is done already.
ShutdownAtOnce ==
    /\ main = "shutdown"
    /\ Proceed("closeProducer")
    /\ UNCHANGED <<cancelled, server, expired, pool, producer>>

\* ... and waits for the handlers, until the deadline.
ShutdownReturns ==
    /\ main = "shutdown"
    /\ Active = {} \/ expired
    /\ Proceed("closeProducer")
    /\ UNCHANGED <<cancelled, server, expired, pool, producer>>

DeadlinePasses ==
    /\ main \in {"shutdown", "closeProducer", "flush", "drain"}
    /\ ~ expired
    /\ expired' = TRUE
    /\ UNCHANGED <<env, main, cancelled, server, pool, producer, inner, holders, work, age>>

\* The Kafka writer takes no more messages and waits for the one in flight,
\* whatever the deadline.
CloseProducer ==
    /\ main = "closeProducer"
    /\ producer' = "closed"
    /\ Proceed("flush")
    /\ UNCHANGED <<cancelled, server, expired, pool>>

ClosePool ==
    /\ main = "flush"
    /\ ~ sending
    /\ pool' = "closed"
    /\ Proceed("drain")
    /\ UNCHANGED <<cancelled, server, expired, producer>>

\* dbPool.Close waits for every connection to come back.
Exit ==
    /\ main = "drain"
    /\ holders = {}
    /\ Halt("exited")

-----------------------------------------------------------------------------
Run(g) == Begin(g) \/ Query(g) \/ Exec(g) \/ Commit(g)

RunPublisher == Run(Publisher) \/ Publish \/ PublishReturns \/ Tick

Main == \/ LoadConfig
        \/ NewPool
        \/ NewPoolFails
        \/ Build
        \/ StopServer
        \/ ShutdownReturns
        \/ CloseProducer
        \/ ClosePool
        \/ Exit

Next == \/ Main
        \/ Listen
        \/ ListenerBreaks
        \/ Signal
        \/ DeadlinePasses
        \/ Flush
        \/ RunPublisher
        \/ \E h \in Handlers : Accept(h) \/ Run(h) \/ Respond(h) \/ Age(h)

Spec == Init /\ [][Next]_vars

\* Every goroutine runs, the server answers each statement, the Kafka writer
\* settles each message in bounded attempts, and time passes.
FairSpec == /\ Spec
            /\ WF_vars(Main)
            /\ WF_vars(Listen)
            /\ WF_vars(DeadlinePasses)
            /\ WF_vars(Flush)
            /\ WF_vars(RunPublisher)
            /\ \A h \in Handlers : WF_vars(Run(h) \/ Respond(h))

-----------------------------------------------------------------------------
(***************************************************************************)
(* Properties.                                                             *)
(***************************************************************************)
Outcomes == {"none", "ok", "refused", "interrupted", "closed"}

\* Every variable stays in its range, and no more connections are taken than the
\* pool has.
TypeOK ==
    /\ env \in Environments
    /\ main \in {"load", "connect", "build", "wait", "shutdown", "closeProducer",
                 "flush", "drain", "exited", "fatal"}
    /\ cancelled \in BOOLEAN
    /\ server \in {"new", "listening", "closed", "failed"}
    /\ expired \in BOOLEAN
    /\ pool \in {"none", "open", "closed"}
    /\ holders \subseteq Goroutines
    /\ pool # "none" => Cardinality(holders) <= cfg.maxConns
    /\ producer \in {"none", "open", "closed"}
    /\ sending \in BOOLEAN
    /\ work \in [Goroutines -> {"none", "begin", "query", "exec", "commit", "respond",
                                "answered", "lost", "publish", "sending", "tick", "stopped"}]
    /\ age \in [Handlers -> SUBSET Timeouts]
    /\ outcome \in Outcomes
    /\ committed \subseteq Handlers
    /\ lastErrors \subseteq Outcomes

\* Whatever the environment, what is started can work: the ticker's interval and
\* the batch are positive (time.NewTicker panics otherwise), the pool has room
\* for a connection, and the list of brokers has a name in each place (config.go:47-136,
\* publisher.go:35-51, factory.go:18-27).
StartedCanWork ==
    Started =>
        /\ NewPublisher(cfg).interval > 0
        /\ NewPublisher(cfg).batch > 0
        /\ cfg.maxConns > 0
        /\ cfg.brokers # <<>>
        /\ \A i \in 1..Len(cfg.brokers) : cfg.brokers[i] # ""

Waiting(g) == work[g] = "begin" /\ pool = "open" /\ ~ ContextDone(g) /\ ~ Spare

\* The pool never locks up: while someone waits for a connection, one who holds
\* one does not (transaction.go:53, executorFromContext).
PoolKeepsMoving ==
    (\E g \in Goroutines : Waiting(g)) => \E g \in holders : ~ Waiting(g)

\* Nothing is closed under a request: as long as the shutdown deadline has not
\* passed, the pool is closed only when every accepted request is answered
\* (main.go:92-103).
ClosedAfterTheRequests == pool = "closed" /\ ~ expired => Active = {}

\* A change that was committed is answered, unless the request took longer than
\* WriteTimeout or the process gave up waiting at its deadline
\* (config.go:52 against router.go:25, main.go:89-95).
CommittedIsAnswered ==
    \A h \in committed : work[h] = "lost" => "write" \in age[h] \/ expired

\* The end of the process is not held against an event: that the producer was
\* closed, or Publish interrupted, is never recorded in its row (main.go:84-98).
StopIsNoFailure == lastErrors \cap {"closed", "interrupted"} = {}

\* A process that is told to stop, or whose listener fails, ends: nothing it
\* waits for on the way is held for ever (main.go:77-105, transaction.go:28-51).
ProcessEnds == (cancelled \/ server = "failed") ~> Ended
=============================================================================
