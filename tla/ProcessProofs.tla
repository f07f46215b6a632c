--------------------------- MODULE ProcessProofs ---------------------------
(***************************************************************************)
(* Theorems about Process, for any number of handlers, any environments    *)
(* and any width of an integer.                                            *)
(*                                                                         *)
(* The order in which main stops its parts carries the argument: ctx is    *)
(* done before anything is closed, so the publisher's statements fail      *)
(* before its producer is gone; the listener is closed before the handlers *)
(* are waited for, so no request comes after that; and the pool is closed  *)
(* last, when only requests that outlived the deadline are left.           *)
(***************************************************************************)
EXTENDS Process, OrderLemmas, FiniteSetTheorems

-----------------------------------------------------------------------------
(***************************************************************************)
(* The inductive invariant.                                                *)
(***************************************************************************)
\* Who holds a connection has been served by the pool, and works with it.
HoldersWork ==
    \A g \in holders : work[g] \in {"query", "exec", "commit", "publish", "sending"}

\* The pool has room before anyone takes a connection.
PoolHasRoom ==
    /\ IsFiniteSet(holders)
    /\ pool = "none" => holders = {}
    /\ pool # "none" => cfg.maxConns > 0

Stopping == {"shutdown", "closeProducer", "flush", "drain", "exited"}

\* What main has done on the way to its end.
StopsInOrder ==
    /\ main \in {"load", "connect", "build", "fatal"} =>
         server = "new" /\ \A h \in Handlers : work[h] = "none"
    /\ main \in {"load", "connect", "build"} => work[Publisher] = "none"
    /\ main \in {"build", "wait"} \cup Stopping => pool # "none"
    /\ main \in Stopping => cancelled /\ server \in {"closed", "failed"}
    /\ main \notin Stopping => ~ expired
    /\ pool = "closed" => main \in {"drain", "exited"}
    /\ producer = "closed" => cancelled
    /\ work[Publisher] \notin {"none", "stopped"} =>
         producer # "none" /\ NewProducer(cfg) # "unsupported"

\* The handlers main does not wait for are those that outlived the deadline.
Drained == main \in {"closeProducer", "flush", "drain", "exited"} /\ ~ expired => Active = {}

\* Publish reports the end of the process only when ctx is done.
ErrorsFollowStop == outcome \in {"closed", "interrupted"} => cancelled

IInv == /\ TypeOK
        /\ HoldersWork
        /\ PoolHasRoom
        /\ StopsInOrder
        /\ Drained
        /\ ErrorsFollowStop
        /\ StopIsNoFailure
        /\ CommittedIsAnswered

USE PublisherAssumption DEF Goroutines, Started

-----------------------------------------------------------------------------
\* Whatever DB_MAX_CONNS holds, the limit of the pool is a number.
LEMMA LimitIsNumber == ASSUME env \in Environments PROVE cfg.maxConns \in Int
<1>1. env.maxConns \in Number
  BY EnvironmentAssumption DEF Environment
<1>2. GetNumber(env.maxConns, 10) \in Int
  BY <1>1 DEF GetNumber, Number
<1>3. \A n \in Int : Int32(n) \in Int
  BY WidthAssumption DEF Int32
<1>4. cfg.maxConns = Int32(GetNumber(env.maxConns, 10))
  BY DEF cfg, Load
<1> QED BY <1>2, <1>3, <1>4

\* A goroutine that takes a spare connection leaves the pool within its limit.
LEMMA TakeOne ==
    ASSUME IInv, NEW g \in Goroutines, pool = "open", Spare
    PROVE  IsFiniteSet(holders \cup {g}) /\ Cardinality(holders \cup {g}) <= cfg.maxConns
<1>1. Cardinality(holders) \in Nat /\ IsFiniteSet(holders \cup {g})
  BY FS_CardinalityType, FS_AddElement DEF IInv, PoolHasRoom
<1>2. Cardinality(holders \cup {g}) <= Cardinality(holders) + 1
  BY <1>1, FS_AddElement DEF IInv, PoolHasRoom
<1>3. cfg.maxConns \in Int /\ Cardinality(holders) < cfg.maxConns
  BY LimitIsNumber DEF IInv, TypeOK, Spare
<1>4. Cardinality(holders \cup {g}) \in Nat
  BY <1>1, FS_CardinalityType
<1> QED BY <1>1, <1>2, <1>3, <1>4

\* Giving one back does too.
LEMMA GiveBack ==
    ASSUME IInv, NEW g \in Goroutines
    PROVE  /\ IsFiniteSet(holders \ {g})
           /\ pool # "none" => Cardinality(holders \ {g}) <= cfg.maxConns
<1>1. IsFiniteSet(holders)
  BY DEF IInv, PoolHasRoom
<1>2. IsFiniteSet(holders \ {g}) /\ Cardinality(holders \ {g}) <= Cardinality(holders)
  BY <1>1, FS_Subset, holders \ {g} \in SUBSET holders
<1>3. Cardinality(holders) \in Nat /\ Cardinality(holders \ {g}) \in Nat
  BY <1>1, <1>2, FS_CardinalityType
<1>4. pool # "none" => Cardinality(holders) <= cfg.maxConns /\ cfg.maxConns \in Int
  BY LimitIsNumber DEF IInv, TypeOK
<1> QED BY <1>2, <1>3, <1>4

LEMMA NoHolders == IsFiniteSet({}) /\ Cardinality({}) = 0
BY FS_EmptySet

\* The parts of the invariant a step of a goroutine can disturb, when it moves
\* from one step of its work to another.
LEMMA GoKeeps ==
    ASSUME IInv, NEW g \in Goroutines, NEW s, Go(g, s),
           s \in {"begin", "query", "exec", "commit", "respond", "answered", "lost",
                  "publish", "tick", "stopped"},
           g \in holders => s \in {"query", "exec", "commit", "publish"},
           g \in Handlers => main \notin {"load", "connect", "build", "fatal"},
           g \in Active \/ g = Publisher \/ server = "listening",
           g = Publisher => work[g] \notin {"none", "stopped"},
           s = "lost" => "write" \in age[g]
    PROVE  IInv'
<1>1. TypeOK'
  BY DEF IInv, TypeOK, Go, Step, outer, inner, cfg
<1>2. HoldersWork' /\ PoolHasRoom'
  BY DEF IInv, TypeOK, HoldersWork, PoolHasRoom, Go, Step, outer, inner, cfg
<1>3. StopsInOrder'
  BY DEF IInv, TypeOK, StopsInOrder, Go, Step, outer, inner, cfg
<1>4. Drained'
  <2>1. g \in Active' => g \in Active \/ server = "listening"
    BY DEF Active, Go, Step, IInv, TypeOK
  <2>2. main \in Stopping => Active' \subseteq Active
    BY <2>1 DEF Active, Go, Step, IInv, TypeOK, StopsInOrder
  <2> QED BY <2>2 DEF IInv, Drained, Go, outer, Stopping
<1>5. ErrorsFollowStop' /\ StopIsNoFailure'
  BY DEF IInv, ErrorsFollowStop, StopIsNoFailure, Go, outer, inner
<1>6. CommittedIsAnswered'
  BY DEF IInv, TypeOK, CommittedIsAnswered, Go, Step, outer, inner
<1> QED BY <1>1, <1>2, <1>3, <1>4, <1>5, <1>6 DEF IInv

\* The end of a transaction, with or without effect.
LEMMA ReleaseKeeps ==
    ASSUME IInv, NEW g \in Goroutines, work[g] \in {"query", "exec", "commit"},
           Release(g), UNCHANGED <<outer, sending, age>>,
           committed' \in {committed, committed \cup ({g} \cap Handlers)},
           outcome' \in {outcome, "none"},
           lastErrors' \subseteq Outcomes, StopIsNoFailure'
    PROVE  IInv'
<1>0. main \in {"load", "connect", "build", "fatal"} => g \notin Handlers
  BY DEF IInv, StopsInOrder
<1>1. TypeOK'
  BY GiveBack DEF IInv, TypeOK, Release, Step, After, outer, cfg, Outcomes
<1>2. HoldersWork' /\ PoolHasRoom'
  BY GiveBack DEF IInv, TypeOK, HoldersWork, PoolHasRoom, Release, Step, outer, cfg
<1>3. StopsInOrder'
  BY <1>0 DEF IInv, TypeOK, StopsInOrder, Release, Step, outer, cfg
<1>4. Drained'
  <2>1. Active' = Active
    BY DEF Active, Release, Step, After, IInv, TypeOK
  <2> QED BY <2>1 DEF IInv, Drained, outer
<1>5. ErrorsFollowStop'
  BY DEF IInv, ErrorsFollowStop, outer
<1>6. CommittedIsAnswered'
  BY DEF IInv, TypeOK, CommittedIsAnswered, Release, Step, After, outer
<1> QED BY <1>1, <1>2, <1>3, <1>4, <1>5, <1>6 DEF IInv

LEMMA RollbackKeeps ==
    ASSUME IInv, NEW g \in Goroutines, work[g] \in {"query", "exec", "commit"}, Rollback(g)
    PROVE  IInv'
<1>1. StopIsNoFailure' /\ lastErrors' \subseteq Outcomes
  BY DEF IInv, TypeOK, StopIsNoFailure, Rollback, inner
<1> QED BY <1>1, ReleaseKeeps DEF Rollback, inner

\* Where a goroutine is in its work, main is past its start.
LEMMA AtWork ==
    ASSUME IInv, NEW g \in Goroutines, work[g] # "none"
    PROVE  g \in Handlers => main \notin {"load", "connect", "build", "fatal"}
BY DEF IInv, StopsInOrder

LEMMA RunKeeps == ASSUME IInv, NEW g \in Goroutines, Run(g) PROVE IInv'
<1>0. work[g] \in {"begin", "query", "exec", "commit"} => g \in Active \/ g = Publisher
  BY DEF Active
<1>1. CASE Begin(g)
  <2>1. g \notin holders
    BY <1>1 DEF Begin, IInv, HoldersWork
  <2>2. CASE Go(g, After(g))
    BY <1>0, <1>1, <2>1, <2>2, GoKeeps, AtWork DEF Begin, After
  <2>3. CASE /\ pool = "open" /\ Spare
             /\ holders' = holders \cup {g}
             /\ Step(g, "query")
             /\ UNCHANGED <<outer, inner, age>>
    <3>1. IsFiniteSet(holders') /\ Cardinality(holders') <= cfg.maxConns
      BY <2>3, TakeOne
    <3>2. TypeOK'
      BY <2>3, <3>1 DEF IInv, TypeOK, Step, outer, inner, cfg
    <3>3. HoldersWork' /\ PoolHasRoom'
      BY <2>3, <3>1 DEF IInv, TypeOK, HoldersWork, PoolHasRoom, Step, outer, cfg
    <3>4. StopsInOrder'
      BY <1>1, <2>3, AtWork DEF Begin, IInv, TypeOK, StopsInOrder, Step, outer, cfg
    <3>5. Drained'
      <4>1. Active' = Active
        BY <1>1, <2>3 DEF Active, Begin, Step, IInv, TypeOK
      <4> QED BY <2>3, <4>1 DEF IInv, Drained, outer
    <3>6. ErrorsFollowStop' /\ StopIsNoFailure'
      BY <2>3 DEF IInv, ErrorsFollowStop, StopIsNoFailure, outer, inner
    <3>7. CommittedIsAnswered'
      BY <2>3 DEF IInv, TypeOK, CommittedIsAnswered, Step, outer, inner
    <3> QED BY <3>2, <3>3, <3>4, <3>5, <3>6, <3>7 DEF IInv
  <2> QED BY <1>1, <2>2, <2>3 DEF Begin
<1>2. CASE Query(g)
  <2>1. CASE Rollback(g)
    BY <1>2, <2>1, RollbackKeeps DEF Query
  <2>2. CASE Go(g, IF g = Publisher THEN "publish" ELSE "exec")
    BY <1>0, <1>2, <2>2, GoKeeps, AtWork DEF Query
  <2> QED BY <1>2, <2>1, <2>2 DEF Query
<1>3. CASE Exec(g)
  <2>1. CASE Rollback(g)
    BY <1>3, <2>1, RollbackKeeps DEF Exec
  <2>2. CASE Go(g, "commit")
    BY <1>0, <1>3, <2>2, GoKeeps, AtWork DEF Exec
  <2> QED BY <1>3, <2>1, <2>2 DEF Exec
<1>4. CASE Commit(g)
  <2>1. CASE Rollback(g)
    BY <1>4, <2>1, RollbackKeeps DEF Commit
  <2>2. CASE /\ ~ ContextDone(g)
             /\ Release(g)
             /\ committed' = committed \cup ({g} \cap Handlers)
             /\ IF g = Publisher
                  THEN lastErrors' = lastErrors \cup ({outcome} \ {"none", "ok"})
                       /\ outcome' = "none"
                  ELSE UNCHANGED <<lastErrors, outcome>>
             /\ UNCHANGED <<outer, sending, age>>
    \* The publisher's COMMIT succeeds only before ctx is done.
    <3>1. g = Publisher => outcome \notin {"closed", "interrupted"}
      BY <2>2 DEF ContextDone, IInv, ErrorsFollowStop
    <3>2. StopIsNoFailure' /\ lastErrors' \subseteq Outcomes
      BY <2>2, <3>1 DEF IInv, TypeOK, StopIsNoFailure, Outcomes
    <3>3. outcome' \in {outcome, "none"}
      BY <2>2
    <3> QED BY <1>4, <2>2, <3>2, <3>3, ReleaseKeeps DEF Commit
  <2> QED BY <1>4, <2>1, <2>2 DEF Commit
<1> QED BY <1>1, <1>2, <1>3, <1>4 DEF Run

LEMMA PublisherKeeps ==
    ASSUME IInv, Publish \/ PublishReturns \/ Tick \/ Flush
    PROVE  IInv'
<1>1. CASE Publish \/ PublishReturns \/ Flush
  <2>1. /\ UNCHANGED <<outer, holders, age, committed, lastErrors>>
        /\ work' \in {work, [work EXCEPT ![Publisher] = "sending"],
                      [work EXCEPT ![Publisher] = "exec"]}
        /\ sending' \in BOOLEAN
    BY <1>1 DEF Publish, PublishReturns, Flush, Step, IInv, TypeOK
  \* Publish finds the producer closed only after ctx is done.
  <2>2. outcome' \in Outcomes /\ ErrorsFollowStop'
    BY <1>1 DEF Publish, PublishReturns, Flush, Outcomes, IInv, TypeOK, ErrorsFollowStop,
                ContextDone, StopsInOrder, outer, NewProducer
  <2>3. TypeOK'
    BY <2>1, <2>2 DEF IInv, TypeOK, outer, cfg
  <2>4. HoldersWork' /\ PoolHasRoom'
    BY <2>1 DEF IInv, TypeOK, HoldersWork, PoolHasRoom, outer, cfg
  <2>5. StopsInOrder'
    BY <1>1, <2>1 DEF IInv, TypeOK, StopsInOrder, outer, cfg, Publish, PublishReturns, Flush
  <2>6. Active' = Active
    BY <2>1 DEF Active, IInv, TypeOK
  <2>7. Drained' /\ StopIsNoFailure'
    BY <2>1, <2>6 DEF IInv, Drained, StopIsNoFailure, outer
  <2>8. CommittedIsAnswered'
    BY <2>1 DEF IInv, TypeOK, CommittedIsAnswered, outer
  <2> QED BY <2>2, <2>3, <2>4, <2>5, <2>7, <2>8 DEF IInv
<1>2. CASE Tick
  <2>1. Publisher \notin holders
    BY <1>2 DEF Tick, IInv, HoldersWork
  <2> QED BY <1>2, <2>1, GoKeeps DEF Tick
<1> QED BY <1>1, <1>2

\* The end of the process: before it serves anyone, or when the connections are
\* back.
LEMMA HaltKeeps ==
    ASSUME IInv, NEW s,
           \/ s = "fatal" /\ main \in {"load", "connect", "build"}
           \/ s = "exited" /\ main = "drain",
           Halt(s)
    PROVE  IInv'
<1>1. TypeOK'
  <2>1. pool' # "none" => Cardinality(holders') <= cfg'.maxConns
    <3>1. Cardinality(holders') = 0 /\ cfg.maxConns \in Int /\ cfg' = cfg
      BY NoHolders, LimitIsNumber DEF Halt, IInv, TypeOK, cfg
    <3> QED BY <3>1 DEF Halt, IInv, PoolHasRoom
  <2> QED BY <2>1 DEF IInv, TypeOK, Halt, inner
<1>2. HoldersWork' /\ PoolHasRoom'
  BY NoHolders DEF Halt, IInv, HoldersWork, PoolHasRoom, cfg
<1>3. StopsInOrder'
  <2>1. s = "fatal" => \A h \in Handlers : work'[h] = "none"
    BY DEF Halt, IInv, TypeOK, StopsInOrder, Active
  <2>2. work'[Publisher] = "stopped"
    BY DEF Halt, IInv, TypeOK, Active
  <2> QED BY <2>1, <2>2 DEF Halt, IInv, StopsInOrder, Stopping
<1>4. Drained'
  <2>1. Active' = {}
    BY DEF Halt, Active, IInv, TypeOK
  <2> QED BY <2>1 DEF Drained
<1>5. ErrorsFollowStop' /\ StopIsNoFailure'
  BY DEF Halt, inner, IInv, ErrorsFollowStop, StopIsNoFailure
<1>6. CommittedIsAnswered'
  \* Whoever is cut off has outlived the deadline.
  <2>1. \A h \in Handlers : work'[h] = "lost" => work[h] = "lost" \/ h \in Active
    BY DEF Halt, IInv, TypeOK
  <2>2. Active = {} \/ expired
    BY DEF Active, IInv, StopsInOrder, Drained
  <2> QED BY <2>1, <2>2 DEF Halt, inner, IInv, TypeOK, CommittedIsAnswered
<1> QED BY <1>1, <1>2, <1>3, <1>4, <1>5, <1>6 DEF IInv

LEMMA StartKeeps ==
    ASSUME IInv, LoadConfig \/ NewPoolFails \/ NewPool \/ Build \/ Listen \/ ListenerBreaks
    PROVE  IInv'
<1>1. CASE LoadConfig \/ NewPoolFails \/ (Build /\ NewProducer(cfg) = "unsupported")
  <2>1. CASE Halt("fatal")
    BY <1>1, <2>1, HaltKeeps DEF LoadConfig, NewPoolFails, Build
  <2>2. CASE main = "load" /\ Proceed("connect")
             /\ UNCHANGED <<cancelled, server, expired, pool, producer>>
    BY <2>2 DEF Proceed, inner, IInv, TypeOK, HoldersWork, PoolHasRoom, StopsInOrder, Stopping,
                Drained, ErrorsFollowStop, StopIsNoFailure, CommittedIsAnswered, Active, cfg
  <2> QED BY <1>1, <2>1, <2>2 DEF LoadConfig, NewPoolFails, Build
<1>2. CASE NewPool
  <2>1. TypeOK'
    <3>1. holders = {} /\ cfg.maxConns \in Int
      BY <1>2, LimitIsNumber DEF NewPool, IInv, TypeOK, PoolHasRoom, StopsInOrder, HoldersWork
    <3>2. Cardinality(holders') <= cfg'.maxConns
      BY <1>2, <3>1, NoHolders DEF NewPool, Proceed, cfg
    <3> QED BY <1>2, <3>2 DEF NewPool, Proceed, inner, IInv, TypeOK
  <2> QED BY <1>2, <2>1
        DEF NewPool, Proceed, inner, IInv, TypeOK, HoldersWork, PoolHasRoom, StopsInOrder,
            Stopping, Drained, ErrorsFollowStop, StopIsNoFailure, CommittedIsAnswered, Active, cfg
<1>3. CASE Build /\ NewProducer(cfg) # "unsupported"
  <2>1. Publisher \notin holders
    BY <1>3 DEF Build, IInv, StopsInOrder, HoldersWork
  <2>2. TypeOK'
    BY <1>3 DEF Build, Step, inner, IInv, TypeOK, cfg
  <2>3. HoldersWork' /\ PoolHasRoom'
    BY <1>3, <2>1 DEF Build, Step, inner, IInv, TypeOK, HoldersWork, PoolHasRoom, cfg
  <2>4. StopsInOrder'
    BY <1>3 DEF Build, Step, inner, IInv, TypeOK, StopsInOrder, Stopping, cfg
  <2>5. Drained' /\ ErrorsFollowStop' /\ StopIsNoFailure'
    BY <1>3 DEF Build, inner, IInv, Drained, ErrorsFollowStop, StopIsNoFailure
  <2>6. CommittedIsAnswered'
    BY <1>3 DEF Build, Step, inner, IInv, TypeOK, CommittedIsAnswered
  <2> QED BY <2>2, <2>3, <2>4, <2>5, <2>6 DEF IInv
<1>4. CASE Listen
  <2>1. main = "wait" /\ pool # "none" /\ (cancelled => cancelled')
    BY <1>4 DEF Listen, IInv, TypeOK, StopsInOrder, Stopping
  <2>2. TypeOK'
    BY <1>4 DEF Listen, inner, IInv, TypeOK, cfg
  <2>3. HoldersWork' /\ PoolHasRoom'
    BY <1>4 DEF Listen, inner, IInv, HoldersWork, PoolHasRoom, cfg
  <2>4. StopsInOrder' /\ Drained'
    BY <1>4, <2>1 DEF Listen, inner, IInv, StopsInOrder, Stopping, Drained, cfg
  <2>5. ErrorsFollowStop' /\ StopIsNoFailure' /\ CommittedIsAnswered'
    BY <1>4, <2>1 DEF Listen, inner, IInv, ErrorsFollowStop, StopIsNoFailure, CommittedIsAnswered
  <2> QED BY <2>2, <2>3, <2>4, <2>5 DEF IInv
<1>5. CASE ListenerBreaks
  <2>1. main \notin {"load", "connect", "build", "fatal"} /\ cancelled'
    BY <1>5 DEF ListenerBreaks, IInv, StopsInOrder
  <2>2. TypeOK'
    BY <1>5 DEF ListenerBreaks, inner, IInv, TypeOK, cfg
  <2>3. HoldersWork' /\ PoolHasRoom'
    BY <1>5 DEF ListenerBreaks, inner, IInv, HoldersWork, PoolHasRoom, cfg
  <2>4. StopsInOrder' /\ Drained'
    BY <1>5, <2>1
       DEF ListenerBreaks, inner, IInv, TypeOK, StopsInOrder, Stopping, Drained, Active, cfg
  <2>5. ErrorsFollowStop' /\ StopIsNoFailure' /\ CommittedIsAnswered'
    BY <1>5, <2>1
       DEF ListenerBreaks, inner, IInv, ErrorsFollowStop, StopIsNoFailure, CommittedIsAnswered
  <2> QED BY <2>2, <2>3, <2>4, <2>5 DEF IInv
<1> QED BY <1>1, <1>2, <1>3, <1>4, <1>5

LEMMA StopKeeps ==
    ASSUME IInv, \/ Signal \/ StopServer \/ ShutdownReturns \/ DeadlinePasses
                 \/ CloseProducer \/ ClosePool \/ Exit
    PROVE  IInv'
<1>1. CASE (main = "load" /\ Halt("fatal")) \/ Exit
  BY <1>1, HaltKeeps DEF Exit
<1>2. CASE \/ Signal /\ main # "load"
           \/ StopServer \/ ShutdownReturns \/ DeadlinePasses \/ CloseProducer \/ ClosePool
  <2>0. UNCHANGED <<env, inner, holders, work, age>>
    BY <1>2 DEF Signal, StopServer, ShutdownReturns, DeadlinePasses, CloseProducer, ClosePool,
                Proceed
  <2>1. /\ UNCHANGED <<env, inner, holders, work, age>>
        /\ Active' = Active
        /\ cancelled => cancelled'
        /\ expired' \in BOOLEAN /\ cancelled' \in BOOLEAN
        /\ pool' \in {pool, "closed"}
    <3>1. Active' = Active
      BY <2>0 DEF Active
    <3>2. expired' \in BOOLEAN
      BY <1>2 DEF Signal, StopServer, ShutdownReturns, DeadlinePasses, CloseProducer, ClosePool,
                  IInv, TypeOK
    <3>3. (cancelled => cancelled') /\ cancelled' \in BOOLEAN /\ pool' \in {pool, "closed"}
      BY <1>2 DEF Signal, StopServer, ShutdownReturns, DeadlinePasses, CloseProducer, ClosePool,
                  IInv, TypeOK
    <3> QED BY <2>0, <3>1, <3>2, <3>3
  <2>2. pool = "none" => pool' = "none"
    BY <1>2 DEF Signal, StopServer, ShutdownReturns, DeadlinePasses, CloseProducer, ClosePool,
                Proceed, IInv, TypeOK, StopsInOrder, Stopping
  <2>3. TypeOK'
    BY <1>2, <2>1, <2>2
       DEF Signal, StopServer, ShutdownReturns, DeadlinePasses, CloseProducer, ClosePool,
           Proceed, inner, IInv, TypeOK, cfg
  <2>4. HoldersWork' /\ PoolHasRoom'
    BY <2>1, <2>2 DEF inner, IInv, TypeOK, HoldersWork, PoolHasRoom, cfg
  <2>5. StopsInOrder'
    BY <1>2, <2>1
       DEF Signal, StopServer, ShutdownReturns, DeadlinePasses, CloseProducer, ClosePool,
           Proceed, inner, IInv, TypeOK, StopsInOrder, Stopping, cfg
  <2>6. Drained'
    BY <1>2, <2>1
       DEF Signal, StopServer, ShutdownReturns, DeadlinePasses, CloseProducer, ClosePool,
           Proceed, IInv, TypeOK, Drained, Stopping
  <2>7. ErrorsFollowStop' /\ StopIsNoFailure'
    BY <2>1 DEF inner, IInv, ErrorsFollowStop, StopIsNoFailure
  <2>8. CommittedIsAnswered'
    <3>1. expired => expired'
      BY <1>2 DEF Signal, StopServer, ShutdownReturns, DeadlinePasses, CloseProducer, ClosePool,
                  IInv, StopsInOrder, Stopping
    <3> QED BY <2>0, <3>1 DEF inner, IInv, CommittedIsAnswered
  <2> QED BY <2>3, <2>4, <2>5, <2>6, <2>7, <2>8 DEF IInv
<1>3. Signal /\ main = "load" => Halt("fatal")
  BY DEF Signal
<1> QED BY <1>1, <1>2, <1>3

LEMMA AgeKeeps == ASSUME IInv, NEW h \in Handlers, Age(h) PROVE IInv'
<1>1. age' \in [Handlers -> SUBSET Timeouts] /\ \A u \in Handlers : age[u] \subseteq age'[u]
  <2>1. PICK t \in Timeouts : age' = [age EXCEPT ![h] = @ \cup {t}]
    BY DEF Age
  <2> QED BY <2>1 DEF IInv, TypeOK
<1>2. CommittedIsAnswered'
  BY <1>1 DEF Age, outer, inner, IInv, TypeOK, CommittedIsAnswered
<1> QED BY <1>1, <1>2
    DEF Age, outer, inner, IInv, TypeOK, HoldersWork, PoolHasRoom, StopsInOrder, Drained,
        ErrorsFollowStop, StopIsNoFailure, Active, cfg

LEMMA StepKeeps == IInv /\ [Next]_vars => IInv'
<1> SUFFICES ASSUME IInv, [Next]_vars PROVE IInv'
  OBVIOUS
<1>1. CASE Main \/ Listen \/ ListenerBreaks \/ Signal \/ DeadlinePasses
  BY <1>1, StartKeeps, StopKeeps DEF Main
<1>2. CASE RunPublisher \/ Flush
  BY <1>2, RunKeeps, PublisherKeeps DEF RunPublisher
<1>3. ASSUME NEW h \in Handlers, Accept(h) \/ Run(h) \/ Respond(h) \/ Age(h)
      PROVE  IInv'
  <2>1. CASE Accept(h)
    <3>1. main = "wait" /\ h \notin holders
      BY <2>1 DEF Accept, IInv, TypeOK, StopsInOrder, Stopping, HoldersWork
    <3> QED BY <2>1, <3>1, GoKeeps DEF Accept
  <2>2. CASE Respond(h)
    <3>1. h \in Active /\ h \notin holders
      BY <2>2 DEF Respond, Active, IInv, HoldersWork
    <3> QED BY <2>2, <3>1, GoKeeps, AtWork DEF Respond
  <2> QED BY <1>3, <2>1, <2>2, RunKeeps, AgeKeeps
<1>4. CASE UNCHANGED vars
  BY <1>4 DEF vars, outer, inner, IInv, TypeOK, HoldersWork, PoolHasRoom, StopsInOrder, Drained,
              ErrorsFollowStop, StopIsNoFailure, CommittedIsAnswered, Active, cfg
<1> QED BY <1>1, <1>2, <1>3, <1>4 DEF Next

-----------------------------------------------------------------------------
(***************************************************************************)
(* The theorems.                                                           *)
(***************************************************************************)
\* The invariant holds in every state of a process (main.go:34-105).
THEOREM ProcessInvariance == Spec => []IInv
<1>1. Init => IInv
  <2> SUFFICES ASSUME Init PROVE IInv
    OBVIOUS
  <2>1. TypeOK
    BY NoHolders DEF Init, TypeOK, Outcomes
  <2> QED BY <2>1, NoHolders
        DEF Init, IInv, HoldersWork, PoolHasRoom, StopsInOrder, Stopping, Drained,
            ErrorsFollowStop, StopIsNoFailure, CommittedIsAnswered
<1> QED BY <1>1, StepKeeps, PTL DEF Spec

\* Every variable stays in its range, and the pool within its limit.
THEOREM ProcessTypeCorrect == Spec => []TypeOK
BY ProcessInvariance, PTL DEF IInv

\* However many requests meet at however small a pool, some holder of a connection
\* can go on (transaction.go:53).
THEOREM PoolNeverLocksUp == Spec => []PoolKeepsMoving
<1>1. IInv => PoolKeepsMoving
  <2> SUFFICES ASSUME IInv, NEW g \in Goroutines, Waiting(g)
               PROVE  \E u \in holders : ~ Waiting(u)
    BY DEF PoolKeepsMoving
  <2>1. cfg.maxConns > 0 /\ cfg.maxConns \in Int /\ ~ Spare
    BY LimitIsNumber DEF Waiting, IInv, TypeOK, PoolHasRoom
  <2>2. holders # {}
    BY <2>1, NoHolders DEF Spare
  <2> QED BY <2>2 DEF IInv, HoldersWork, Waiting
<1> QED BY <1>1, ProcessInvariance, PTL

\* Until the deadline, the pool outlives every request (main.go:92-103).
THEOREM PoolClosedLast == Spec => []ClosedAfterTheRequests
<1>1. IInv => ClosedAfterTheRequests
  BY DEF IInv, ClosedAfterTheRequests, StopsInOrder, Drained
<1> QED BY <1>1, ProcessInvariance, PTL

\* A committed change goes unanswered only past a deadline.
THEOREM CommitsAreAnswered == Spec => []CommittedIsAnswered
BY ProcessInvariance, PTL DEF IInv

\* Stopping the process never counts as a failed attempt (main.go:84-98).
THEOREM StopIsNeverBlamed == Spec => []StopIsNoFailure
BY ProcessInvariance, PTL DEF IInv

-----------------------------------------------------------------------------
(***************************************************************************)
(* The list of brokers (config.go:117-136).  The loop is a function on the *)
(* numbers of its rounds; that it exists, and that no blank part gets into *)
(* its result, is shown by looking at the first round where it would not.  *)
(***************************************************************************)
\* What a round makes of r, the result so far.
Round(v, i, r) == IF v[i] = "" THEN r ELSE Append(r, v[i])

\* f tells the results of the first n rounds over v.
Rounds(v, n, f) == f = [i \in 0..n |-> IF i = 0 THEN <<>> ELSE Round(v, i, f[i - 1])]

LEMMA LoopEnds ==
    ASSUME NEW v \in Seq(STRING)
    PROVE  \E f : Rounds(v, Len(v), f)
<1> DEFINE Stuck == {n \in 0..Len(v) : ~ \E f : Rounds(v, n, f)}
<1>1. Len(v) \in Nat
  OBVIOUS
<1>2. SUFFICES ASSUME Stuck # {} PROVE FALSE
  BY <1>1
<1>3. PICK n \in Stuck : \A k \in Stuck : n <= k
  <2>1. Stuck \subseteq Nat
    BY <1>1
  <2> HIDE DEF Stuck
  <2> QED BY <1>2, <2>1, Least
<1>4. n # 0
  <2>1. Rounds(v, 0, [i \in 0..0 |-> <<>>])
    BY DEF Rounds
  <2> QED BY <1>3, <2>1
<1>5. n - 1 \in 0..Len(v) /\ n \in Nat
  BY <1>1, <1>3, <1>4
<1>6. n - 1 \notin Stuck
  BY <1>3, <1>5
<1>7. PICK f : Rounds(v, n - 1, f)
  BY <1>5, <1>6
<1> DEFINE g == [i \in 0..n |-> IF i < n THEN f[i] ELSE Round(v, n, f[n - 1])]
<1>8. \A i \in 0..n : g[i] = IF i = 0 THEN <<>> ELSE Round(v, i, g[i - 1])
  <2> SUFFICES ASSUME NEW i \in 0..n
               PROVE  g[i] = IF i = 0 THEN <<>> ELSE Round(v, i, g[i - 1])
    OBVIOUS
  <2>1. CASE i = n
    BY <1>4, <1>5, <2>1
  <2>2. CASE i # n
    <3>1. i \in 0..(n - 1) /\ i < n /\ (i # 0 => i - 1 \in 0..n /\ i - 1 < n)
      BY <1>5, <2>2
    <3>2. f[i] = IF i = 0 THEN <<>> ELSE Round(v, i, f[i - 1])
      BY <1>7, <3>1 DEF Rounds
    <3> QED BY <3>1, <3>2
  <2> QED BY <2>1, <2>2
<1>9. Rounds(v, n, g)
  <2>1. g = [i \in 0..n |-> g[i]]
    OBVIOUS
  <2> HIDE DEF g
  <2> QED BY <1>8, <2>1 DEF Rounds
<1> QED BY <1>3, <1>9

\* Appending to a sequence something that is not b keeps it without b.
LEMMA AppendAnother ==
    ASSUME NEW T, NEW b, NEW s \in Seq(T), NEW x \in T, x # b,
           \A j \in 1..Len(s) : s[j] # b
    PROVE  /\ Append(s, x) \in Seq(T)
           /\ \A j \in 1..Len(Append(s, x)) : Append(s, x)[j] # b
  OBVIOUS

\* A list without its blank parts is a list, and has no blank part.
LEMMA NonBlankParts ==
    ASSUME NEW v \in Seq(STRING)
    PROVE  /\ NonBlank(v) \in Seq(STRING)
           /\ \A i \in 1..Len(NonBlank(v)) : NonBlank(v)[i] # ""
<1> DEFINE f == CHOOSE g : Rounds(v, Len(v), g)
           Good(s) == s \in Seq(STRING) /\ \A j \in 1..Len(s) : s[j] # ""
<1>1. NonBlank(v) = f[Len(v)]
  BY DEF NonBlank, Rounds, Round
<1>2. Rounds(v, Len(v), f)
  BY LoopEnds
<1>3. Len(v) \in Nat
  OBVIOUS
<1> HIDE DEF f
<1>4. ASSUME NEW i \in 1..Len(v), Good(f[i - 1]) PROVE Good(f[i])
  <2>1. f[i] = Round(v, i, f[i - 1])
    BY <1>2, <1>3 DEF Rounds
  <2>2. v[i] \in STRING
    OBVIOUS
  <2>3. CASE v[i] = ""
    BY <1>4, <2>1, <2>3 DEF Round
  <2>4. CASE v[i] # ""
    <3>1. f[i] = Append(f[i - 1], v[i])
      BY <2>1, <2>4 DEF Round
    <3>2. f[i - 1] \in Seq(STRING) /\ \A j \in 1..Len(f[i - 1]) : f[i - 1][j] # ""
      BY <1>4
    <3> DEFINE r == f[i - 1]
    <3>3. Good(Append(r, v[i]))
      <4>1. r \in Seq(STRING) /\ \A j \in 1..Len(r) : r[j] # ""
        BY <3>2
      <4> HIDE DEF r
      <4> QED BY <2>2, <2>4, <4>1, AppendAnother, Zenon
    <3> HIDE DEF Good
    <3> QED BY <3>1, <3>3
  <2> QED BY <2>3, <2>4
<1>5. Good(f[0])
  <2>1. 0 \in 0..Len(v)
    BY <1>3
  <2>2. f[0] = <<>>
    BY <1>2, <2>1 DEF Rounds
  <2> QED BY <2>2
<1> HIDE DEF Good
<1> DEFINE Bad == {i \in 0..Len(v) : ~ Good(f[i])}
<1>6. ASSUME Bad # {} PROVE FALSE
  <2>1. Bad \subseteq Nat
    BY <1>3
  <2>2. PICK n \in Bad : \A k \in Bad : n <= k
    <3> HIDE DEF Bad
    <3> QED BY <1>6, <2>1, Least
  <2>3. n \in 0..Len(v) /\ ~ Good(f[n])
    BY <2>2
  <2>4. n \in 1..Len(v) /\ n - 1 \in 0..Len(v) /\ ~ (n <= n - 1)
    <3>1. n # 0
      BY <1>5, <2>3
    <3> QED BY <1>3, <2>3, <3>1
  <2>5. Good(f[n - 1])
    BY <2>2, <2>4
  <2> QED BY <1>4, <2>3, <2>4, <2>5
<1>7. Len(v) \in 0..Len(v)
  BY <1>3
<1>8. Good(f[Len(v)])
  BY <1>6, <1>7
<1> QED BY <1>1, <1>8 DEF Good

\* Whatever the environment, what is started can work: the ticker does not panic,
\* the batch is not empty, the pool has room for a connection, and the list of brokers
\* has a name in each place (config.go:47-136, publisher.go:35-51,
\* factory.go:18-27).
THEOREM StartedWorks == Spec => []StartedCanWork
<1>1. IInv => StartedCanWork
  <2> SUFFICES ASSUME IInv, Started PROVE StartedCanWork
    BY DEF StartedCanWork
  <2>1. env \in Environment
    BY EnvironmentAssumption DEF IInv, TypeOK
  <2>2. /\ env.pollInterval \in Number
        /\ env.batchSize \in Number
        /\ env.brokers \in Seq(STRING) \cup {Unset}
    BY <2>1 DEF Environment
  <2>3. cfg.pollInterval \in Int /\ cfg.batchSize \in Int
    BY <2>2 DEF cfg, Load, GetNumber, Number
  <2>4. NewPublisher(cfg).interval > 0 /\ NewPublisher(cfg).batch > 0
    BY <2>3 DEF NewPublisher
  <2>5. cfg.maxConns > 0
    BY DEF IInv, TypeOK, PoolHasRoom, StopsInOrder, Stopping, Started
  <2>6. cfg.brokers = GetCSV(env.brokers, <<"localhost:9092">>)
    BY DEF cfg, Load
  <2>7. cfg.brokers # <<>> /\ \A i \in 1..Len(cfg.brokers) : cfg.brokers[i] # ""
    <3>1. CASE env.brokers = Unset \/ NonBlank(env.brokers) = <<>>
      <4>1. cfg.brokers = <<"localhost:9092">>
        BY <2>6, <3>1 DEF GetCSV
      <4>2. Len(<<"localhost:9092">>) = 1 /\ <<"localhost:9092">>[1] # ""
        OBVIOUS
      <4>3. <<"localhost:9092">> # <<>>
        OBVIOUS
      <4>4. \A i \in 1..1 : i = 1
        OBVIOUS
      <4> QED BY <4>1, <4>2, <4>3, <4>4, Zenon
    <3>2. CASE env.brokers # Unset /\ NonBlank(env.brokers) # <<>>
      <4>1. cfg.brokers = NonBlank(env.brokers) /\ env.brokers \in Seq(STRING)
        BY <2>2, <2>6, <3>2 DEF GetCSV
      <4> QED BY <3>2, <4>1, NonBlankParts
    <3> QED BY <3>1, <3>2
  <2> QED BY <2>4, <2>5, <2>7 DEF StartedCanWork
<1> QED BY <1>1, ProcessInvariance, PTL
=============================================================================
