------------------------ MODULE CompanySystemProofs ------------------------
(***************************************************************************)
(* Theorems about CompanySystem, for any number of clients and publishers, *)
(* any batch size and any number of failures of either component.          *)
(*                                                                         *)
(* The service is untouched by the publishers, so what CompanyStoreProofs  *)
(* proves of it holds here.  It gives the relay its events in the order    *)
(* the relay needs.  The consumer's copy then follows from two facts: the  *)
(* outbox mirrors the table, and what is marked was sent.                  *)
(***************************************************************************)
EXTENDS CompanySystem, CompanyStoreProofs, OrderLemmas

-----------------------------------------------------------------------------
(***************************************************************************)
(* The service inside the system.                                          *)
(***************************************************************************)
\* A step of the system is a step of the service, or leaves it alone.
LEMMA SystemStep == [SystemNext]_systemVars => [Next]_vars
BY DEF SystemNext, systemVars, Publish, TimePasses

\* The publishers never disturb the service: all that is proved of it holds in
\* the system (main.go:70-86 gives both the same pool and the same tables).
THEOREM SystemKeepsStore == SystemSpec => Spec
<1>1. SystemInit => Init
  BY DEF SystemInit
<1> QED BY <1>1, SystemStep, PTL DEF SystemSpec, Spec

LEMMA SystemInv == SystemSpec => [](IInv /\ KeysApart)
BY SystemKeepsStore, Invariance, KeysStayApart, PTL

\* The events of the first companies stay in the outbox.
LEMMA SeedStays == SystemSpec => [](SeedEvents \subseteq outbox)
<1>1. SystemInit => SeedEvents \subseteq outbox
  BY DEF SystemInit, Init
<1>2. SeedEvents \subseteq outbox /\ [Next]_vars => (SeedEvents \subseteq outbox)'
  BY OutboxGrows DEF SeedEvents
<1> QED BY <1>1, <1>2, SystemStep, PTL DEF SystemSpec

-----------------------------------------------------------------------------
(***************************************************************************)
(* The order in which events appear.                                       *)
(***************************************************************************)
\* A commit of the service is, for the publishers, the arrival of the newest
\* event of its company.
LEMMA AppearsIsStore ==
    ASSUME IInv, [Next]_vars, NEW e \in outbox' \ outbox, Key(e) \in Keys, Relay!Insert(Key(e))
    PROVE  Relay!Store(Key(e))
<1>1. ASSUME NEW f \in Owed, Key(f).company = Key(e).company
      PROVE  Key(f).at < Key(e).at
  <2>1. f \in outbox /\ f.company.id = e.company.id
    BY <1>1 DEF Owed, Key
  <2> QED BY <2>1, AppearsInOrder DEF Key
<1> QED BY <1>1 DEF Relay!Store, Relay!Newest

\* The publishers of the system behave as the relay alone is assumed to: what
\* OutboxPublisherProofs proves of it holds here (service.go:148,
\* outbox_repository.go:49).
THEOREM RelayKept == SystemSpec => RelayGetsItsOrder
<1>1. SystemInit => Relay!Init
  BY DEF SystemInit
<1>2. IInv /\ [SystemNext]_systemVars => [Relay!Next]_(Relay!vars)
  <2> SUFFICES ASSUME IInv, [SystemNext]_systemVars PROVE [Relay!Next]_(Relay!vars)
    OBVIOUS
  <2>1. ASSUME UNCHANGED <<outbox, relayVars>> PROVE UNCHANGED Relay!vars
    BY <2>1 DEF relayVars, Relay!vars, Owed, SeedEvents
  <2>2. CASE Next /\ Appears
    <3>1. ASSUME NEW e \in outbox' \ outbox, Key(e) \in Keys, Relay!Insert(Key(e))
          PROVE  Relay!Next
      BY <2>2, <3>1, AppearsIsStore DEF Relay!Next
    <3> QED BY <2>1, <2>2, <3>1 DEF Appears
  <2>3. ASSUME NEW k \in Keys, TimePasses(k) PROVE Relay!Next
    BY <2>3 DEF TimePasses, Relay!Next
  <2>4. ASSUME NEW p \in Publishers,
               Publish(p) \/ (UNCHANGED vars /\ Relay!Fails(p))
        PROVE  Relay!Next
    BY <2>4 DEF Publish, Relay!Next
  <2>5. CASE UNCHANGED systemVars
    BY <2>1, <2>5 DEF systemVars, vars
  <2> QED BY <2>2, <2>3, <2>4, <2>5 DEF SystemNext
<1> QED BY <1>1, <1>2, SystemInv, PTL DEF SystemSpec, RelayGetsItsOrder, Relay!Spec

-----------------------------------------------------------------------------
(***************************************************************************)
(* The theorems about the relay, in the system.                            *)
(***************************************************************************)
RelayProofs == INSTANCE OutboxPublisherProofs WITH
                  Companies <- Ids,
                  Events    <- Keys,
                  Poison    <- {},
                  MaxFaults <- MaxRelayFaults,
                  stored    <- {Key(e) : e \in Owed},
                  pc        <- relayPc,
                  faults    <- relayFaults

\* The system's constants are as OutboxPublisher assumes.
LEMMA RelayConstants ==
    /\ RelayProofs!EventAssumption
    /\ RelayProofs!BatchAssumption
    /\ RelayProofs!BoundAssumption
BY StampAssumption, RelayAssumption
   DEF RelayProofs!EventAssumption, RelayProofs!BatchAssumption, RelayProofs!BoundAssumption, Keys

\* Both instances of OutboxPublisher have the same actions.
LEMMA SameTransmission ==
    ASSUME NEW p, NEW k
    PROVE  /\ Relay!Current(p, k) = RelayProofs!Current(p, k)
           /\ Relay!PublishOk(p, k) => RelayProofs!PublishOk(p, k)
           /\ Relay!PublishError(p, k) => RelayProofs!PublishError(p, k)
           /\ Relay!WriteUnacknowledged(p, k) => RelayProofs!WriteUnacknowledged(p, k)
<1>1. Relay!Current(p, k) = RelayProofs!Current(p, k)
  BY DEF Relay!Current, RelayProofs!Current, Relay!Unmarked, RelayProofs!Unmarked, Relay!First,
     RelayProofs!First
<1>2. Relay!PublishOk(p, k) => RelayProofs!PublishOk(p, k)
  BY <1>1 DEF Relay!PublishOk, RelayProofs!PublishOk, Relay!table, RelayProofs!table
<1>3. Relay!PublishError(p, k) => RelayProofs!PublishError(p, k)
  BY <1>1 DEF Relay!PublishError, RelayProofs!PublishError, Relay!Fault, RelayProofs!Fault,
     Relay!table, RelayProofs!table, Relay!Increment, RelayProofs!Increment
<1>4. Relay!WriteUnacknowledged(p, k) => RelayProofs!WriteUnacknowledged(p, k)
  BY <1>1 DEF Relay!WriteUnacknowledged, RelayProofs!WriteUnacknowledged, Relay!Fault,
     RelayProofs!Fault, Relay!table, RelayProofs!table
<1> QED BY <1>1, <1>2, <1>3, <1>4

LEMMA SameMarks ==
    ASSUME NEW p, NEW k
    PROVE  /\ Relay!MarkPublished(p, k) => RelayProofs!MarkPublished(p, k)
           /\ Relay!MarkFailed(p, k) => RelayProofs!MarkFailed(p, k)
BY SameTransmission
   DEF Relay!MarkPublished, RelayProofs!MarkPublished, Relay!MarkFailed, RelayProofs!MarkFailed,
       Relay!Mark, RelayProofs!Mark, Relay!Unmarked, RelayProofs!Unmarked, Relay!table,
       RelayProofs!table

LEMMA SameBatches ==
    ASSUME NEW p
    PROVE  /\ Relay!FetchPending(p) => RelayProofs!FetchPending(p)
           /\ Relay!Commit(p) => RelayProofs!Commit(p)
           /\ Relay!BatchFails(p) => RelayProofs!BatchFails(p)
           /\ Relay!Stop(p) => RelayProofs!Stop(p)
           /\ Relay!Start(p) => RelayProofs!Start(p)
<1>1. ASSUME Relay!FetchPending(p) PROVE RelayProofs!FetchPending(p)
  BY <1>1
     DEF Relay!FetchPending, RelayProofs!FetchPending, Relay!Scanned, RelayProofs!Scanned,
         Relay!Due, RelayProofs!Due,
         Relay!LockedByOthers, RelayProofs!LockedByOthers, Relay!IsFirstBatch,
         RelayProofs!IsFirstBatch, Relay!Cardinality, RelayProofs!Cardinality, Relay!table,
         RelayProofs!table
<1>2. ASSUME Relay!Commit(p) PROVE RelayProofs!Commit(p)
  BY <1>2
     DEF Relay!Commit, RelayProofs!Commit, Relay!Marked, RelayProofs!Marked, Relay!Release,
         RelayProofs!Release, Relay!NoMarks, RelayProofs!NoMarks, Relay!Increment,
         RelayProofs!Increment
<1>3. /\ Relay!BatchFails(p) => RelayProofs!BatchFails(p)
      /\ Relay!Stop(p) => RelayProofs!Stop(p)
      /\ Relay!Start(p) => RelayProofs!Start(p)
  BY DEF Relay!BatchFails, RelayProofs!BatchFails, Relay!Stop, RelayProofs!Stop, Relay!Start,
         RelayProofs!Start, Relay!Fault, RelayProofs!Fault, Relay!Release, RelayProofs!Release,
         Relay!NoMarks, RelayProofs!NoMarks, Relay!table, RelayProofs!table
<1> QED BY <1>1, <1>2, <1>3

LEMMA SameRelay == Relay!Spec => RelayProofs!Spec
<1>1. Relay!Init => RelayProofs!Init
  BY DEF Relay!Init, RelayProofs!Init, Relay!NoMarks, RelayProofs!NoMarks
<1>2. ASSUME NEW k
      PROVE  /\ Relay!Store(k) => RelayProofs!Store(k)
             /\ Relay!BecomeDue(k) => RelayProofs!BecomeDue(k)
  BY DEF Relay!Store, RelayProofs!Store, Relay!Newest, RelayProofs!Newest, Relay!Insert,
         RelayProofs!Insert, Relay!BecomeDue, RelayProofs!BecomeDue
<1>3. Relay!Next => RelayProofs!Next
  BY <1>2, SameTransmission, SameMarks, SameBatches
     DEF Relay!Next, RelayProofs!Next, Relay!Work, RelayProofs!Work, Relay!Fails,
         RelayProofs!Fails
<1>4. [Relay!Next]_(Relay!vars) => [RelayProofs!Next]_(RelayProofs!vars)
  BY <1>3 DEF Relay!vars, RelayProofs!vars
<1> QED BY <1>1, <1>4, PTL DEF Relay!Spec, RelayProofs!Spec

LEMMA SystemRelays == SystemSpec => RelayProofs!Spec
BY RelayKept, SameRelay, PTL DEF RelayGetsItsOrder

\* What the publishers send are events of committed changes, and none again once its
\* mark is committed: at-least-once delivery from the requests to the topic
\* (service.go:144-168 through publisher.go:80-105).
THEOREM SystemDelivers == SystemSpec => RelayProofs!AtLeastOnce
BY SystemRelays, RelayConstants, RelayProofs!ImplementsRelay, PTL

\* A change is announced to the topic once, and once more for each failure of a
\* publisher or of Kafka: requests, their retries and their crashes repeat no message
\* (service.go:144-168 through publisher.go:80-105).
THEOREM SystemRepeats == SystemSpec => []RelayProofs!RepeatsTakeFailures
BY SystemRelays, RelayConstants, RelayProofs!RepeatsAreFailures, PTL

\* What is marked was sent.
LEMMA MarkedWasTold == SystemSpec => [](published \subseteq Relay!Delivered)
<1>1. RelayProofs!PublishedWasDelivered => published \subseteq Relay!Delivered
  BY DEF RelayProofs!PublishedWasDelivered, RelayProofs!Delivered, Relay!Delivered
<1> QED BY <1>1, SystemRelays, RelayConstants, RelayProofs!NothingLost, PTL

-----------------------------------------------------------------------------
(***************************************************************************)
(* The consumer.                                                           *)
(***************************************************************************)
\* Once everything is marked the consumer has seen the whole outbox.
LEMMA SawEverything ==
    ASSUME published \subseteq Relay!Delivered, SeedEvents \subseteq outbox,
           \A e \in Owed : Key(e) \in published
    PROVE  Told = outbox
BY DEF Told, Owed

\* A consumer who has seen the whole outbox has the table, because the outbox
\* mirrors it.
LEMMA MirrorIsCopy ==
    ASSUME OutboxMirrorsTable, Told = outbox, NEW c \in Ids
    PROVE  CopyIsRow(c)
<1>1. \A e \in outbox : LastTold(e) <=> Latest(e)
  BY DEF LastTold, Latest, EventsOf
<1>2. CASE rows[c] = Nil
  BY <1>1, <1>2 DEF CopyIsRow, OutboxMirrorsTable, EventsOf
<1>3. CASE rows[c] # Nil
  BY <1>1, <1>3 DEF CopyIsRow, OutboxMirrorsTable, EventsOf
<1> QED BY <1>2, <1>3

\* Whenever every row of outbox_events is marked the consumer has the table,
\* whatever failed, was repeated or overtaken on the way (service.go:144-168
\* through publisher.go:80-105).
THEOREM ConsumerHasTheTable == SystemSpec => []ConsumerAgrees
<1>1. IInv /\ published \subseteq Relay!Delivered /\ SeedEvents \subseteq outbox
        => ConsumerAgrees
  BY SawEverything, MirrorIsCopy DEF IInv, ConsumerAgrees
<1> QED BY <1>1, SystemInv, MarkedWasTold, SeedStays, PTL

-----------------------------------------------------------------------------
(***************************************************************************)
(* The simpler consumer.                                                   *)
(***************************************************************************)
\* The row shows the latest event of its company.
LEMMA LatestShowsRow ==
    ASSUME IInv, KeysApart, NEW e \in outbox, e.company.id \in Ids, Latest(e)
    PROVE  ShowsRow(e)
<1>1. e \in EventsOf(e.company.id) /\ e.at \in Nat
  BY DEF IInv, TypeOK, Event, EventsOf
<1>2. CASE rows[e.company.id] = Nil
  <2>1. e.type = "deleted"
    BY <1>1, <1>2 DEF IInv, OutboxMirrorsTable
  <2> QED BY <1>2, <2>1 DEF ShowsRow
<1>3. CASE rows[e.company.id] # Nil
  <2>1. PICK f \in EventsOf(e.company.id) :
          Latest(f) /\ f.type # "deleted" /\ f.company = rows[e.company.id]
    BY <1>1, <1>3 DEF IInv, OutboxMirrorsTable
  <2>2. f \in outbox /\ f.company.id = e.company.id /\ f.at \in Nat
    BY <2>1 DEF EventsOf, IInv, TypeOK, Event
  <2>3. f.at <= e.at /\ e.at <= f.at
    BY <1>1, <2>1, <2>2 DEF Latest, EventsOf
  <2>4. f = e
    BY <1>1, <2>2, <2>3 DEF KeysApart
  <2> QED BY <2>1, <2>4 DEF ShowsRow
<1> QED BY <1>2, <1>3

\* The events the publishers do not owe are the first of their companies.
LEMMA SeedIsFirst ==
    ASSUME NEW e \in SeedEvents
    PROVE  e.at = 0
BY DEF SeedEvents

\* The last message of a company whose events were not troubled is about its latest
\* event.
LEMMA LastIsLatest ==
    ASSUME IInv, RelayProofs!TypeOK, RelayProofs!LastMessageWins, published \subseteq Relay!Delivered,
           NEW c \in Ids, Untroubled(c), NEW i \in 1..Len(topic), LastAbout(c, i),
           NEW e \in Owed, Key(e) = topic[i]
    PROVE  Latest(e)
<1>1. e \in outbox /\ e.company.id = c /\ e.at \in Nat
  BY DEF Owed, LastAbout, Key, IInv, TypeOK, Event
<1> SUFFICES ASSUME NEW f \in EventsOf(c), ~ (f.at <= e.at) PROVE FALSE
  BY <1>1 DEF Latest
<1>2. f \in outbox /\ f.company.id = c /\ f.at \in Nat /\ e.at < f.at
  BY <1>1 DEF EventsOf, IInv, TypeOK, Event
<1>3. f \in Owed
  BY <1>1, <1>2, SeedIsFirst DEF Owed
<1>4. /\ Key(e) \in published /\ Key(f) \in published
      /\ Key(e) \notin late /\ failures[Key(e)] = 0
  BY <1>1, <1>2, <1>3 DEF Untroubled
<1>5. RelayProofs!LastIndex(Key(e)) < RelayProofs!LastIndex(Key(f))
  BY <1>1, <1>2, <1>4 DEF RelayProofs!LastMessageWins, Key
<1>6. topic \in Seq(Keys)
  BY DEF RelayProofs!TypeOK
<1>7. RelayProofs!LastIndex(Key(e)) = i
  <2>1. i \in 1..Len(topic) /\ topic[i] = Key(e) /\ \A j \in i + 1..Len(topic) : topic[j] # Key(e)
    BY <1>1 DEF LastAbout, Key
  <2>2. ASSUME NEW k \in 1..Len(topic), topic[k] = Key(e),
               \A j \in k + 1..Len(topic) : topic[j] # Key(e)
        PROVE  k = i
    BY <1>6, <2>1, <2>2
  <2> QED BY <2>1, <2>2 DEF RelayProofs!LastIndex
<1>8. PICK k \in 1..Len(topic) :
        topic[k] = Key(f) /\ \A j \in k + 1..Len(topic) : topic[j] # Key(f)
  <2>1. Key(f) \in Elements(topic)
    BY <1>4 DEF Relay!Delivered, Elements
  <2> QED BY <1>6, <2>1, LastPosition
<1>9. /\ RelayProofs!LastIndex(Key(f)) \in 1..Len(topic)
      /\ topic[RelayProofs!LastIndex(Key(f))] = Key(f)
  BY <1>8 DEF RelayProofs!LastIndex
<1>10. topic[RelayProofs!LastIndex(Key(f))].company = c
  BY <1>2, <1>9 DEF Key
<1>11. RelayProofs!LastIndex(Key(f)) \in i + 1..Len(topic)
  BY <1>5, <1>6, <1>7, <1>9
<1> QED BY <1>10, <1>11 DEF LastAbout

\* With one publisher, a consumer who keeps the message it received last of each
\* company has its row, as soon as the events of the company are marked and none was
\* refused or stored with a later available_at, whatever was repeated on the way
\* (outbox_repository.go:49, publisher.go:80-105).
THEOREM LastMessageHasTheRow ==
    RelayProofs!OnePublisher => (SystemSpec => []LastMessageShowsRow)
<1>1. /\ IInv /\ KeysApart /\ RelayProofs!TypeOK /\ RelayProofs!OnlyStoredIsSent
      /\ RelayProofs!LastMessageWins /\ published \subseteq Relay!Delivered
      => LastMessageShowsRow
  <2> SUFFICES ASSUME IInv, KeysApart, RelayProofs!TypeOK, RelayProofs!OnlyStoredIsSent,
                      RelayProofs!LastMessageWins, published \subseteq Relay!Delivered,
                      NEW c \in Ids, Untroubled(c), NEW i \in 1..Len(topic), LastAbout(c, i)
               PROVE  \E e \in Owed : Key(e) = topic[i] /\ ShowsRow(e)
    BY DEF LastMessageShowsRow
  <2>1. PICK e \in Owed : Key(e) = topic[i]
    BY DEF RelayProofs!OnlyStoredIsSent, RelayProofs!Delivered
  <2>2. Latest(e) /\ e.company.id = c
    BY <2>1, LastIsLatest DEF LastAbout, Key
  <2> QED BY <2>1, <2>2, LatestShowsRow DEF Owed
<1>2. RelayProofs!IInv => RelayProofs!TypeOK /\ RelayProofs!OnlyStoredIsSent
  BY DEF RelayProofs!IInv
<1>3. RelayProofs!Spec => []RelayProofs!IInv
  BY RelayConstants, RelayProofs!RelayInvariance, PTL
<1>4. RelayProofs!OnePublisher => (RelayProofs!Spec => []RelayProofs!LastMessageWins)
  BY RelayConstants, RelayProofs!LastMessageIsNewest, PTL
<1> QED
  BY <1>1, <1>2, <1>3, <1>4, SystemRelays, SystemInv, MarkedWasTold, PTL
=============================================================================
