----------------------- MODULE OutboxPublisherProofs -----------------------
(***************************************************************************)
(* Theorems about OutboxPublisher, for any set of events, any number of    *)
(* publishers, any batch size, any events Kafka refuses and any bounds.    *)
(*                                                                         *)
(* What makes a mark safe to commit was established earlier: Kafka took    *)
(* the event while its row was locked, and as long as it is locked no      *)
(* other publisher can have it in a batch or mark it.                      *)
(***************************************************************************)
EXTENDS OutboxPublisher, OrderLemmas

-----------------------------------------------------------------------------
(***************************************************************************)
(* The inductive invariant.                                                *)
(***************************************************************************)
\* Nothing is sent that no request stored.
OnlyStoredIsSent == Delivered \subseteq stored

\* A locked row was stored and carries no committed mark.
BatchPending == \A p \in Publishers : batch[p] \subseteq stored \ published

\* An uncommitted mark says what happened.
MarkedWasSent ==
    \A p \in Publishers : \A e \in batch[p] : marks[p][e] = "published" => e \in Delivered

\* The event about to be marked is in the topic.
CurrentWasSent ==
    \A p \in Publishers : pc[p] = "markPublished" =>
        \A e \in batch[p] : Current(p, e) => e \in Delivered

\* A publisher at rest holds no marks.
RestHasNoMarks == \A p \in Publishers : pc[p] \in {"idle", "down"} => marks[p] = NoMarks

IInv == /\ TypeOK
        /\ PublishedWasDelivered
        /\ OnlyStoredIsSent
        /\ OnePublisherPerEvent
        /\ BatchPending
        /\ MarkedWasSent
        /\ CurrentWasSent
        /\ RestHasNoMarks

-----------------------------------------------------------------------------
(***************************************************************************)
(* Lemmas about single steps.                                              *)
(***************************************************************************)
\* What a transmission adds to the topic (publisher.go:86).
LEMMA TopicGrows ==
    ASSUME IInv, NEW e \in Events, topic' = Append(topic, e)
    PROVE  /\ topic' \in Seq(Events)
           /\ Delivered' = Delivered \cup {e}
           /\ topic'[Len(topic')] = e
<1>1. topic \in Seq(Events)
  BY DEF IInv, TypeOK
<1>2. /\ topic' \in Seq(Events)
      /\ Elements(topic') = Elements(topic) \cup {e}
      /\ topic'[Len(topic')] = e
  BY <1>1, AppendGrows
<1> QED BY <1>2 DEF Delivered, Elements

\* Counting stays within its bound.
LEMMA IncrementBounded == \A n \in 0..MaxAttempts : Increment(n) \in 0..MaxAttempts
BY BoundAssumption DEF Increment

LEMMA InitIInv == Init => IInv
<1> SUFFICES ASSUME Init PROVE IInv
  OBVIOUS
<1>1. TypeOK
  BY BoundAssumption DEF Init, TypeOK, NoMarks, Steps
<1>2. Delivered = {}
  BY DEF Init, Delivered
<1> QED
  BY <1>1, <1>2 DEF Init, IInv, PublishedWasDelivered, OnlyStoredIsSent, OnePublisherPerEvent,
     BatchPending, MarkedWasSent, CurrentWasSent, RestHasNoMarks

\* Steps that touch no row a publisher holds and nothing in the topic: only the
\* set of stored events may grow, and columns nobody relies on may change.
LEMMA TableStep ==
    ASSUME IInv, TypeOK', stored \subseteq stored',
           UNCHANGED <<published, pc, batch, marks, topic>>
    PROVE  IInv'
<1>1. Delivered' = Delivered
  BY DEF Delivered
<1>2. \A p, e : Current(p, e)' <=> Current(p, e)
  BY DEF Current, Unmarked, First
<1> QED
  BY <1>1, <1>2 DEF IInv, PublishedWasDelivered, OnlyStoredIsSent, OnePublisherPerEvent,
     BatchPending, MarkedWasSent, CurrentWasSent, RestHasNoMarks

LEMMA InsertKeeps == ASSUME IInv, NEW e \in Events, Insert(e) PROVE IInv'
<1>1. TypeOK'
  BY DEF IInv, TypeOK, Insert, Steps
<1> QED BY <1>1, TableStep DEF Insert

LEMMA BecomeDueKeeps == ASSUME IInv, NEW e \in Events, BecomeDue(e) PROVE IInv'
<1>1. TypeOK'
  BY DEF IInv, TypeOK, BecomeDue, Steps
<1> QED BY <1>1, TableStep DEF BecomeDue

LEMMA FetchKeeps == ASSUME IInv, NEW p \in Publishers, FetchPending(p) PROVE IInv'
<1> PICK b \in SUBSET Due(p) : batch' = [batch EXCEPT ![p] = b]
  BY DEF FetchPending, Scanned
<1>1. /\ pc[p] = "idle" /\ pc' = [pc EXCEPT ![p] = "publish"]
      /\ UNCHANGED <<table, marks, topic, failures, faults>>
  BY DEF FetchPending
<1>2. b \subseteq stored \ published /\ \A q \in Publishers \ {p} : b \cap batch[q] = {}
  BY DEF Due, LockedByOthers
<1>3. TypeOK'
  BY <1>1, <1>2 DEF IInv, TypeOK, table, Steps
<1>4. Delivered' = Delivered
  BY <1>1 DEF Delivered
<1>5. OnePublisherPerEvent' /\ BatchPending'
  BY <1>1, <1>2 DEF IInv, TypeOK, OnePublisherPerEvent, BatchPending, table
<1>6. MarkedWasSent'
  <2>1. marks[p] = NoMarks
    BY <1>1 DEF IInv, RestHasNoMarks
  <2>2. b \subseteq Events
    BY <1>2 DEF IInv, TypeOK
  <2> QED BY <1>1, <1>4, <2>1, <2>2 DEF IInv, TypeOK, MarkedWasSent, NoMarks
<1>7. CurrentWasSent'
  <2>1. \A q \in Publishers \ {p} : \A e : Current(q, e)' <=> Current(q, e)
    BY <1>1 DEF IInv, TypeOK, Current, Unmarked, First
  <2> QED BY <1>1, <1>4, <2>1 DEF IInv, TypeOK, CurrentWasSent
<1> QED
  BY <1>1, <1>3, <1>4, <1>5, <1>6, <1>7 DEF IInv, TypeOK, PublishedWasDelivered,
     OnlyStoredIsSent, RestHasNoMarks, table

\* What a transmission may do besides growing the topic: p goes on to step s.
LEMMA TransmitKeeps ==
    ASSUME IInv, NEW p \in Publishers, NEW e \in Events, Current(p, e), TypeOK',
           NEW s \in {"publish", "markPublished", "markFailed"},
           pc' = [pc EXCEPT ![p] = s],
           Delivered' = Delivered \/ Delivered' = Delivered \cup {e},
           s = "markPublished" => e \in Delivered',
           UNCHANGED <<table, batch, marks>>
    PROVE  IInv'
<1>1. \A q, f : Current(q, f)' <=> Current(q, f)
  BY DEF Current, Unmarked, First
<1>2. e \in stored
  BY DEF IInv, BatchPending, Current, Unmarked
<1>3. \A f \in batch[p] : Current(p, f) => f = e
  BY DEF Current
<1>4. CurrentWasSent'
  BY <1>1, <1>3 DEF IInv, TypeOK, CurrentWasSent
<1> QED
  BY <1>2, <1>4 DEF IInv, TypeOK, PublishedWasDelivered, OnlyStoredIsSent, OnePublisherPerEvent,
     BatchPending, MarkedWasSent, RestHasNoMarks, table

LEMMA PublishOkKeeps ==
    ASSUME IInv, NEW p \in Publishers, NEW e \in Events, PublishOk(p, e)
    PROVE  IInv'
<1>1. /\ topic' \in Seq(Events)
      /\ Delivered' = Delivered \cup {e}
  BY TopicGrows DEF PublishOk
<1>2. TypeOK'
  BY <1>1 DEF PublishOk, IInv, TypeOK, Steps, table
<1> QED BY <1>1, <1>2, TransmitKeeps DEF PublishOk

LEMMA WriteUnacknowledgedKeeps ==
    ASSUME IInv, NEW p \in Publishers, NEW e \in Events, WriteUnacknowledged(p, e)
    PROVE  IInv'
<1>1. /\ topic' \in Seq(Events)
      /\ Delivered' = Delivered \cup {e}
  BY TopicGrows DEF WriteUnacknowledged
<1>2. faults' \in 0..MaxFaults
  BY BoundAssumption DEF WriteUnacknowledged, Fault, IInv, TypeOK
<1>3. TypeOK'
  BY <1>1, <1>2 DEF WriteUnacknowledged, IInv, TypeOK, Steps, table
<1>4. pc' = [pc EXCEPT ![p] = "publish"]
  BY DEF WriteUnacknowledged, IInv, TypeOK
<1> QED BY <1>1, <1>3, <1>4, TransmitKeeps DEF WriteUnacknowledged

LEMMA PublishErrorKeeps ==
    ASSUME IInv, NEW p \in Publishers, NEW e \in Events, PublishError(p, e)
    PROVE  IInv'
<1>1. /\ topic' \in Seq(Events)
      /\ Delivered' = Delivered \/ Delivered' = Delivered \cup {e}
  <2>1. topic' = topic \/ topic' = Append(topic, e)
    BY DEF PublishError
  <2> QED BY <2>1, TopicGrows DEF Delivered, IInv, TypeOK
<1>2. faults' \in 0..MaxFaults
  BY BoundAssumption DEF PublishError, Fault, IInv, TypeOK
<1>3. TypeOK'
  <2>1. failures' \in [Events -> 0..MaxAttempts]
    BY IncrementBounded DEF PublishError, IInv, TypeOK
  <2> QED BY <1>1, <1>2, <2>1 DEF PublishError, IInv, TypeOK, Steps, table
<1> QED BY <1>1, <1>3, TransmitKeeps DEF PublishError

LEMMA MarkKeeps ==
    ASSUME IInv, NEW p \in Publishers, NEW e \in Events, NEW m \in {"published", "failed"},
           Current(p, e), Mark(p, e, m), m = "published" => e \in Delivered
    PROVE  IInv'
<1>1. TypeOK'
  BY DEF Mark, IInv, TypeOK, Steps, table
<1>2. Delivered' = Delivered
  BY DEF Mark, Delivered
<1>3. MarkedWasSent'
  BY <1>2 DEF Mark, IInv, TypeOK, MarkedWasSent
<1>4. CurrentWasSent'
  <2>1. pc'[p] # "markPublished"
    BY DEF Mark, IInv, TypeOK
  <2>2. \A q \in Publishers \ {p} : \A f : Current(q, f)' <=> Current(q, f)
    BY DEF Mark, IInv, TypeOK, Current, Unmarked, First
  <2>3. \A q \in Publishers \ {p} : pc'[q] = pc[q] /\ batch'[q] = batch[q]
    BY DEF Mark, IInv, TypeOK
  <2> QED BY <1>2, <2>1, <2>2, <2>3 DEF IInv, CurrentWasSent
<1>5. RestHasNoMarks'
  BY DEF Mark, IInv, TypeOK, RestHasNoMarks
<1> QED
  BY <1>1, <1>2, <1>3, <1>4, <1>5 DEF Mark, IInv, PublishedWasDelivered, OnlyStoredIsSent,
     OnePublisherPerEvent, BatchPending, table

LEMMA MarkPublishedKeeps ==
    ASSUME IInv, NEW p \in Publishers, NEW e \in Events, MarkPublished(p, e)
    PROVE  IInv'
<1>1. e \in Delivered
  BY DEF MarkPublished, IInv, CurrentWasSent, Current, Unmarked
<1> QED BY <1>1, MarkKeeps DEF MarkPublished

LEMMA MarkFailedKeeps ==
    ASSUME IInv, NEW p \in Publishers, NEW e \in Events, MarkFailed(p, e)
    PROVE  IInv'
BY MarkKeeps DEF MarkFailed

\* The end of a poll: p's locks and marks are gone, and what becomes published
\* was locked by p and is in the topic.
LEMMA ReleaseKeeps ==
    ASSUME IInv, NEW p \in Publishers, NEW s \in {"idle", "down"}, Release(p, s), TypeOK',
           published \subseteq published', published' \subseteq published \cup batch[p],
           published' \subseteq Delivered,
           UNCHANGED <<stored, topic>>
    PROVE  IInv'
<1>1. Delivered' = Delivered
  BY DEF Delivered
<1>2. /\ pc'[p] = s /\ batch'[p] = {} /\ marks'[p] = NoMarks
      /\ \A q \in Publishers \ {p} :
           pc'[q] = pc[q] /\ batch'[q] = batch[q] /\ marks'[q] = marks[q]
  BY DEF Release, IInv, TypeOK
<1>3. OnePublisherPerEvent'
  BY <1>2 DEF IInv, OnePublisherPerEvent
<1>4. BatchPending'
  BY <1>2 DEF IInv, OnePublisherPerEvent, BatchPending
<1>5. MarkedWasSent' /\ RestHasNoMarks'
  BY <1>1, <1>2 DEF IInv, MarkedWasSent, RestHasNoMarks
<1>6. CurrentWasSent'
  <2>1. \A q \in Publishers \ {p} : \A f : Current(q, f)' <=> Current(q, f)
    BY <1>2 DEF Current, Unmarked, First
  <2> QED BY <1>1, <1>2, <2>1 DEF IInv, CurrentWasSent
<1> QED
  BY <1>1, <1>3, <1>4, <1>5, <1>6 DEF IInv, PublishedWasDelivered, OnlyStoredIsSent

LEMMA CommitKeeps == ASSUME IInv, NEW p \in Publishers, Commit(p) PROVE IInv'
<1>1. /\ Marked(p, "published") \subseteq batch[p]
      /\ Marked(p, "published") \subseteq Delivered
      /\ Marked(p, "failed") \subseteq Events
  BY DEF Marked, IInv, TypeOK, MarkedWasSent
<1>2. attempts' \in [Events -> 0..MaxAttempts]
  BY IncrementBounded DEF Commit, IInv, TypeOK
<1>3. TypeOK'
  BY <1>1, <1>2 DEF Commit, Release, NoMarks, IInv, TypeOK, Steps
<1> QED
  BY <1>1, <1>3, ReleaseKeeps DEF Commit, IInv, PublishedWasDelivered

LEMMA BatchFailsKeeps == ASSUME IInv, NEW p \in Publishers, BatchFails(p) PROVE IInv'
<1>1. TypeOK'
  BY BoundAssumption DEF BatchFails, Fault, Release, NoMarks, IInv, TypeOK, Steps, table
<1> QED BY <1>1, ReleaseKeeps DEF BatchFails, table, IInv, PublishedWasDelivered

LEMMA StopKeeps == ASSUME IInv, NEW p \in Publishers, Stop(p) PROVE IInv'
<1>1. TypeOK'
  BY BoundAssumption DEF Stop, Fault, Release, NoMarks, IInv, TypeOK, Steps, table
<1> QED BY <1>1, ReleaseKeeps DEF Stop, table, IInv, PublishedWasDelivered

LEMMA StartKeeps == ASSUME IInv, NEW p \in Publishers, Start(p) PROVE IInv'
<1>1. TypeOK'
  BY DEF Start, IInv, TypeOK, Steps, table
<1>2. Delivered' = Delivered
  BY DEF Start, Delivered
<1>3. CurrentWasSent'
  <2>1. \A q, f : Current(q, f)' <=> Current(q, f)
    BY DEF Start, Current, Unmarked, First
  <2> QED BY <1>2, <2>1 DEF Start, IInv, TypeOK, CurrentWasSent
<1>4. RestHasNoMarks'
  BY DEF Start, IInv, TypeOK, RestHasNoMarks
<1> QED
  BY <1>1, <1>2, <1>3, <1>4 DEF Start, IInv, PublishedWasDelivered, OnlyStoredIsSent,
     OnePublisherPerEvent, BatchPending, MarkedWasSent, table

\* Every step keeps the invariant, whatever order events are stored in.
LEMMA StepKeeps ==
    ASSUME IInv,
           \/ \E e \in Events : Insert(e) \/ BecomeDue(e)
           \/ \E p \in Publishers : Work(p) \/ Fails(p)
           \/ UNCHANGED vars
    PROVE  IInv'
<1>1. ASSUME NEW e \in Events, Insert(e) \/ BecomeDue(e) PROVE IInv'
  BY <1>1, InsertKeeps, BecomeDueKeeps
<1>2. ASSUME NEW p \in Publishers, Work(p) PROVE IInv'
  BY <1>2, FetchKeeps, PublishOkKeeps, PublishErrorKeeps, MarkPublishedKeeps, MarkFailedKeeps,
     CommitKeeps, StartKeeps DEF Work
<1>3. ASSUME NEW p \in Publishers, Fails(p) PROVE IInv'
  BY <1>3, BatchFailsKeeps, StopKeeps, WriteUnacknowledgedKeeps DEF Fails
<1>4. CASE UNCHANGED vars
  <2>1. TypeOK'
    BY <1>4 DEF IInv, TypeOK, Steps, vars
  <2> QED BY <1>4, <2>1, TableStep DEF vars
<1> QED BY <1>1, <1>2, <1>3, <1>4

-----------------------------------------------------------------------------
(***************************************************************************)
(* The theorems.                                                           *)
(***************************************************************************)
\* The inductive invariant holds in every state of the relay.
THEOREM RelayInvariance == Spec => []IInv
<1>1. IInv /\ [Next]_vars => IInv'
  BY StepKeeps DEF Next, Store
<1> QED BY InitIInv, <1>1, PTL DEF Spec

\* Every variable of the relay stays in its range.
THEOREM RelayTypeCorrect == Spec => []TypeOK
<1>1. IInv => TypeOK
  BY DEF IInv
<1> QED BY RelayInvariance, <1>1, PTL

\* No event is lost: a row with published_at set is in the topic (publisher.go:86-101).
THEOREM NothingLost == Spec => []PublishedWasDelivered
<1>1. IInv => PublishedWasDelivered
  BY DEF IInv
<1> QED BY RelayInvariance, <1>1, PTL

\* FOR UPDATE SKIP LOCKED keeps publishers apart (outbox_repository.go:51).
THEOREM PublishersKeptApart == Spec => []OnePublisherPerEvent
<1>1. IInv => OnePublisherPerEvent
  BY DEF IInv
<1> QED BY RelayInvariance, <1>1, PTL

\* The steps of Publish.
Transmits(p, e) == PublishOk(p, e) \/ PublishError(p, e) \/ WriteUnacknowledged(p, e)

\* A transmission is of an event that is stored and not yet published.
LEMMA TransmissionIsPending ==
    ASSUME IInv, NEW p \in Publishers, NEW e \in Events, Transmits(p, e)
    PROVE  /\ e \in stored \ published
           /\ topic' = topic \/ topic' = Append(topic, e)
           /\ UNCHANGED <<stored, published>>
BY DEF Transmits, PublishOk, PublishError, WriteUnacknowledged, Current, Unmarked, IInv,
   BatchPending, table

\* The steps that are no transmission leave the topic alone.
LEMMA OnlyTransmissionsSend ==
    ASSUME [Next]_vars, ~ \E p \in Publishers, e \in Events : Transmits(p, e)
    PROVE  topic' = topic
BY DEF Transmits, Next, Work, Fails, Store, Insert, BecomeDue, FetchPending, MarkPublished, MarkFailed, Mark,
   Commit, BatchFails, Stop, Start, vars

\* An event whose mark is committed is never sent again (publisher.go:80, :86).
THEOREM MarkedStaysUnsent == Spec => NeverResentOnceMarked
<1>1. IInv /\ [Next]_vars => [topic' # topic => topic'[Len(topic')] \notin published]_vars
  <2> SUFFICES ASSUME IInv, [Next]_vars, topic' # topic
               PROVE  topic'[Len(topic')] \notin published
    OBVIOUS
  <2>1. PICK p \in Publishers, e \in Events : Transmits(p, e)
    BY OnlyTransmissionsSend
  <2>2. e \notin published /\ topic' = Append(topic, e)
    BY <2>1, TransmissionIsPending
  <2>3. topic'[Len(topic')] = e
    BY <2>2, TopicGrows
  <2> QED BY <2>2, <2>3
<1> QED BY RelayInvariance, <1>1, PTL DEF Spec, NeverResentOnceMarked

\* The relay implements EventRelay (publisher.go:79-105).
THEOREM ImplementsRelay == Spec => AtLeastOnce
<1>1. Init => Promise!Init
  BY DEF Init, Promise!Init
<1>2. IInv /\ IInv' /\ [Next]_vars => [Promise!Next]_Promise!vars
  <2> SUFFICES ASSUME IInv, IInv', [Next]_vars, ~ UNCHANGED <<stored, published, topic>>
               PROVE  Promise!Next
    BY DEF Promise!vars
  <2>1. ASSUME NEW e \in Events, Store(e) PROVE Promise!Next
    BY <2>1 DEF Store, Insert, Promise!Next, Promise!Insert
  <2>2. ASSUME NEW p \in Publishers, NEW e \in Events, Transmits(p, e)
        PROVE  Promise!Next
    <3>1. \/ topic' = topic
          \/ Promise!Send(e)
      BY <2>2, TransmissionIsPending DEF Promise!Send
    <3>2. UNCHANGED <<stored, published>> /\ e \in stored
      BY <2>2, TransmissionIsPending
    <3> QED BY <3>1, <3>2 DEF Promise!Next
  <2>3. ASSUME NEW p \in Publishers, Commit(p) PROVE Promise!Next
    BY <2>3 DEF Commit, IInv, PublishedWasDelivered, Delivered, Promise!Next,
       Promise!Acknowledge, Promise!Sent
  <2>4. ASSUME UNCHANGED <<stored, published, topic>> PROVE Promise!Next
    BY <2>4
  <2> QED
    BY <2>1, <2>2, <2>3, <2>4 DEF Transmits, Next, Work, Fails, BecomeDue, FetchPending, MarkPublished,
       MarkFailed, Mark, BatchFails, Stop, Start, vars, table
<1> QED BY RelayInvariance, <1>1, <1>2, PTL DEF Spec, AtLeastOnce, Promise!Spec

-----------------------------------------------------------------------------
(***************************************************************************)
(* The order of the topic, when one process publishes.  An event that was  *)
(* never in trouble is due from the moment it is stored, so a batch that   *)
(* holds a later event of its company holds it too, unless it is published *)
(* already; the batch is sent in order; and what is published is not sent  *)
(* again.  A batch that is rolled back may leave its messages in the topic *)
(* in any order: only the last transmission before the commit counts.      *)
(***************************************************************************)
OnePublisher == \A p, q \in Publishers : p = q

\* e was never in trouble and f supersedes it.
Superseded(e, f) ==
    /\ e.company = f.company
    /\ e.at < f.at
    /\ failures[e] = 0
    /\ e \notin late

\* Each e in the topic has an f after it.
Follows(f, e) == Outlasts(topic, f, e)

\* An event waits because it was stored so or because it was refused.
WaitingHasReason == \A e \in waiting : e \in late \/ failures[e] > 0

\* A mark for a failure is put on an event that has failed.
FailedHasReason ==
    \A p \in Publishers : \A e \in batch[p] :
        marks[p][e] = "failed" \/ (pc[p] = "markFailed" /\ Current(p, e)) => failures[e] > 0

\* A batch leaves nothing behind that its events supersede.
BatchIsPrefix ==
    \A p \in Publishers : \A f \in batch[p] : \A e \in stored :
        Superseded(e, f) => e \in published \cup batch[p]

\* A batch is marked in order.
MarksInOrder ==
    \A p \in Publishers : \A e, f \in batch[p] :
        marks[p][f] # "none" /\ e.at < f.at => marks[p][e] # "none"

\* p has sent f with success in the transaction that is open.
SentNow(p, f) ==
    /\ f \in batch[p]
    /\ marks[p][f] = "published" \/ (pc[p] = "markPublished" /\ Current(p, f))

SentInOrder ==
    \A p \in Publishers : \A f \in Events : SentNow(p, f) =>
        \A e \in stored : Superseded(e, f) => Follows(f, e)

PublishedInOrder ==
    \A f \in published : \A e \in stored :
        Superseded(e, f) => e \in published /\ Follows(f, e)

OrderInv == /\ published \subseteq stored
            /\ WaitingHasReason
            /\ FailedHasReason
            /\ BatchIsPrefix
            /\ MarksInOrder
            /\ SentInOrder
            /\ PublishedInOrder

\* Stamps are numbers.
LEMMA StampType == \A e \in Events : e.at \in Nat
BY EventAssumption

\* The loop handles the oldest event of the batch that is left.
LEMMA CurrentIsFirst ==
    ASSUME TypeOK, NEW p \in Publishers, NEW e, Current(p, e)
    PROVE  \A f \in Unmarked(p) : e.at <= f.at
<1>1. Unmarked(p) \subseteq Events /\ e \in Unmarked(p)
  BY DEF TypeOK, Unmarked, Current
<1> DEFINE T == {f.at : f \in Unmarked(p)}
<1>2. T \subseteq Nat /\ T # {}
  BY <1>1, StampType
<1>3. PICK n \in T : \A y \in T : n <= y
  <2> HIDE DEF T
  <2> QED BY <1>2, Least
<1>4. \E g \in Unmarked(p) : \A f \in Unmarked(p) : g.at <= f.at
  BY <1>3
<1> QED BY <1>4 DEF Current, First

\* What is marked before the current event is not later.
LEMMA MarkedIsNotLater ==
    ASSUME TypeOK, MarksInOrder, NEW p \in Publishers, NEW e, Current(p, e),
           NEW f \in batch[p], marks[p][f] # "none"
    PROVE  ~ (e.at < f.at)
BY DEF MarksInOrder, Current, Unmarked

\* Trouble is not forgotten.
LEMMA SupersededBefore ==
    ASSUME NEW e, NEW f, Superseded(e, f)',
           late \subseteq late', failures'[e] = 0 => failures[e] = 0
    PROVE  Superseded(e, f)
BY DEF Superseded

\* Steps that send nothing and mark nothing.
LEMMA QuietOrder ==
    ASSUME OrderInv, UNCHANGED <<published, batch, marks, pc, topic, failures, late, stored>>,
           waiting' \subseteq waiting
    PROVE  OrderInv'
<1>1. \A p, e : Current(p, e)' <=> Current(p, e)
  BY DEF Current, Unmarked, First
<1>2. \A p, f : SentNow(p, f)' <=> SentNow(p, f)
  BY <1>1 DEF SentNow
<1>3. \A e, f : Superseded(e, f)' <=> Superseded(e, f)
  BY DEF Superseded
<1>4. \A e, f : Follows(f, e)' <=> Follows(f, e)
  BY DEF Follows
<1>5. WaitingHasReason' /\ FailedHasReason'
  BY <1>1 DEF OrderInv, WaitingHasReason, FailedHasReason
<1>6. BatchIsPrefix' /\ MarksInOrder' /\ SentInOrder' /\ PublishedInOrder'
  BY <1>2, <1>3, <1>4 DEF OrderInv, BatchIsPrefix, MarksInOrder, SentInOrder, PublishedInOrder
<1> QED BY <1>5, <1>6 DEF OrderInv

\* An event that is stored now is superseded by none that is there
\* (service.go:148 takes its stamp under the row's lock).
LEMMA StoreOrder ==
    ASSUME IInv, OrderInv, NEW e \in Events, Store(e)
    PROVE  OrderInv'
<1>1. /\ TypeOK
      /\ stored' = stored \cup {e}
      /\ UNCHANGED <<published, batch, marks, pc, topic, failures>>
      /\ \/ UNCHANGED <<waiting, late>>
         \/ waiting' = waiting \cup {e} /\ late' = late \cup {e}
  BY DEF IInv, Store, Insert
<1>2. \A f \in stored : f.company = e.company => f.at < e.at
  BY DEF Store, Newest
<1>3. ASSUME NEW f \in stored, NEW g \in stored', Superseded(g, f)'
      PROVE  g \in stored /\ Superseded(g, f)
  <2>1. g # e
    <3>1. e.at \in Nat /\ f.at \in Nat
      BY <1>1, StampType DEF TypeOK
    <3> QED BY <1>2, <1>3, <3>1 DEF Superseded
  <2> QED BY <1>1, <1>3, <2>1 DEF Superseded
<1>4. \A p, f : Current(p, f)' <=> Current(p, f)
  BY <1>1 DEF Current, Unmarked, First
<1>5. \A p, f : SentNow(p, f)' <=> SentNow(p, f)
  BY <1>1, <1>4 DEF SentNow
<1>6. \A g, f : Follows(f, g)' <=> Follows(f, g)
  BY <1>1 DEF Follows
<1>7. WaitingHasReason' /\ FailedHasReason'
  <2>1. WaitingHasReason'
    BY <1>1 DEF OrderInv, WaitingHasReason
  <2>2. FailedHasReason'
    BY <1>1, <1>4 DEF OrderInv, FailedHasReason
  <2> QED BY <2>1, <2>2
<1>8. BatchIsPrefix'
  BY <1>1, <1>3 DEF IInv, OrderInv, BatchPending, BatchIsPrefix
<1>9. SentInOrder'
  <2>1. \A p \in Publishers : \A f : SentNow(p, f) => f \in stored
    BY DEF SentNow, IInv, BatchPending
  <2> SUFFICES ASSUME NEW p \in Publishers, NEW f \in Events, SentNow(p, f),
                      NEW g \in stored', Superseded(g, f)'
               PROVE  Follows(f, g)
    BY <1>5, <1>6 DEF SentInOrder
  <2>2. g \in stored /\ Superseded(g, f)
    BY <1>3, <2>1
  <2> QED BY <2>2 DEF OrderInv, SentInOrder
<1>10. PublishedInOrder'
  BY <1>1, <1>3, <1>6 DEF OrderInv, PublishedInOrder
<1> QED BY <1>1, <1>7, <1>8, <1>9, <1>10 DEF OrderInv, MarksInOrder

\* The one publisher takes the oldest due events, and an event without trouble
\* is due (outbox_repository.go:48-51).
LEMMA FetchOrder ==
    ASSUME OnePublisher, IInv, OrderInv, NEW p \in Publishers, FetchPending(p)
    PROVE  OrderInv'
<1>1. TypeOK /\ \A q \in Publishers : q = p
  BY DEF IInv, OnePublisher
<1>2. PICK b \in SUBSET Due(p) : IsFirstBatch(b, Due(p)) /\ batch' = [batch EXCEPT ![p] = b]
  <2>1. Scanned(p) = {Due(p)}
    BY <1>1 DEF Scanned
  <2> QED BY <2>1 DEF FetchPending
<1>3. /\ UNCHANGED <<table, marks, topic, failures>>
      /\ pc' = [pc EXCEPT ![p] = "publish"]
      /\ marks[p] = NoMarks
  BY DEF FetchPending, IInv, RestHasNoMarks
<1>4. batch'[p] = b /\ pc'[p] = "publish" /\ b \subseteq stored /\ b \subseteq Events
  BY <1>1, <1>2, <1>3 DEF TypeOK, Due
<1>5. \A e \in b : marks'[p][e] = "none"
  BY <1>3, <1>4 DEF NoMarks
<1>6. BatchIsPrefix'
  <2> SUFFICES ASSUME NEW f \in b, NEW e \in stored, Superseded(e, f)
               PROVE  e \in published \cup b
    BY <1>1, <1>3, <1>4 DEF BatchIsPrefix, Superseded, table
  <2>1. e \notin waiting
    BY StampType DEF Superseded, OrderInv, WaitingHasReason, IInv, TypeOK
  <2>2. LockedByOthers(p) = {}
    BY <1>1 DEF LockedByOthers
  <2>3. e \notin published => e \in Due(p)
    BY <2>1, <2>2 DEF Due
  <2>4. e \in Due(p) \ b => f.at <= e.at
    BY <1>2 DEF IsFirstBatch
  <2>5. e.at < f.at /\ e.at \in Nat /\ f.at \in Nat
    BY <1>1, <1>4, StampType DEF Superseded, TypeOK
  <2> QED BY <2>3, <2>4, <2>5
<1>7. FailedHasReason' /\ MarksInOrder'
  BY <1>1, <1>4, <1>5 DEF FailedHasReason, MarksInOrder
<1>8. \A f : ~ SentNow(p, f)'
  BY <1>4, <1>5 DEF SentNow
<1>9. WaitingHasReason' /\ SentInOrder' /\ PublishedInOrder'
  BY <1>1, <1>3, <1>8 DEF OrderInv, WaitingHasReason, SentInOrder, PublishedInOrder, Superseded,
     Follows, table
<1> QED BY <1>3, <1>6, <1>7, <1>9 DEF OrderInv, table

\* A transmission of e, whether Publish succeeds or fails.  Nothing e supersedes
\* is affected, because what e is superseded by was not sent before it in this
\* transaction, and is not published.
LEMMA TransmitOrder ==
    ASSUME OnePublisher, IInv, OrderInv, NEW p \in Publishers, NEW e \in Events,
           Current(p, e), pc[p] = "publish", NEW s \in {"publish", "markPublished", "markFailed"},
           pc' = [pc EXCEPT ![p] = s],
           topic' = topic \/ topic' = Append(topic, e),
           s = "markPublished" => topic' = Append(topic, e),
           s # "markFailed" => UNCHANGED failures,
           s = "markFailed" => failures' = [failures EXCEPT ![e] = Increment(@)],
           UNCHANGED <<table, batch, marks>>
    PROVE  OrderInv'
<1>1. /\ TypeOK
      /\ \A q \in Publishers : q = p
      /\ topic \in Seq(Events)
      /\ pc'[p] = s
      /\ UNCHANGED <<stored, published, waiting, late, batch, marks>>
      /\ e \in batch[p]
      /\ e \notin published
      /\ marks[p][e] = "none"
  BY DEF IInv, TypeOK, OnePublisher, table, Current, Unmarked, BatchPending
<1>2. \A q, f : Current(q, f)' <=> Current(q, f)
  BY <1>1 DEF Current, Unmarked, First
<1>4. s = "markFailed" => failures'[e] > 0
  <2>1. failures[e] \in 0..MaxAttempts
    BY <1>1 DEF TypeOK
  <2>2. Increment(failures[e]) > 0
    BY <2>1, BoundAssumption DEF Increment
  <2> QED BY <1>1, <2>2 DEF TypeOK
<1>3. \A f \in Events : failures[f] > 0 => failures'[f] > 0
  <2>1. CASE s # "markFailed"
    BY <2>1
  <2>2. CASE s = "markFailed"
    <3>1. \A f \in Events \ {e} : failures'[f] = failures[f]
      BY <1>1, <2>2 DEF TypeOK
    <3> QED BY <1>4, <2>2, <3>1
  <2> QED BY <2>1, <2>2
<1>5. ASSUME NEW g \in Events, NEW f, Superseded(g, f)' PROVE Superseded(g, f)
  <2>1. failures'[g] = 0 => failures[g] = 0
    BY <1>1, <1>3 DEF TypeOK
  <2> QED BY <1>1, <1>5, <2>1, SupersededBefore
<1>6. WaitingHasReason' /\ FailedHasReason'
  <2>1. WaitingHasReason'
    BY <1>1, <1>3 DEF OrderInv, WaitingHasReason, TypeOK
  <2>2. ASSUME NEW f \in batch[p], marks[p][f] = "failed" PROVE failures'[f] > 0
    BY <1>1, <1>3, <2>2 DEF OrderInv, FailedHasReason, TypeOK
  <2>3. ASSUME NEW f \in batch[p], s = "markFailed", Current(p, f) PROVE failures'[f] > 0
    BY <1>4, <2>3 DEF Current
  <2> QED BY <1>1, <1>2, <2>1, <2>2, <2>3 DEF FailedHasReason
<1>7. BatchIsPrefix'
  BY <1>1, <1>5 DEF OrderInv, BatchIsPrefix, TypeOK
<1>8. MarksInOrder'
  BY <1>1 DEF OrderInv, MarksInOrder
<1>9. ASSUME NEW f, NEW g \in Events, g # e, Follows(f, g) PROVE Follows(f, g)'
  BY <1>1, <1>9, OutlastsStays DEF Follows
<1>10. SentInOrder'
  <2> SUFFICES ASSUME NEW f \in batch[p],
                      marks[p][f] = "published" \/ (s = "markPublished" /\ Current(p, f)),
                      NEW g \in stored, Superseded(g, f)'
               PROVE  Follows(f, g)'
    BY <1>1, <1>2 DEF SentInOrder, SentNow
  <2>1. Superseded(g, f) /\ g \in Events /\ f \in Events
    BY <1>1, <1>5 DEF TypeOK
  <2>2. g.at < f.at /\ g.at \in Nat /\ f.at \in Nat
    BY <2>1, StampType DEF Superseded
  <2>3. CASE marks[p][f] = "published"
    <3>1. Follows(f, g)
      BY <2>1, <2>3 DEF OrderInv, SentInOrder, SentNow
    <3>2. g # e
      BY <1>1, <2>2, <2>3, MarkedIsNotLater DEF OrderInv
    <3> QED BY <1>9, <2>1, <3>1, <3>2
  <2>4. CASE s = "markPublished" /\ Current(p, f)
    <3>1. f = e
      BY <2>4 DEF Current
    <3>2. g # e
      BY <2>2, <3>1
    <3> QED BY <1>1, <2>4, <3>1, <3>2, NewestOutlasts DEF Follows
  <2> QED BY <2>3, <2>4
<1>11. PublishedInOrder'
  <2> SUFFICES ASSUME NEW f \in published, NEW g \in stored, Superseded(g, f)'
               PROVE  g \in published /\ Follows(f, g)'
    BY <1>1 DEF PublishedInOrder
  <2>1. Superseded(g, f) /\ g \in Events
    BY <1>1, <1>5 DEF TypeOK
  <2>2. g \in published /\ Follows(f, g)
    BY <2>1 DEF OrderInv, PublishedInOrder
  <2> QED BY <1>1, <1>9, <2>1, <2>2
<1> QED BY <1>1, <1>6, <1>7, <1>8, <1>10, <1>11 DEF OrderInv

\* The oldest unmarked event is marked for what happened to it.
LEMMA MarkOrder ==
    ASSUME OnePublisher, IInv, OrderInv, NEW p \in Publishers, NEW e \in Events,
           MarkPublished(p, e) \/ MarkFailed(p, e)
    PROVE  OrderInv'
<1> DEFINE m == IF pc[p] = "markPublished" THEN "published" ELSE "failed"
<1>1. /\ TypeOK
      /\ \A q \in Publishers : q = p
      /\ Current(p, e)
      /\ marks' = [marks EXCEPT ![p][e] = m]
      /\ pc[p] \in {"markPublished", "markFailed"}
      /\ pc'[p] \in {"commit", "publish"}
      /\ UNCHANGED <<stored, published, waiting, late, batch, topic, failures>>
  BY DEF MarkPublished, MarkFailed, Mark, IInv, TypeOK, OnePublisher, table
<1>2. /\ marks'[p][e] = m
      /\ \A f \in Events \ {e} : marks'[p][f] = marks[p][f]
  BY <1>1 DEF TypeOK
<1>3. \A f, g : /\ Superseded(g, f)' <=> Superseded(g, f)
                /\ Follows(f, g)' <=> Follows(f, g)
  BY <1>1 DEF Superseded, Follows
<1>4. \A f : SentNow(p, f)' => SentNow(p, f)
  <2> SUFFICES ASSUME NEW f \in batch[p], marks'[p][f] = "published" PROVE SentNow(p, f)
    BY <1>1 DEF SentNow
  <2>1. CASE f = e
    BY <1>1, <1>2, <2>1 DEF SentNow
  <2>2. CASE f # e
    BY <1>1, <1>2, <2>2 DEF SentNow, TypeOK
  <2> QED BY <2>1, <2>2
<1>5. FailedHasReason'
  <2> SUFFICES ASSUME NEW f \in batch[p], marks'[p][f] = "failed" PROVE failures[f] > 0
    BY <1>1 DEF FailedHasReason
  <2>1. CASE f = e
    BY <1>1, <1>2, <2>1 DEF OrderInv, FailedHasReason
  <2>2. CASE f # e
    BY <1>1, <1>2, <2>2 DEF OrderInv, FailedHasReason, TypeOK
  <2> QED BY <2>1, <2>2
<1>6. MarksInOrder'
  <2> SUFFICES ASSUME NEW f \in batch[p], NEW g \in batch[p],
                      marks'[p][f] # "none", g.at < f.at
               PROVE  marks'[p][g] # "none"
    BY <1>1 DEF MarksInOrder
  <2>1. CASE g = e
    BY <1>1, <1>2, <2>1
  <2>2. CASE g # e /\ f # e
    BY <1>1, <1>2, <2>2 DEF OrderInv, MarksInOrder, TypeOK
  <2>3. CASE g # e /\ f = e
    <3>1. g \notin Unmarked(p)
      <4>1. ~ (e.at <= g.at)
        BY <1>1, <2>3, StampType DEF TypeOK
      <4> QED BY <1>1, <4>1, CurrentIsFirst
    <3> QED BY <1>1, <1>2, <2>3, <3>1 DEF Unmarked, TypeOK
  <2> QED BY <2>1, <2>2, <2>3
<1>7. WaitingHasReason' /\ BatchIsPrefix' /\ SentInOrder' /\ PublishedInOrder'
  <2>1. WaitingHasReason' /\ BatchIsPrefix' /\ PublishedInOrder'
    BY <1>1, <1>3 DEF OrderInv, WaitingHasReason, BatchIsPrefix, PublishedInOrder
  <2>2. SentInOrder'
    BY <1>1, <1>3, <1>4 DEF OrderInv, SentInOrder
  <2> QED BY <2>1, <2>2
<1> QED BY <1>1, <1>5, <1>6, <1>7 DEF OrderInv

\* The marks of a batch take effect together.
LEMMA CommitOrder ==
    ASSUME OnePublisher, IInv, OrderInv, NEW p \in Publishers, Commit(p)
    PROVE  OrderInv'
<1>1. /\ TypeOK
      /\ \A q \in Publishers : q = p
      /\ published' = published \cup Marked(p, "published")
      /\ waiting' = waiting \cup Marked(p, "failed")
      /\ batch'[p] = {}
      /\ UNCHANGED <<stored, late, topic, failures>>
  BY DEF Commit, Release, IInv, TypeOK, OnePublisher
<1>2. \A f, g : /\ Superseded(g, f)' <=> Superseded(g, f)
                /\ Follows(f, g)' <=> Follows(f, g)
  BY <1>1 DEF Superseded, Follows
<1>3. published' \subseteq stored'
  BY <1>1 DEF Marked, OrderInv, IInv, BatchPending
<1>4. WaitingHasReason'
  <2>1. \A f \in Marked(p, "failed") : failures[f] > 0
    BY DEF Marked, OrderInv, FailedHasReason
  <2> QED BY <1>1, <2>1 DEF OrderInv, WaitingHasReason
<1>5. FailedHasReason' /\ BatchIsPrefix' /\ MarksInOrder' /\ SentInOrder'
  BY <1>1 DEF FailedHasReason, BatchIsPrefix, MarksInOrder, SentInOrder, SentNow
<1>6. PublishedInOrder'
  <2> SUFFICES ASSUME NEW f \in published', NEW g \in stored, Superseded(g, f)
               PROVE  g \in published' /\ Follows(f, g)
    BY <1>1, <1>2 DEF PublishedInOrder
  <2>1. CASE f \in published
    BY <1>1, <2>1 DEF OrderInv, PublishedInOrder
  <2>2. CASE f \in Marked(p, "published")
    <3>1. f \in batch[p] /\ marks[p][f] = "published" /\ f \in Events /\ g \in Events
      BY <1>1, <2>2 DEF Marked, TypeOK
    <3>2. Follows(f, g)
      BY <3>1 DEF OrderInv, SentInOrder, SentNow
    <3>3. g \in published \cup batch[p]
      BY <3>1 DEF OrderInv, BatchIsPrefix
    <3>4. ASSUME g \in batch[p] PROVE g \in Marked(p, "published")
      <4>1. marks[p][g] # "none"
        BY <3>1, <3>4 DEF OrderInv, MarksInOrder, Superseded
      <4>2. marks[p][g] # "failed"
        <5>1. failures[g] = 0
          BY DEF Superseded
        <5> QED BY <3>4, <5>1 DEF OrderInv, FailedHasReason
      <4>3. marks[p][g] \in {"none", "published", "failed"}
        BY <1>1, <3>1 DEF TypeOK
      <4> QED BY <3>4, <4>1, <4>2, <4>3 DEF Marked
    <3> QED BY <1>1, <3>2, <3>3, <3>4
  <2> QED BY <1>1, <2>1, <2>2
<1> QED BY <1>3, <1>4, <1>5, <1>6 DEF OrderInv

\* A batch that is rolled back leaves nothing to mark.
LEMMA EmptyBatchOrder ==
    ASSUME OnePublisher, OrderInv, NEW p \in Publishers, batch'[p] = {},
           UNCHANGED <<stored, published, waiting, late, topic, failures>>
    PROVE  OrderInv'
<1>1. \A q \in Publishers : q = p
  BY DEF OnePublisher
<1>2. FailedHasReason' /\ BatchIsPrefix' /\ MarksInOrder' /\ SentInOrder'
  BY <1>1 DEF FailedHasReason, BatchIsPrefix, MarksInOrder, SentInOrder, SentNow
<1>3. WaitingHasReason'
  BY DEF OrderInv, WaitingHasReason
<1>4. PublishedInOrder'
  BY DEF OrderInv, PublishedInOrder, Superseded, Follows
<1> QED BY <1>2, <1>3, <1>4 DEF OrderInv

\* A publisher that starts has sent nothing and marked nothing.
LEMMA StartOrder ==
    ASSUME OnePublisher, IInv, OrderInv, NEW p \in Publishers, Start(p)
    PROVE  OrderInv'
<1>1. /\ \A q \in Publishers : q = p
      /\ pc[p] = "down" /\ pc'[p] = "idle"
      /\ UNCHANGED <<stored, published, waiting, late, batch, marks, topic, failures>>
  BY DEF Start, OnePublisher, IInv, TypeOK, table
<1>2. \A f : SentNow(p, f)' <=> SentNow(p, f)
  BY <1>1 DEF SentNow
<1>3. \A e, f : /\ Superseded(e, f)' <=> Superseded(e, f)
                /\ Follows(f, e)' <=> Follows(f, e)
  BY <1>1 DEF Superseded, Follows
<1>4. FailedHasReason' /\ WaitingHasReason'
  BY <1>1 DEF OrderInv, FailedHasReason, WaitingHasReason
<1>5. BatchIsPrefix' /\ MarksInOrder' /\ SentInOrder' /\ PublishedInOrder'
  BY <1>1, <1>2, <1>3 DEF OrderInv, BatchIsPrefix, MarksInOrder, SentInOrder, PublishedInOrder
<1> QED BY <1>1, <1>4, <1>5 DEF OrderInv

\* In the beginning there is nothing to order.
LEMMA InitOrder == Init => OrderInv
BY DEF Init, OrderInv, WaitingHasReason, FailedHasReason, BatchIsPrefix, MarksInOrder,
   SentInOrder, SentNow, PublishedInOrder

\* Every step of the one publisher keeps the order.
LEMMA NextOrder ==
    ASSUME OnePublisher, IInv, OrderInv, [Next]_vars
    PROVE  OrderInv'
<1>1. ASSUME NEW e \in Events, Store(e) PROVE OrderInv'
  BY <1>1, StoreOrder
<1>2. ASSUME NEW e \in Events, BecomeDue(e) PROVE OrderInv'
  <2>1. /\ UNCHANGED <<published, batch, marks, pc, topic, failures, late, stored>>
        /\ waiting' \subseteq waiting
    BY <1>2 DEF BecomeDue
  <2> QED BY <2>1, QuietOrder
<1>3. ASSUME NEW p \in Publishers, FetchPending(p) PROVE OrderInv'
  BY <1>3, FetchOrder
<1>4. ASSUME NEW p \in Publishers, NEW e \in Events, PublishOk(p, e) PROVE OrderInv'
  <2>1. /\ Current(p, e) /\ pc[p] = "publish" /\ topic' = Append(topic, e)
        /\ pc' = [pc EXCEPT ![p] = "markPublished"]
        /\ UNCHANGED <<table, batch, marks>> /\ UNCHANGED failures
    BY <1>4 DEF PublishOk
  <2> QED BY <2>1, TransmitOrder
<1>5. ASSUME NEW p \in Publishers, NEW e \in Events, PublishError(p, e) PROVE OrderInv'
  <2>1. /\ Current(p, e) /\ pc[p] = "publish"
        /\ topic' = topic \/ topic' = Append(topic, e)
        /\ pc' = [pc EXCEPT ![p] = "markFailed"]
        /\ failures' = [failures EXCEPT ![e] = Increment(@)]
        /\ UNCHANGED <<table, batch, marks>>
    BY <1>5 DEF PublishError
  <2> QED BY <2>1, TransmitOrder
<1>11. ASSUME NEW p \in Publishers, NEW e \in Events, WriteUnacknowledged(p, e) PROVE OrderInv'
  <2>1. /\ Current(p, e) /\ pc[p] = "publish" /\ topic' = Append(topic, e)
        /\ pc' = [pc EXCEPT ![p] = "publish"]
        /\ UNCHANGED <<table, batch, marks>> /\ UNCHANGED failures
    BY <1>11 DEF WriteUnacknowledged, IInv, TypeOK
  <2> QED BY <2>1, TransmitOrder
<1>6. ASSUME NEW p \in Publishers, NEW e \in Events, MarkPublished(p, e) \/ MarkFailed(p, e)
      PROVE  OrderInv'
  BY <1>6, MarkOrder
<1>7. ASSUME NEW p \in Publishers, Commit(p) PROVE OrderInv'
  BY <1>7, CommitOrder
<1>8. ASSUME NEW p \in Publishers, BatchFails(p) \/ Stop(p) PROVE OrderInv'
  <2>1. batch'[p] = {} /\ UNCHANGED <<stored, published, waiting, late, topic, failures>>
    BY <1>8 DEF BatchFails, Stop, Release, table, IInv, TypeOK
  <2> QED BY <2>1, EmptyBatchOrder
<1>9. ASSUME NEW p \in Publishers, Start(p) PROVE OrderInv'
  BY <1>9, StartOrder
<1>10. CASE UNCHANGED vars
  BY <1>10, QuietOrder DEF vars
<1> QED
  BY <1>1, <1>2, <1>3, <1>4, <1>5, <1>6, <1>7, <1>8, <1>9, <1>10, <1>11 DEF Next, Work, Fails

\* The order of the topic is kept, if one process publishes.
LEMMA OrderInvariance == OnePublisher => (Spec => [](IInv /\ OrderInv))
<1> SUFFICES ASSUME OnePublisher PROVE Spec => [](IInv /\ OrderInv)
  OBVIOUS
<1>1. Init => OrderInv
  BY InitOrder
<1>2. IInv /\ OrderInv /\ [Next]_vars => OrderInv'
  BY NextOrder
<1> QED BY RelayInvariance, <1>1, <1>2, PTL DEF Spec

\* However often batches are rolled back, repeated or interrupted, a consumer who
\* keeps the last message of each company is never left with an event that was
\* never in trouble and that a later published one supersedes, as long as one
\* process publishes (outbox_repository.go:49).
THEOREM LastMessageIsNewest == OnePublisher => (Spec => []LastMessageWins)
<1>1. ASSUME IInv, OrderInv PROVE LastMessageWins
  <2> SUFFICES ASSUME NEW e \in published, NEW f \in published,
                      e.company = f.company, e.at < f.at, failures[e] = 0, e \notin late
               PROVE  LastIndex(e) < LastIndex(f)
    BY DEF LastMessageWins
  <2>1. topic \in Seq(Events) /\ e \in Elements(topic) /\ f \in Elements(topic)
    BY <1>1 DEF IInv, TypeOK, PublishedWasDelivered, Delivered, Elements
  <2>2. \A x \in {e, f} :
           /\ LastIndex(x) \in 1..Len(topic)
           /\ topic[LastIndex(x)] = x
           /\ \A j \in LastIndex(x) + 1..Len(topic) : topic[j] # x
    BY <2>1, LastPosition DEF LastIndex
  <2>3. Follows(f, e)
    BY <1>1 DEF OrderInv, PublishedInOrder, Superseded
  <2>4. PICK j \in LastIndex(e) + 1..Len(topic) : topic[j] = f
    BY <2>2, <2>3 DEF Follows, Outlasts
  <2>5. ~ (j \in LastIndex(f) + 1..Len(topic))
    BY <2>2, <2>4
  <2> QED BY <2>1, <2>2, <2>4, <2>5
<1> QED BY OrderInvariance, <1>1, PTL

-----------------------------------------------------------------------------
(***************************************************************************)
(* How often an event is sent.  A transmission that nobody takes back is   *)
(* remembered, first by the open transaction and then by published_at, and *)
(* a remembered event is not sent again; what is forgotten was forgotten   *)
(* by a failure.                                                           *)
(***************************************************************************)
\* A message of e is accounted for by the table or by an open transaction.
Remembered(e) == e \in published \/ \E p \in Publishers : SentNow(p, e)

\* Each message of e but a remembered one took a failure.
CopiesCounted ==
    \A e \in Events : /\ Cardinality(Copies(e)) <= faults + 1
                      /\ ~ Remembered(e) => Cardinality(Copies(e)) <= faults

CopiesInv == IInv /\ CopiesCounted

\* The messages of an event can be counted.
LEMMA CopiesType ==
    ASSUME TypeOK, NEW e \in Events
    PROVE  Cardinality(Copies(e)) \in Nat /\ faults \in Nat
<1>1. Copies(e) = Places(topic, e)
  BY DEF Copies, Places
<1>2. topic \in Seq(Events) /\ faults \in Nat
  BY BoundAssumption DEF TypeOK
<1> QED BY <1>1, <1>2, PlacesFinite

\* Where nothing is sent, an event may only be forgotten at the price of a failure.
LEMMA SilentCounts ==
    ASSUME CopiesInv, topic' = topic, faults' \in Nat, faults' >= faults,
           \A e \in Events : Remembered(e) => Remembered(e)' \/ faults' > faults
    PROVE  CopiesCounted'
<1> SUFFICES ASSUME NEW e \in Events
             PROVE  /\ Cardinality(Copies(e))' <= faults' + 1
                    /\ ~ Remembered(e)' => Cardinality(Copies(e))' <= faults'
  BY DEF CopiesCounted
<1>1. Copies(e)' = Copies(e)
  BY DEF Copies
<1>2. Cardinality(Copies(e)) \in Nat /\ faults \in Nat
  BY CopiesType DEF CopiesInv, IInv
<1>3. /\ Cardinality(Copies(e)) <= faults + 1
      /\ ~ Remembered(e) => Cardinality(Copies(e)) <= faults
  BY DEF CopiesInv, CopiesCounted
<1> QED BY <1>1, <1>2, <1>3

\* The loop never comes to an event that is remembered.
LEMMA CurrentIsForgotten ==
    ASSUME IInv, NEW p \in Publishers, NEW e \in Events, pc[p] = "publish", Current(p, e)
    PROVE  ~ Remembered(e)
<1>1. e \in batch[p] /\ marks[p][e] = "none" /\ e \notin published
  BY DEF Current, Unmarked, IInv, BatchPending
<1>2. ASSUME NEW q \in Publishers, SentNow(q, e) PROVE FALSE
  <2>1. q = p
    BY <1>1, <1>2 DEF SentNow, IInv, OnePublisherPerEvent
  <2> QED BY <1>1, <1>2, <2>1 DEF SentNow
<1> QED BY <1>1, <1>2 DEF Remembered

\* A transmission is remembered, or it counts as a failure.
LEMMA TransmissionCounts ==
    ASSUME CopiesInv, NEW p \in Publishers, NEW e \in Events,
           Transmits(p, e)
    PROVE  CopiesCounted'
<1>1. /\ pc[p] = "publish" /\ Current(p, e)
      /\ UNCHANGED <<published, batch, marks>>
      /\ TypeOK /\ topic \in Seq(Events) /\ faults \in Nat
  BY BoundAssumption DEF Transmits, PublishOk, PublishError, WriteUnacknowledged, table,
     CopiesInv, IInv, TypeOK
<1>2. ~ Remembered(e)
  BY <1>1, CurrentIsForgotten DEF CopiesInv
<1>3. \/ /\ topic' = Append(topic, e)
         /\ faults' = faults
         /\ pc'[p] = "markPublished"
      \/ /\ topic' \in {topic, Append(topic, e)}
         /\ faults' = faults + 1
      \/ topic' = topic /\ faults' = faults
  BY DEF Transmits, PublishOk, PublishError, WriteUnacknowledged, Fault, CopiesInv, IInv, TypeOK
<1>4. \A q, f : Current(q, f)' <=> Current(q, f)
  BY <1>1 DEF Current, Unmarked, First
<1>5. \A q \in Publishers, f \in Events : SentNow(q, f) => SentNow(q, f)'
  <2> SUFFICES ASSUME NEW q \in Publishers, NEW f \in Events, SentNow(q, f)
               PROVE  SentNow(q, f)'
    OBVIOUS
  <2>1. CASE q = p
    BY <1>1, <2>1 DEF SentNow
  <2>2. CASE q # p
    <3>1. pc'[q] = pc[q]
      BY <2>2 DEF Transmits, PublishOk, PublishError, WriteUnacknowledged, CopiesInv, IInv, TypeOK
    <3> QED BY <1>1, <1>4, <3>1 DEF SentNow
  <2> QED BY <2>1, <2>2
<1>6. \A f \in Events : Remembered(f) => Remembered(f)'
  BY <1>1, <1>5 DEF Remembered
<1>7. pc'[p] = "markPublished" => Remembered(e)'
  BY <1>1, <1>4 DEF Remembered, SentNow, Current, Unmarked
<1>8. CASE topic' = topic
  <2>1. faults' \in Nat /\ faults' >= faults
    BY <1>1, <1>3
  <2> QED BY <1>6, <1>8, <2>1, SilentCounts
<1>9. CASE topic' # topic
  <2>1. topic' = Append(topic, e)
    BY <1>3, <1>9
  <2>2. /\ Cardinality(Copies(e))' = Cardinality(Copies(e)) + 1
        /\ \A f : f # e => Copies(f)' = Copies(f)
    <3>1. \A f : Copies(f) = Places(topic, f) /\ Copies(f)' = Places(topic', f)
      BY DEF Copies, Places
    <3>2. /\ Cardinality(Places(topic', e)) = Cardinality(Places(topic, e)) + 1
          /\ \A f : f # e => Places(topic', f) = Places(topic, f)
      BY <1>1, <2>1, AppendCounts
    <3>3. /\ Cardinality(Copies(e)) = Cardinality(Places(topic, e))
          /\ Cardinality(Copies(e))' = Cardinality(Places(topic', e))
      BY <3>1
    <3> QED BY <3>1, <3>2, <3>3
  <2>3. ASSUME NEW f \in Events, f # e
        PROVE  /\ Cardinality(Copies(f))' <= faults' + 1
               /\ ~ Remembered(f)' => Cardinality(Copies(f))' <= faults'
    <3>1. Copies(f)' = Copies(f)
      BY <2>2, <2>3
    <3>2. Cardinality(Copies(f)) \in Nat
      BY <1>1, CopiesType
    <3>3. /\ Cardinality(Copies(f)) <= faults + 1
          /\ ~ Remembered(f) => Cardinality(Copies(f)) <= faults
      BY DEF CopiesInv, CopiesCounted
    <3>4. faults' \in {faults, faults + 1} /\ (Remembered(f) => Remembered(f)')
      BY <1>3, <1>6
    <3> QED BY <1>1, <3>1, <3>2, <3>3, <3>4
  <2>4. /\ Cardinality(Copies(e))' <= faults' + 1
        /\ ~ Remembered(e)' => Cardinality(Copies(e))' <= faults'
    <3>1. Cardinality(Copies(e)) \in Nat /\ Cardinality(Copies(e)) <= faults
      BY <1>1, <1>2, CopiesType DEF CopiesInv, CopiesCounted
    <3>2. CASE faults' = faults /\ pc'[p] = "markPublished"
      BY <1>1, <1>7, <2>2, <3>1, <3>2
    <3>3. CASE faults' = faults + 1
      BY <1>1, <2>2, <3>1, <3>3
    <3> QED BY <1>3, <1>9, <3>2, <3>3
  <2> QED BY <2>3, <2>4 DEF CopiesCounted
<1> QED BY <1>8, <1>9

\* A mark that is written, and one that is committed, remember what was sent.
LEMMA MarksRemember ==
    ASSUME CopiesInv, NEW p \in Publishers,
           (\E e \in Events : MarkPublished(p, e) \/ MarkFailed(p, e)) \/ Commit(p)
    PROVE  CopiesCounted'
<1>1. /\ TypeOK /\ faults \in Nat
      /\ topic' = topic /\ faults' = faults
      /\ published \subseteq published'
  BY BoundAssumption DEF CopiesInv, IInv, TypeOK, MarkPublished, MarkFailed, Mark, Commit, table
<1>2. \A q \in Publishers \ {p} :
         pc'[q] = pc[q] /\ batch'[q] = batch[q] /\ marks'[q] = marks[q]
  BY <1>1 DEF TypeOK, MarkPublished, MarkFailed, Mark, Commit, Release, table
<1>3. ASSUME NEW q \in Publishers \ {p}, NEW f \in Events, SentNow(q, f)
      PROVE  SentNow(q, f)'
  BY <1>2, <1>3 DEF SentNow, Current, Unmarked, First
<1>4. ASSUME NEW f \in Events, SentNow(p, f) PROVE Remembered(f)'
  <2>1. ASSUME NEW e \in Events, MarkPublished(p, e) \/ MarkFailed(p, e)
        PROVE  SentNow(p, f)'
    <3> DEFINE m == IF pc[p] = "markPublished" THEN "published" ELSE "failed"
    <3>1. /\ Current(p, e) /\ pc[p] \in {"markPublished", "markFailed"}
          /\ marks' = [marks EXCEPT ![p][e] = m] /\ batch' = batch
      BY <2>1 DEF MarkPublished, MarkFailed, Mark, table
    <3>2. marks'[p][e] = m /\ (f # e => marks'[p][f] = marks[p][f])
      BY <1>1, <3>1 DEF TypeOK
    <3>3. CASE f = e
      <4>1. marks[p][e] = "none"
        BY <3>1 DEF Current, Unmarked
      <4> QED BY <1>4, <3>1, <3>2, <3>3, <4>1 DEF SentNow
    <3>4. CASE f # e
      <4>1. ~ Current(p, f)
        BY <3>1, <3>4 DEF Current
      <4> QED BY <1>4, <3>1, <3>2, <3>4, <4>1 DEF SentNow
    <3> QED BY <3>3, <3>4
  <2>2. CASE Commit(p)
    <3>1. f \in Marked(p, "published")
      BY <1>4, <2>2 DEF SentNow, Commit, Marked
    <3> QED BY <2>2, <3>1 DEF Commit, Remembered
  <2> QED BY <2>1, <2>2 DEF Remembered
<1>5. \A f \in Events : Remembered(f) => Remembered(f)'
  BY <1>1, <1>3, <1>4 DEF Remembered
<1> QED BY <1>1, <1>5, SilentCounts

\* Every other step sends nothing, and forgets only when it fails.
LEMMA StepCounts ==
    ASSUME CopiesInv,
           \/ \E e \in Events : Insert(e) \/ BecomeDue(e)
           \/ \E p \in Publishers : Work(p) \/ Fails(p)
           \/ UNCHANGED vars
    PROVE  CopiesCounted'
<1>1. TypeOK /\ faults \in Nat
  BY BoundAssumption DEF CopiesInv, IInv, TypeOK
<1>2. ASSUME UNCHANGED <<published, pc, batch, marks, topic, faults>> PROVE CopiesCounted'
  <2>1. \A f \in Events : Remembered(f)' <=> Remembered(f)
    BY <1>2 DEF Remembered, SentNow, Current, Unmarked, First
  <2> QED BY <1>1, <1>2, <2>1, SilentCounts
<1>3. ASSUME NEW p \in Publishers, FetchPending(p) \/ Start(p) PROVE CopiesCounted'
  <2>1. /\ pc[p] \in {"idle", "down"}
        /\ UNCHANGED <<published, marks, topic, faults>>
        /\ \A q \in Publishers \ {p} : pc'[q] = pc[q] /\ batch'[q] = batch[q]
    BY <1>1, <1>3 DEF FetchPending, Start, table, TypeOK
  <2>2. \A f \in Events : ~ SentNow(p, f)
    BY <2>1 DEF SentNow, CopiesInv, IInv, RestHasNoMarks, NoMarks
  <2>3. \A q \in Publishers \ {p}, f \in Events : SentNow(q, f) => SentNow(q, f)'
    BY <2>1 DEF SentNow, Current, Unmarked, First
  <2>4. \A f \in Events : Remembered(f) => Remembered(f)'
    BY <2>1, <2>2, <2>3 DEF Remembered
  <2> QED BY <1>1, <2>1, <2>4, SilentCounts
<1>4. ASSUME NEW p \in Publishers, BatchFails(p) \/ Stop(p) PROVE CopiesCounted'
  <2>1. topic' = topic /\ faults' = faults + 1
    BY <1>4 DEF BatchFails, Stop, Fault
  <2> QED BY <1>1, <2>1, SilentCounts
<1>5. ASSUME NEW e \in Events, Insert(e) \/ BecomeDue(e) PROVE CopiesCounted'
  BY <1>2, <1>5 DEF Insert, BecomeDue
<1>6. ASSUME NEW p \in Publishers, Work(p) PROVE CopiesCounted'
  BY <1>3, <1>6, TransmissionCounts, MarksRemember DEF Work, Transmits
<1>8. ASSUME NEW p \in Publishers, Fails(p) PROVE CopiesCounted'
  BY <1>4, <1>8, TransmissionCounts DEF Fails, Transmits
<1>7. CASE UNCHANGED vars
  BY <1>2, <1>7 DEF vars
<1> QED BY <1>5, <1>6, <1>7, <1>8

\* In the beginning nothing was sent.
LEMMA InitCounts == Init => CopiesCounted
<1> SUFFICES ASSUME Init, NEW e \in Events PROVE Cardinality(Copies(e)) = 0 /\ faults = 0
  BY DEF CopiesCounted
<1>1. Copies(e) = {}
  BY DEF Init, Copies
<1> QED BY <1>1, FS_EmptySet DEF Init

\* No event is sent more often than once and once more for each failure, whatever
\* the number of publishers and however their polls interleave: without a failure
\* the relay delivers exactly once (publisher.go:80-101, outbox_repository.go:49-51).
THEOREM RepeatsAreFailures == Spec => []RepeatsTakeFailures
<1>1. CopiesInv /\ [Next]_vars => CopiesInv'
  BY StepKeeps, StepCounts DEF Next, Store, CopiesInv
<1>2. Init => CopiesInv
  BY InitIInv, InitCounts DEF CopiesInv
<1>3. CopiesInv => RepeatsTakeFailures
  BY DEF CopiesInv, CopiesCounted, RepeatsTakeFailures
<1> QED BY <1>1, <1>2, <1>3, PTL DEF Spec
=============================================================================
