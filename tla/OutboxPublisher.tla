-------------------------- MODULE OutboxPublisher --------------------------
(***************************************************************************)
(* The relay from the outbox table to Kafka                                *)
(* (internal/infrastructure/outbox/publisher.go over                       *)
(* postgres/outbox_repository.go and events/kafka_producer.go).            *)
(*                                                                         *)
(* A publisher is the worker goroutine of one process.  It polls: in one   *)
(* transaction it locks the oldest due events, hands them to Kafka one by  *)
(* one, marks each published or failed, and commits.  What is already in   *)
(* Kafka when the transaction rolls back stays there.                      *)
(*                                                                         *)
(* An event is known by its created_at and its company.  The time of the   *)
(* database is abstracted to one bit an event: it is due (available_at <=  *)
(* now()) or it waits, and a waiting event becomes due at any moment.      *)
(***************************************************************************)
EXTENDS Integers, FiniteSets, Sequences

CONSTANTS
    Companies,     \* what the events are about
    Events,        \* the events there may be
    Publishers,    \* the processes that run a publisher
    BatchSize,     \* OUTBOX_BATCH_SIZE, 10 by default
    Poison,        \* the events Kafka refuses every time
    MaxAttempts,   \* bound: attempts and failures are counted up to here
    MaxFaults      \* bound: failures other than the refusals of Poison

ASSUME EventAssumption ==
    /\ Events \subseteq [at : Nat, company : Companies]
    /\ Poison \subseteq Events

\* NewPublisher replaces a batch size below one by 10.
ASSUME BatchAssumption == BatchSize \in Nat \ {0}

ASSUME BoundAssumption == MaxAttempts \in Nat \ {0} /\ MaxFaults \in Nat

VARIABLES
    \* the table outbox_events, committed
    stored,     \* the events inserted so far
    published,  \* those with published_at set
    attempts,   \* the column attempts
    waiting,    \* those with available_at in the future
    late,       \* those that were inserted with available_at in the future
    \* each publisher's transaction
    pc,         \* its next step
    batch,      \* the rows it has locked
    marks,      \* its uncommitted marks: "none", "published" or "failed"
    \* Kafka, and what happened to it
    topic,      \* the messages in the topic
    failures,   \* how often Publish has returned an error for each event
    faults

table == <<stored, published, attempts, waiting, late>>
vars == <<stored, published, attempts, waiting, late, pc, batch, marks, topic, failures, faults>>

NoMarks == [e \in Events |-> "none"]

Init ==
    /\ stored = {}
    /\ published = {}
    /\ attempts = [e \in Events |-> 0]
    /\ waiting = {}
    /\ late = {}
    /\ pc = [p \in Publishers |-> "idle"]
    /\ batch = [p \in Publishers |-> {}]
    /\ marks = [p \in Publishers |-> NoMarks]
    /\ topic = <<>>
    /\ failures = [e \in Events |-> 0]
    /\ faults = 0

Increment(n) == IF n < MaxAttempts THEN n + 1 ELSE n

Fault == faults < MaxFaults /\ faults' = faults + 1

-----------------------------------------------------------------------------
(***************************************************************************)
(* The table changes under the publishers.                                 *)
(***************************************************************************)
\* A request commits an event.  available_at defaults to now(), the beginning of
\* that transaction, which may lie after the beginning of a publisher's.
Insert(e) ==
    /\ stored' = stored \cup {e}
    /\ \/ UNCHANGED <<waiting, late>>
       \/ /\ waiting' = waiting \cup {e}
          /\ late' = late \cup {e}
    /\ UNCHANGED <<published, attempts, pc, batch, marks, topic, failures, faults>>

\* e is later than every stored event of its company.
Newest(e) == \A f \in stored : f.company = e.company => f.at < e.at

\* The events of one company become visible in the order of their created_at;
\* those of different companies in any order.
Store(e) == Newest(e) /\ Insert(e)

\* now() reaches available_at.
BecomeDue(e) ==
    /\ e \in waiting
    /\ waiting' = waiting \ {e}
    /\ UNCHANGED <<stored, published, attempts, late, pc, batch, marks, topic, failures, faults>>

-----------------------------------------------------------------------------
(***************************************************************************)
(* One poll of publisher p.                                                *)
(***************************************************************************)
LockedByOthers(p) == UNION {batch[q] : q \in Publishers \ {p}}

\* Slip: the batch processed outside a transaction, its rows unlocked at once.
DueUnlocked(p) == {e \in stored : e \notin published /\ e \notin waiting}

\* Slip: published_at not looked at.
DueOrPublished(p) == {e \in stored : e \notin waiting} \ LockedByOthers(p)

\* FOR UPDATE SKIP LOCKED: the rows other transactions hold are passed over.
Due(p) == {e \in stored : e \notin published /\ e \notin waiting} \ LockedByOthers(p)

\* Slip: no ORDER BY.
IsSomeBatch(b, S) ==
    /\ b \subseteq S
    /\ Cardinality(b) = IF Cardinality(S) < BatchSize THEN Cardinality(S) ELSE BatchSize

\* b is the first BatchSize of S by created_at, or all of S.
IsFirstBatch(b, S) ==
    /\ b \subseteq S
    /\ Cardinality(b) = IF Cardinality(S) < BatchSize THEN Cardinality(S) ELSE BatchSize
    /\ \A e \in b, f \in S \ b : e.at <= f.at

\* The rows the statement finds.  It locks them one by one: of the due rows it may
\* pass over some that another process holds at the moment it comes to them.
Scanned(p) == {S \in SUBSET Due(p) : S = Due(p) \/ Publishers # {p}}

\* A poll that finds nothing due changes nothing and is left out.
FetchPending(p) ==
    /\ pc[p] = "idle"
    /\ \E S \in Scanned(p) :
          /\ S # {}
          /\ \E b \in SUBSET S :
                /\ IsFirstBatch(b, S)
                /\ batch' = [batch EXCEPT ![p] = b]
    /\ pc' = [pc EXCEPT ![p] = "publish"]
    /\ UNCHANGED <<table, marks, topic, failures, faults>>

\* The rows are unlocked and the transaction is gone.
Release(p, s) ==
    /\ batch' = [batch EXCEPT ![p] = {}]
    /\ marks' = [marks EXCEPT ![p] = NoMarks]
    /\ pc' = [pc EXCEPT ![p] = s]

Unmarked(p) == {e \in batch[p] : marks[p][e] = "none"}

First(S) == CHOOSE e \in S : \A f \in S : e.at <= f.at

\* The loop over the batch is at e.
Current(p, e) == e \in Unmarked(p) /\ e = First(Unmarked(p))

\* Inside Publish, the acknowledgement of a message is lost; the writer sends it
\* again, up to its own number of attempts.
WriteUnacknowledged(p, e) ==
    /\ Fault
    /\ pc[p] = "publish"
    /\ Current(p, e)
    /\ e \notin Poison
    /\ topic' = Append(topic, e)
    /\ UNCHANGED <<table, pc, batch, marks, failures>>

\* Publish returns nil: every in-sync replica has the message.
PublishOk(p, e) ==
    /\ pc[p] = "publish"
    /\ Current(p, e)
    /\ e \notin Poison
    /\ topic' = Append(topic, e)
    /\ pc' = [pc EXCEPT ![p] = "markPublished"]
    /\ UNCHANGED <<table, batch, marks, failures, faults>>

\* Slip: an error of Publish ends the batch.
PublishErrorEndsBatch(p, e) ==
    /\ pc[p] = "publish"
    /\ Current(p, e)
    /\ \/ e \in Poison /\ UNCHANGED <<topic, faults>>
       \/ e \notin Poison /\ topic' \in {topic, Append(topic, e)} /\ Fault
    /\ failures' = [failures EXCEPT ![e] = Increment(@)]
    /\ Release(p, "idle")
    /\ UNCHANGED table

\* Publish returns an error, whether or not the message reached the topic.
PublishError(p, e) ==
    /\ pc[p] = "publish"
    /\ Current(p, e)
    /\ \/ e \in Poison /\ UNCHANGED <<topic, faults>>
       \/ e \notin Poison /\ topic' \in {topic, Append(topic, e)} /\ Fault
    /\ failures' = [failures EXCEPT ![e] = Increment(@)]
    /\ pc' = [pc EXCEPT ![p] = "markFailed"]
    /\ UNCHANGED <<table, batch, marks>>

\* The mark is written in the open transaction and the loop goes on.
Mark(p, e, m) ==
    /\ marks' = [marks EXCEPT ![p][e] = m]
    /\ pc' = [pc EXCEPT ![p] = IF Unmarked(p) = {e} THEN "commit" ELSE "publish"]
    /\ UNCHANGED <<table, batch, topic, failures, faults>>

MarkPublished(p, e) ==
    /\ pc[p] = "markPublished"
    /\ Current(p, e)
    /\ Mark(p, e, "published")

\* Slip: the loop body falls through to MarkPublished after a failure.
MarkFailedFallsThrough(p, e) ==
    /\ pc[p] = "markFailed"
    /\ Current(p, e)
    /\ Mark(p, e, "published")

MarkFailed(p, e) ==
    /\ pc[p] = "markFailed"
    /\ Current(p, e)
    /\ Mark(p, e, "failed")

Marked(p, m) == {e \in batch[p] : marks[p][e] = m}

\* Slip: attempts counted down.
CommitCountsDown(p) ==
    /\ pc[p] = "commit"
    /\ published' = published \cup Marked(p, "published")
    /\ attempts' = [e \in Events |-> IF e \in Marked(p, "failed")
                                       THEN attempts[e] - 1 ELSE attempts[e]]
    /\ waiting' = waiting \cup Marked(p, "failed")
    /\ Release(p, "idle")
    /\ UNCHANGED <<stored, late, topic, failures, faults>>

\* Slip: one UPDATE marks the whole batch.
CommitWholeBatch(p) ==
    /\ pc[p] = "commit"
    /\ published' = published \cup batch[p]
    /\ Release(p, "idle")
    /\ UNCHANGED <<stored, attempts, waiting, late, topic, failures, faults>>

\* The marks take effect: a failed event is not due for ten seconds.
Commit(p) ==
    /\ pc[p] = "commit"
    /\ published' = published \cup Marked(p, "published")
    /\ attempts' = [e \in Events |-> IF e \in Marked(p, "failed")
                                       THEN Increment(attempts[e]) ELSE attempts[e]]
    /\ waiting' = waiting \cup Marked(p, "failed")
    /\ Release(p, "idle")
    /\ UNCHANGED <<stored, late, topic, failures, faults>>

-----------------------------------------------------------------------------
(***************************************************************************)
(* Failures that roll back the whole batch: every mark of it is lost.      *)
(***************************************************************************)
\* MarkPublished, MarkFailed or COMMIT returns an error; the batch is given up
\* and the next poll starts over.
BatchFails(p) ==
    /\ Fault
    /\ pc[p] \in {"markPublished", "markFailed", "commit"}
    /\ Release(p, "idle")
    /\ UNCHANGED <<table, topic, failures>>

\* The process is killed, or told to stop: main does not wait for the publisher,
\* whose statements all fail once their context is cancelled.
Stop(p) ==
    /\ Fault
    /\ pc[p] # "down"
    /\ Release(p, "down")
    /\ UNCHANGED <<table, topic, failures>>

\* The process is started again; Run polls at once.
Start(p) ==
    /\ pc[p] = "down"
    /\ pc' = [pc EXCEPT ![p] = "idle"]
    /\ UNCHANGED <<table, batch, marks, topic, failures, faults>>

-----------------------------------------------------------------------------
Work(p) == \/ FetchPending(p)
           \/ \E e \in Events : \/ PublishOk(p, e)
                                \/ PublishError(p, e)
                                \/ MarkPublished(p, e)
                                \/ MarkFailed(p, e)
           \/ Commit(p)
           \/ Start(p)

Fails(p) == \/ BatchFails(p)
            \/ Stop(p)
            \/ \E e \in Events : WriteUnacknowledged(p, e)

Next == \/ \E e \in Events : Store(e) \/ BecomeDue(e)
        \/ \E p \in Publishers : Work(p) \/ Fails(p)

Spec == Init /\ [][Next]_vars

\* Processes are scheduled and restarted, and time passes.
FairSpec == /\ Spec
            /\ \A p \in Publishers : WF_vars(Work(p))
            /\ \A e \in Events : WF_vars(BecomeDue(e))

-----------------------------------------------------------------------------
(***************************************************************************)
(* Properties.                                                             *)
(***************************************************************************)
Steps == {"idle", "publish", "markPublished", "markFailed", "commit", "down"}

\* Every variable stays in its range.
TypeOK ==
    /\ stored \subseteq Events
    /\ published \subseteq Events
    /\ attempts \in [Events -> 0..MaxAttempts]
    /\ waiting \subseteq Events
    /\ late \subseteq Events
    /\ pc \in [Publishers -> Steps]
    /\ batch \in [Publishers -> SUBSET Events]
    /\ marks \in [Publishers -> [Events -> {"none", "published", "failed"}]]
    /\ topic \in Seq(Events)
    /\ failures \in [Events -> 0..MaxAttempts]
    /\ faults \in 0..MaxFaults

Delivered == {topic[i] : i \in 1..Len(topic)}

\* No event is lost: one that is marked published is in the topic, whatever
\* failed on the way ("The transactional outbox avoids losing events",
\* README.md:215).
PublishedWasDelivered == published \subseteq Delivered

\* Once the mark of an event is committed no publisher sends it again, although
\* a batch is read in one statement and sent much later (publisher.go:80, :86).
NeverResentOnceMarked ==
    [][topic' # topic => topic'[Len(topic')] \notin published]_vars

\* The messages of event e, by their place in the topic.
Copies(e) == {i \in 1..Len(topic) : topic[i] = e}

\* An event is repeated no more often than something failed: each message beyond the
\* first takes a failure of its own, a lost acknowledgement, a batch rolled back or a
\* process stopped between Publish and the commit of its mark.  Without a failure every
\* event is sent at most once, whatever the number of publishers
\* (publisher.go:80-101 over outbox_repository.go:49-51).
RepeatsTakeFailures == \A e \in Events : Cardinality(Copies(e)) <= faults + 1

\* Two publishers never work on one event at a time
\* (outbox_repository.go:51, FOR UPDATE SKIP LOCKED).
OnePublisherPerEvent ==
    \A p, q \in Publishers : p # q => batch[p] \cap batch[q] = {}

\* The relay keeps the promise of EventRelay: it sends only what is stored, and
\* acknowledges (published_at) only what it sent, however batches are repeated.
Promise == INSTANCE EventRelay WITH log <- stored, acked <- published, topic <- topic
AtLeastOnce == Promise!Spec

LastIndex(e) == CHOOSE i \in 1..Len(topic) :
                   topic[i] = e /\ \A j \in i + 1..Len(topic) : topic[j] # e

\* A consumer who keeps the last message of each company is never left with an
\* event that a later published one supersedes, however often batches were rolled
\* back, repeated or interrupted, as long as one process publishes and the older
\* event was neither refused nor stored with a later available_at.  It is what
\* sorting by created_at is for (outbox_repository.go:49); a refused event is
\* retried after later ones of its company and breaks it (publisher.go:86-96).
LastMessageWins ==
    \A e, f \in published :
        /\ e.company = f.company
        /\ e.at < f.at
        /\ failures[e] = 0
        /\ e \notin late
        => LastIndex(e) < LastIndex(f)

\* An event whose publication failed and that was marked failed has the failure on
\* record when its batch ends at another event: "The outbox row remains pending,
\* records the failure, and is retried by the publisher" (README.md:139).
FailureRecorded ==
    [][\A p \in Publishers, e \in Events :
          marks[p][e] = "failed" /\ Unmarked(p) # {} /\ pc'[p] = "idle"
              => attempts'[e] > 0]_vars

\* Every event that Kafka accepts is published in the end, even beside events it
\* never accepts, as long as those cannot fill a batch (README.md:215).
EveryEventPublished ==
    \A e \in Events \ Poison : e \in stored ~> e \in published
=============================================================================
