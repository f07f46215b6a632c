---------------------------- MODULE CompanySystem ----------------------------
(***************************************************************************)
(* The whole way of a change, from the request to the consumer: the        *)
(* service (CompanyStore) and the publishers (OutboxPublisher) over one    *)
(* table outbox_events, as cmd/api/main.go wires them.                     *)
(*                                                                         *)
(* The table is the variable outbox of CompanyStore; a publisher sees of   *)
(* it the keys of its rows.  A commit of the service is a step of both     *)
(* components, every other step is a step of one of them.  Each component  *)
(* has its own crashes; a process that dies with both its handlers and its *)
(* publisher is the two crashes in a row.                                  *)
(***************************************************************************)
EXTENDS CompanyStore, Sequences

CONSTANTS
    Publishers,      \* the processes that run a publisher
    BatchSize,       \* OUTBOX_BATCH_SIZE
    Stamps,          \* bound: the stamps of a behaviour
    MaxAttempts,     \* bound: attempts are counted up to here
    MaxRelayFaults   \* bound: failures of publishers and of Kafka

ASSUME StampAssumption == Stamps \subseteq Nat

\* What OutboxPublisher assumes of its constants: NewPublisher replaces a batch size
\* below one by 10.
ASSUME RelayAssumption ==
    BatchSize \in Nat \ {0} /\ MaxAttempts \in Nat \ {0} /\ MaxRelayFaults \in Nat

VARIABLES published, attempts, waiting, late, relayPc, batch, marks, topic, failures,
          relayFaults

\* The events the publishers have to deliver: those of the companies of Seed were
\* published before.
Owed == outbox \ SeedEvents

\* What a publisher sees of an event.
Key(e) == [at |-> e.at, company |-> e.company.id]

Keys == [at : Stamps, company : Ids]

Relay == INSTANCE OutboxPublisher WITH
            Companies <- Ids,
            Events    <- Keys,
            Poison    <- {},
            MaxFaults <- MaxRelayFaults,
            stored    <- {Key(e) : e \in Owed},
            pc        <- relayPc,
            faults    <- relayFaults

relayVars == <<published, attempts, waiting, late, relayPc, batch, marks, topic,
               failures, relayFaults>>
systemVars == <<vars, relayVars>>

SystemInit == Init /\ Relay!Init

\* A new row of outbox_events appears to the publishers when it is committed.
Appears ==
    \/ UNCHANGED <<outbox, relayVars>>
    \/ \E e \in outbox' \ outbox : Key(e) \in Keys /\ Relay!Insert(Key(e))

Serve(t) == Work(t) /\ Appears

Publish(p) == UNCHANGED vars /\ Relay!Work(p)

TimePasses(k) == UNCHANGED vars /\ Relay!BecomeDue(k)

SystemNext ==
    \/ Next /\ Appears
    \/ \E k \in Keys : TimePasses(k)
    \/ \E p \in Publishers : Publish(p) \/ (UNCHANGED vars /\ Relay!Fails(p))

SystemSpec == SystemInit /\ [][SystemNext]_systemVars

\* The fairness of the two components.
FairSystem == /\ SystemSpec
              /\ \A t \in Clients : WF_systemVars(Serve(t))
              /\ \A p \in Publishers : WF_systemVars(Publish(p))
              /\ \A k \in Keys : WF_systemVars(TimePasses(k))

-----------------------------------------------------------------------------
(***************************************************************************)
(* A consumer that keeps, for each company, the message with the greatest  *)
(* occurred_at.  It sees messages twice and out of order.                  *)
(***************************************************************************)
\* The events whose message the consumer has received.
Told == SeedEvents \cup {e \in Owed : Key(e) \in Relay!Delivered}

LastTold(e) == \A f \in Told : f.company.id = e.company.id => f.at <= e.at

\* The consumer's copy of the row of company c is exactly that row.
CopyIsRow(c) ==
    IF rows[c] = Nil
      THEN \A e \in Told : e.company.id = c /\ LastTold(e) => e.type = "deleted"
      ELSE \E e \in Told : LastTold(e) /\ e.type # "deleted" /\ e.company = rows[c]

(***************************************************************************)
(* A simpler consumer, that keeps the message it received last.            *)
(***************************************************************************)
\* The last message about company c is the one at position i of the topic.
LastAbout(c, i) ==
    /\ i \in 1..Len(topic)
    /\ topic[i].company = c
    /\ \A j \in i + 1..Len(topic) : topic[j].company # c

\* Every event of c is marked published, and none was refused or stored with a
\* later available_at.
Untroubled(c) ==
    \A e \in Owed : e.company.id = c =>
        Key(e) \in published \ late /\ failures[Key(e)] = 0

ShowsRow(e) == IF e.type = "deleted" THEN rows[e.company.id] = Nil
                                     ELSE rows[e.company.id] = e.company

-----------------------------------------------------------------------------
(***************************************************************************)
(* Properties.                                                             *)
(***************************************************************************)
\* Whenever every row of outbox_events carries published_at, the consumer has
\* the table: nothing was lost on the way, whatever was repeated, interrupted or
\* overtaken (service.go:144-168 through publisher.go:80-105).
ConsumerAgrees ==
    (\A e \in Owed : Key(e) \in published) => \A c \in Ids : CopyIsRow(c)

\* The simpler consumer has the table as well, while one process publishes
\* (outbox_repository.go:49, publisher.go:80-105).
LastMessageShowsRow ==
    \A c \in Ids : Untroubled(c) =>
        \A i \in 1..Len(topic) : LastAbout(c, i) => \E e \in Owed : Key(e) = topic[i] /\ ShowsRow(e)

\* Once the changes stop, the consumer has the table for good, with any number
\* of publishers that overtake each other (outbox_repository.go:51), messages
\* refused and sent ten seconds later (publisher.go:86-96), and rows that come
\* due late (outbox_repository.go:48).
ConsumerCatchesUp == <>[] \A c \in Ids : CopyIsRow(c)

\* The service keeps what the publisher relies on: the events of a company appear
\* in the order of created_at (service.go:148, outbox_repository.go:49).
RelayGetsItsOrder == Relay!Spec
=============================================================================
