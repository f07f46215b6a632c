----------------------------- MODULE EventRelay -----------------------------
(***************************************************************************)
(* What the relay promises: at-least-once delivery.  An event is sent only *)
(* after it was stored and, once it is acknowledged, never again; only     *)
(* what was sent is acknowledged.  In between it may be sent any number of *)
(* times.                                                                  *)
(*                                                                         *)
(* It says nothing of batches, transactions, locks, retries, the number of *)
(* publishers or their failures: OutboxPublisher keeps the promise.        *)
(***************************************************************************)
EXTENDS Sequences, Integers

VARIABLES log,    \* the events stored so far
          acked,  \* those acknowledged: nobody owes their delivery any more
          topic   \* the messages sent so far

vars == <<log, acked, topic>>

Init == log = {} /\ acked = {} /\ topic = <<>>

Sent == {topic[i] : i \in 1..Len(topic)}

Insert(e) ==
    /\ log' = log \cup {e}
    /\ UNCHANGED <<acked, topic>>

Send(e) ==
    /\ e \in log \ acked
    /\ topic' = Append(topic, e)
    /\ UNCHANGED <<log, acked>>

Acknowledge ==
    /\ acked \subseteq acked'
    /\ acked' \subseteq Sent
    /\ UNCHANGED <<log, topic>>

Next == \/ \E e \in log' : Insert(e)
        \/ \E e \in log : Send(e)
        \/ Acknowledge

Spec == Init /\ [][Next]_vars
=============================================================================
