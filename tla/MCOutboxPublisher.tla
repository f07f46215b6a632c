------------------------- MODULE MCOutboxPublisher -------------------------
(***************************************************************************)
(* OutboxPublisher on three events of two companies; the second event      *)
(* comes between two events of the first company.                          *)
(***************************************************************************)
EXTENDS OutboxPublisher, TLC

CONSTANTS a, b   \* two companies

Event(n, c) == [at |-> n, company |-> c]

MCEvents == {Event(1, a), Event(2, b), Event(3, a)}

\* The event between the two of the first company is refused every time; the
\* batch of two has room for one more.
OnePoison == {Event(2, b)}

Symmetry == Permutations(Publishers)
=============================================================================
