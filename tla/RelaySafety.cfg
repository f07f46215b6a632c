\* Two publishers, two failures: nothing lost, nothing sent after its mark.
CONSTANTS
    a = a
    b = b
    Companies = {a, b}
    Events <- MCEvents
    Publishers = {p1, p2}
    BatchSize = 2
    Poison = {}
    MaxAttempts = 1
    MaxFaults = 2
SPECIFICATION Spec
SYMMETRY Symmetry
INVARIANTS
    TypeOK
    PublishedWasDelivered
    OnePublisherPerEvent
    RepeatsTakeFailures
PROPERTY
    NeverResentOnceMarked
    AtLeastOnce
\* The relay is idle once every event is published.
CHECK_DEADLOCK FALSE
