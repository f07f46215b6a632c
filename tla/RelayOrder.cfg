\* One publisher, an event that is always refused, and two failures.
CONSTANTS
    a = a
    b = b
    Companies = {a, b}
    Events <- MCEvents
    Publishers = {p1}
    BatchSize = 2
    Poison <- OnePoison
    MaxAttempts = 1
    MaxFaults = 2
SPECIFICATION FairSpec
INVARIANT
    LastMessageWins
PROPERTY
    EveryEventPublished
\* The relay is idle once every event is published.
CHECK_DEADLOCK FALSE
