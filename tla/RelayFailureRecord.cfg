\* A failure that is marked in a batch which another of its statements undoes.
CONSTANTS
    a = a
    b = b
    Companies = {a, b}
    Events <- MCEvents
    Publishers = {p1}
    BatchSize = 2
    Poison = {}
    MaxAttempts = 1
    MaxFaults = 2
SPECIFICATION Spec
PROPERTY
    FailureRecorded
\* The relay is idle once every event is published.
CHECK_DEADLOCK FALSE
