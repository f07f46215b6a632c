\* Two requests and the publisher, in every kind of environment.
CONSTANTS
    Unset = Unset
    Garbage = Garbage
    HalfInt32 <- MCHalfInt32
    Lower <- MCLower
    Environments <- MCEnvironments
    Handlers = {h1, h2}
    Publisher = Publisher
SPECIFICATION FairSpec
INVARIANT
    TypeOK
    StartedCanWork
    PoolKeepsMoving
    ClosedAfterTheRequests
    CommittedIsAnswered
    StopIsNoFailure
PROPERTY
    ProcessEnds
\* The process stops when it has ended.
CHECK_DEADLOCK FALSE
