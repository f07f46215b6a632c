\* Two clients race for one stored company, two publishers overtake each other.
CONSTANTS
    c1 = c1
    Ids <- MCIds
    NilId = NilId
    Nil = Nil
    EmptyString = ""
    Strings <- MCStrings
    TrimSpace <- MCTrimSpace
    RuneCount <- MCRuneCount
    MaxNameLength = 15
    MaxDescriptionLength = 3000
    Types = {"Corporations", "NonProfit", "Cooperative", "Sole Proprietorship"}
    MaxInt4 = 1
    Unstorable = {}
    Clients = {t1, t2}
    Requests <- MCRequests
    Seed <- MCSeed
    MaxRequests = 2
    MaxFaults = 1
    Publishers = {p1, p2}
    BatchSize = 1
    Stamps <- MCStamps
    MaxAttempts = 1
    MaxRelayFaults = 1
SPECIFICATION FairSystem
INVARIANT
    ConsumerAgrees
PROPERTY
    ConsumerCatchesUp
    RelayGetsItsOrder
\* The system is idle once the bounded number of requests has been served.
CHECK_DEADLOCK FALSE
