\* Every operation and refusal, two clients, one failure.
CONSTANTS
    c1 = c1
    c2 = c2
    Ids <- MCIds
    NilId = NilId
    Nil = Nil
    EmptyString = ""
    Strings <- MCStrings
    TrimSpace <- MCTrimSpace
    RuneCount <- MCRuneCount
    MaxNameLength = 15
    MaxDescriptionLength = 3000
    Types = {"Corporations", "NonProfit", "Cooperative", "Sole Proprietorship"}
    MaxInt4 <- MCMaxInt4
    Unstorable <- MCUnstorable
    Clients = {t1, t2}
    Requests <- EveryRequest
    Seed <- SeedOne
    MaxRequests = 4
    MaxFaults = 1
SPECIFICATION Spec
SYMMETRY Symmetry
INVARIANTS
    TypeOK
PROPERTY
    Refinement
\* The service is idle once the bounded number of requests has been served.
CHECK_DEADLOCK FALSE
