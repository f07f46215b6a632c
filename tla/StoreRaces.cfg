\* Three clients race for one row and one name, one failure.
CONSTANTS
    c1 = c1
    c2 = c2
    Ids <- MCIds
    NilId = NilId
    Nil = Nil
    EmptyString = ""
    Strings <- MCStrings
    TrimSpace <- MCTrimSpace
    RuneCount <- MCRuneCount
    MaxNameLength = 15
    MaxDescriptionLength = 3000
    Types = {"Corporations", "NonProfit", "Cooperative", "Sole Proprietorship"}
    MaxInt4 <- MCMaxInt4
    Unstorable = {}
    Clients = {t1, t2, t3}
    Requests <- RacingRequests
    Seed <- SeedOne
    MaxRequests = 4
    MaxFaults = 1
SPECIFICATION Spec
SYMMETRY Symmetry
INVARIANTS
    NamesUnique
    OutboxMirrorsTable
    EventsTellALife
    DeletionsShowAnnounced
PROPERTY
    StampsFollowCommits
\* The service is idle once the bounded number of requests has been served.
CHECK_DEADLOCK FALSE
