\* Every request is answered, crossing renames that wait for each other included.
CONSTANTS
    c1 = c1
    c2 = c2
    Ids <- MCIds
    NilId = NilId
    Nil = Nil
    EmptyString = ""
    Strings <- MCStrings
    TrimSpace <- MCTrimSpace
    RuneCount <- MCRuneCount
    MaxNameLength = 15
    MaxDescriptionLength = 3000
    Types = {"Corporations", "NonProfit", "Cooperative", "Sole Proprietorship"}
    MaxInt4 <- MCMaxInt4
    Unstorable = {}
    Clients = {t1, t2, t3}
    Requests <- CrossingRenames
    Seed <- SeedTwo
    MaxRequests = 4
    MaxFaults = 0
SPECIFICATION FairSpec
PROPERTY
    EveryRequestAnswered
\* The service is idle once the bounded number of requests has been served.
CHECK_DEADLOCK FALSE
