\* Two patches of different fields of one company overlap.
CONSTANTS
    c1 = c1
    c2 = c2
    Ids <- MCIds
    NilId = NilId
    Nil = Nil
    EmptyString = ""
    Strings <- MCStrings
    TrimSpace <- MCTrimSpace
    RuneCount <- MCRuneCount
    MaxNameLength = 15
    MaxDescriptionLength = 3000
    Types = {"Corporations", "NonProfit", "Cooperative", "Sole Proprietorship"}
    MaxInt4 <- MCMaxInt4
    Unstorable = {}
    Clients = {t1, t2}
    Requests <- OverlappingPatches
    Seed <- SeedOne
    MaxRequests = 2
    MaxFaults = 0
SPECIFICATION Spec
PROPERTY
    PatchKeepsMissingFields
\* The service is idle once the bounded number of requests has been served.
CHECK_DEADLOCK FALSE
