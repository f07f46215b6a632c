\* A refusal of every layer and two clients that race, one failure.
CONSTANTS
    c1 = c1
    c2 = c2
    Ids <- MCIds
    NilId = NilId
    NotUuid = NotUuid
    Nil = Nil
    EmptyString = ""
    Strings <- MCStrings
    TrimSpace <- MCTrimSpace
    RuneCount <- MCRuneCount
    MaxNameLength = 15
    MaxDescriptionLength = 3000
    Types = {"Corporations", "NonProfit", "Cooperative", "Sole Proprietorship"}
    MaxInt4 <- MCMaxInt4
    Unstorable <- MCUnstorable
    Clients = {t1, t2}
    Messages <- MCMessages
    Requests <- MCRequests
    Seed <- MCSeed
    MaxRequests = 3
    MaxFaults = 1
SPECIFICATION ApiSpec
SYMMETRY Symmetry
INVARIANTS
    ApiTypeOK
    AnswersAreDocumented
    EffectMatchesMessage
    AnswerTellsTheTruth
    AnswersAreFresh
    ChangesBuildOnFreshRows
