\* Every creation input and then every patch over a small set of texts.
CONSTANTS
    NilId = NilId
    Nil = Nil
    Ids = {c1}
    EmptyString = ""
    Strings <- MCStrings
    TrimSpace <- MCTrimSpace
    RuneCount <- MCRuneCount
    MaxNameLength = 15
    MaxDescriptionLength = 3000
    Types <- MCTypes
    Inputs <- MCInputs
    Patches <- MCPatches
SPECIFICATION Spec
INVARIANTS
    TypeOK
    EntityStaysValid
    PatchMatchesReference
    RetryIsIdempotent
\* The life of the entity ends after one patch.
CHECK_DEADLOCK FALSE
