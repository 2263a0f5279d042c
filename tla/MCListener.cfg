\* Any client, killed at any point: every kind of message, patches accepted or not.
SPECIFICATION Spec
CONSTANTS
    Clients = {c1, c2}
    NoClient = NoClient
    Patches = {p}
    NoPatch = NoPatch
    Kinds = {"apply", "undo", "undo20", "list", "getbld", "bad", "noid"}
    Outcomes <- AnyOutcome
    ListMayFail = TRUE
    Limit = 2
    MaxRequests = 3
CHECK_DEADLOCK FALSE
SYMMETRY ClientSymmetry
INVARIANTS
    TypeOK
    AnswersTellTruth
    LeftOnlyAtLimit
PROPERTY FreshListing
