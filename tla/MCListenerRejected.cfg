\* Commands of raxlpxs, a patch the sandbox rejects.
SPECIFICATION StockSpec
CONSTANTS
    Clients = {c1, c2}
    NoClient = NoClient
    Patches = {p}
    NoPatch = NoPatch
    Kinds = {"apply", "undo", "list", "getbld"}
    Outcomes <- Rejected
    ListMayFail = FALSE
    Limit = 3
    MaxRequests = 3
CHECK_DEADLOCK FALSE
INVARIANT AlwaysListening
