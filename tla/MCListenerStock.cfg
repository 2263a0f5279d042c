\* Commands of raxlpxs, as many requests as a session allows, no patch rejected.
SPECIFICATION StockSpec
CONSTANTS
    Clients = {c1, c2}
    NoClient = NoClient
    Patches = {p}
    NoPatch = NoPatch
    Kinds = {"apply", "undo", "list", "getbld"}
    Outcomes <- Accepted
    ListMayFail = FALSE
    Limit = 3
    MaxRequests = 3
CHECK_DEADLOCK FALSE
INVARIANT AlwaysListening
PROPERTIES
    RequestsAnswered
    ConnectionsServed
