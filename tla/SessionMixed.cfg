SPECIFICATION Spec
CONSTANTS
    Workspaces = {w1}
    Accepted = {w1}
    Resolvable = {w1}
    NoWs = nows
    SockCap = 2
    MaxChunks = 1
    MaxCalls = 4
    LocalFail = TRUE
    Clients = {"rust"}
    BadRequests = FALSE
INVARIANTS
    EventsOwn
