SPECIFICATION Spec
CONSTANTS
    Workspaces = {w1, w2}
    Accepted = {w1, w2}
    Resolvable = {w1, w2}
    NoWs = nows
    SockCap = 2
    MaxChunks = 1
    MaxCalls = 3
    LocalFail = FALSE
    Clients = {"rust"}
    BadRequests = FALSE
INVARIANTS
    FileFromSuccessful
