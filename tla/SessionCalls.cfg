SPECIFICATION FairSpec
CONSTANTS
    Workspaces = {w1, w2, w3, w4}
    Accepted = {w1, w2, w3}
    Resolvable = {w1, w2, w4}
    NoWs = nows
    SockCap = 1
    MaxChunks = 1
    MaxCalls = 3
    LocalFail = TRUE
    Clients = {"rust", "python"}
    BadRequests = TRUE
INVARIANTS
    TypeOK
    FramesOwn
    FileFromLatest
    NoStdinLeft
PROPERTIES
    CallReturns
