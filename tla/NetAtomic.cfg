SPECIFICATION FairSpec
CONSTANTS
    Conns = {c1, c2, c3}
    NoConn = noconn
    Latencies = {0}
    Jitters = {0}
    Losses = {0}
    Rates = {1}
    Unset = unset
INVARIANTS
    TypeOK
PROPERTIES
    Atomic
    Answered
