SPECIFICATION FairSpec
CONSTANTS
    Leader = leader
    NoProc = noproc
    Kids = {k1}
    CgAvailable = TRUE
    CgKillFile = TRUE
    RmRemoves = FALSE
    Faults = {"mkcg", "spawn", "assign", "wait", "peak"}
    ChanCap = 1
    PipeCap = 1
    MaxOut = 4
    MaxErr = 1
INVARIANTS
    TypeOK
    OutputComplete
    BufferBound
    CgroupKilled
PROPERTIES
    ExecEnds
    KeepsContract
