SPECIFICATION FairSpec
CONSTANTS
    Leader = leader
    NoProc = noproc
    Kids = {}
    CgAvailable = TRUE
    CgKillFile = TRUE
    RmRemoves = FALSE
    Faults = {"disconnect"}
    ChanCap = 1
    PipeCap = 1
    MaxOut = 3
    MaxErr = 1
CHECK_DEADLOCK FALSE
PROPERTIES
    ConnectionEnds
