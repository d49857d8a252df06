SPECIFICATION StalledSpec
CONSTANTS
    Leader = leader
    NoProc = noproc
    Kids = {k1, k2}
    CgAvailable = FALSE
    CgKillFile = FALSE
    RmRemoves = FALSE
    Faults = {"spawn", "disconnect"}
    ChanCap = 1
    PipeCap = 1
    MaxOut = 1
    MaxErr = 1
CHECK_DEADLOCK FALSE
INVARIANTS
    NoStrayKill
    GroupKilled
PROPERTIES
    ChildStops
