SPECIFICATION ContainerSpec
CONSTANTS
    Runs = {r1}
    Images = {alpine}
    WithWorkspace = {}
    NoImage = noimage
    SetupFaults = {}
INVARIANTS
    FaultFreeRuns
CHECK_DEADLOCK FALSE
