SPECIFICATION FairSpec
CONSTANTS
    r1 = r1
    r2 = r2
    Runs = {r1, r2}
    NoRun = norun
    Images = {plain, prepared}
    WithWorkspace = {prepared}
    SetupFaults = {"pull", "dirs", "overlay", "bind", "staging", "spawn", "limits", "unshare",
                   "private", "chdir", "rebind", "pivot", "chroot", "detach", "seccomp", "remove"}
    NoImage = noimage
    NoRate = norate
    Requests <- TestRequests
    Host = "X86_64"
    Emulators = {"Aarch64", "Riscv64"}
    HostFaults = {"tc", "tcdel", "vm", "unlink", "bind"}
    Word = 64
    MB = 4
INVARIANTS
    TypeOK
    WorkspaceKept
    Confined
    NothingLeft
    NetemOwned
    VmStopped
    StaleNeverBlocks
    ZeroMeansRan
    DetectsElf
    LimitsAsAsked
PROPERTIES
    RunExits
