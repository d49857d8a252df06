SPECIFICATION Spec
CONSTANTS
    r1 = r1
    r2 = r2
    Runs = {r1, r2}
    NoRun = norun
    Images = {plain, prepared}
    WithWorkspace = {prepared}
    SetupFaults = {}
    NoImage = noimage
    NoRate = norate
    Requests <- TestRequests
    Host = "X86_64"
    Emulators = {"Aarch64", "Riscv64"}
    HostFaults = {}
    Word = 64
    MB = 4
INVARIANTS
    JitterInjected
