------------------------------ MODULE Minibox ------------------------------
(***************************************************************************)
(* The minibox program, kuda-sandbox-daemon/src/main.rs: several processes *)
(* on one host, each a `run`, a `daemon` or an `exec`.  They share the     *)
(* root queueing discipline of one network interface (net/chaos.rs), the   *)
(* daemon's socket path, and the workspace.                                *)
(*                                                                         *)
(* The container engine is module ContainerFs, whose steps a run takes     *)
(* between EnterContainer and LeaveContainer; the micro VM engine of       *)
(* vm/linux_kvm.rs is here; the process engine is module Executor, of      *)
(* which only the result matters here.                                     *)
(***************************************************************************)
EXTENDS ContainerFs, Netem, Arch, Limits

CONSTANTS
    Requests,    \* the command lines each process may be started with
    NoRun,
    Host,        \* the architecture of the host
    Emulators,   \* the architectures it has a user-mode QEMU for
    HostFaults   \* what may fail: "tc", "tcdel", "vm", "unlink", "bind"

(* A command line of run: do --arch and --engine have known values, the    *)
(* engine, whether there is a --kernel, the chaos profile, the target      *)
(* architecture and the limits.                                            *)
RunLines ==
    [op : {"run"}, valid : BOOLEAN, engine : {"process", "container", "microvm"}, kernel : BOOLEAN,
     profile : [latency : Nat, jitter : Nat, loss : Nat, rate : Nat \cup {NoRate}, corrupt : Nat],
     arch : TargetArchs \cup {"none"}, ram : 0 .. Word - 1, secs : Nat]

(* One of exec: is the workspace accepted, is there a --fetch, the limits. *)
ExecLines == [op : {"exec"}, usable : BOOLEAN, fetch : BOOLEAN, ram : 0 .. Word - 1, secs : Nat]

ArchLines == [op : {"arch"}, file : Files]

CommandLines == RunLines \cup [op : {"daemon"}] \cup ExecLines \cup ArchLines

ASSUME MiniboxAssumption ==
    /\ Requests \in [Runs -> SUBSET CommandLines]
    /\ NoRun \notin Runs
    /\ HostFaults \subseteq {"tc", "tcdel", "vm", "unlink", "bind"}
    /\ Host \in HostArchs /\ Emulators \subseteq TargetArchs

NoRequest == [op |-> "none"]
Plans     == [memory : Nat, wall : Nat, arch : Archs \cup {"none"}, emulate : BOOLEAN]
NoPlan    == [memory |-> 0, wall |-> 0, arch |-> "none", emulate |-> FALSE]
NoQdisc   == [owner |-> NoRun]
Stale     == "stale"      \* the socket file of a daemon that is gone

VARIABLES
    pc, request,
    plan,       \* what a process has worked out from its command line
    qdisc,      \* the root netem of the interface: [owner, netem]
    applied,    \* chaos_applied of each run
    kept,       \* runs whose tc qdisc del failed
    vm,         \* the QEMU process of each run
    outcome,    \* run_res
    sock,       \* what is at the socket path
    bound,      \* history: daemons that have bound it since r looked
    refused,    \* history: daemons whose remove_file or bind the host refused
    server,     \* the daemon an exec is connected to
    remote,     \* history: what it was told there
    code        \* exit code

lineVars   == <<request, plan>>
chaosVars  == <<qdisc, applied, kept>>
daemonVars == <<sock, bound, refused, server, remote>>
cliVars    == <<pc, lineVars, chaosVars, vm, outcome, daemonVars, code>>
vars       == <<cliVars, containerVars>>

CliTypeOK ==
    /\ pc \in [Runs -> {"off", "chaos", "engine", "container", "vm", "clear", "look", "unlink",
                        "bind", "serving", "connect", "remote", "fetch", "done", "killed"}]
    /\ request \in [Runs -> CommandLines \cup {NoRequest}]
    /\ plan \in [Runs -> Plans]
    /\ qdisc.owner \in Runs \cup {NoRun}
    /\ applied \in [Runs -> BOOLEAN]
    /\ kept \subseteq Runs
    /\ vm \in [Runs -> {"none", "live", "over"}]
    /\ outcome \in [Runs -> {"none", "ok", "err"}]
    /\ sock \in Runs \cup {NoRun, Stale}
    /\ bound \in [Runs -> SUBSET Runs]
    /\ refused \subseteq Runs
    /\ server \in [Runs -> Runs \cup {NoRun}]
    /\ remote \in [Runs -> {"none", "exit", "error", "lost", "fetched"}]
    /\ code \in [Runs -> {"none", "zero", "other"}]

TypeOK == ContainerTypeOK /\ CliTypeOK

Init ==
    /\ ContainerInit
    /\ pc = [r \in Runs |-> "off"]
    /\ request = [r \in Runs |-> NoRequest]
    /\ plan = [r \in Runs |-> NoPlan]
    /\ qdisc = NoQdisc
    /\ applied = [r \in Runs |-> FALSE]
    /\ kept = {}
    /\ vm = [r \in Runs |-> "none"]
    /\ outcome = [r \in Runs |-> "none"]
    /\ sock \in {NoRun, Stale}
    /\ bound = [r \in Runs |-> {}]
    /\ refused = {}
    /\ server = [r \in Runs |-> NoRun]
    /\ remote = [r \in Runs |-> "none"]
    /\ code = [r \in Runs |-> "none"]

-----------------------------------------------------------------------------
To(r, next) == pc' = [pc EXCEPT ![r] = next]

Quit(r, c) == To(r, "done") /\ code' = [code EXCEPT ![r] = c]

(* The limits of a command, and whether it is put behind an emulator; for  *)
(* exec it is the daemon that works them out.  `arch` prints what it finds.*)
Plan(req) ==
    CASE req.op = "run" ->
           [memory |-> RunMemory(req.ram),
            wall |-> IF req.engine = "microvm" THEN VmWall(req.secs) ELSE RunWall(req.secs),
            arch |-> req.arch, emulate |-> WrapIfNeeded(req.arch, Host, Emulators)]
      [] req.op = "exec" ->
           [NoPlan EXCEPT !.memory = ExecMemory(req.ram), !.wall = ExecWall(req.secs)]
      [] req.op = "arch" ->
           LET arch == DetectBinaryArchitecture(req.file)
           IN  [NoPlan EXCEPT !.arch = arch, !.emulate = RequiresEmulation(arch, Host)]
      [] OTHER -> NoPlan

(* The command line is parsed.  An unknown --arch or --engine ends a run   *)
(* before it has touched anything.                                         *)
Begin(r, req) ==
    /\ pc[r] = "off"
    /\ request' = [request EXCEPT ![r] = req]
    /\ plan' = [plan EXCEPT ![r] = Plan(req)]
    /\ CASE req.op = "run"    -> IF req.valid THEN To(r, "chaos") /\ UNCHANGED code
                                 ELSE Quit(r, "other")
         [] req.op = "daemon" -> To(r, "look") /\ UNCHANGED code
         [] req.op = "exec"   -> IF req.usable THEN To(r, "connect") /\ UNCHANGED code
                                 ELSE Quit(r, "other")
         [] req.op = "arch"   -> Quit(r, "zero")
    /\ UNCHANGED <<chaosVars, vm, outcome, daemonVars, containerVars>>

(***************************************************************************)
(* minibox run.                                                            *)
(***************************************************************************)

(* apply_chaos: tc replaces whatever is at the root of the interface.  A   *)
(* failure is reported and the run continues without chaos.                *)
ApplyChaos(r) ==
    /\ pc[r] = "chaos"
    /\ To(r, "engine")
    /\ LET profile == request[r].profile
           args    == NetemArgs(profile)
       IN  \/ /\ IsActive(profile) /\ TcAccepts(args)
              /\ qdisc' = [owner |-> r, netem |-> Installed(args)]
              /\ applied' = [applied EXCEPT ![r] = TRUE]
           \/ /\ IsActive(profile) => ~TcAccepts(args) \/ "tc" \in HostFaults
              /\ UNCHANGED <<qdisc, applied>>
    /\ UNCHANGED <<lineVars, kept, vm, outcome, daemonVars, code, containerVars>>

(* The engine returned.                                                    *)
Returns(r, res) ==
    /\ To(r, "clear")
    /\ outcome' = [outcome EXCEPT ![r] = res]

RunProcess(r) ==
    /\ pc[r] = "engine" /\ request[r].engine = "process"
    /\ \E res \in {"ok", "err"} : Returns(r, res)
    /\ UNCHANGED <<lineVars, chaosVars, vm, daemonVars, code, containerVars>>

EnterContainer(r) ==
    /\ pc[r] = "engine" /\ request[r].engine = "container"
    /\ To(r, "container")
    /\ ContainerStart(r)
    /\ UNCHANGED <<lineVars, chaosVars, vm, outcome, daemonVars, code>>

LeaveContainer(r) ==
    /\ pc[r] = "container" /\ at[r] = "returned"
    /\ Returns(r, result[r])
    /\ UNCHANGED <<lineVars, chaosVars, vm, daemonVars, code, containerVars>>

(* Mutant: it is only cleared after a run that succeeded.                  *)
ClearIfOk(r) ==
    IF applied[r] /\ outcome[r] = "ok"
    THEN \/ qdisc' = NoQdisc /\ UNCHANGED kept
         \/ "tcdel" \in HostFaults /\ kept' = kept \cup {r} /\ UNCHANGED qdisc
    ELSE UNCHANGED <<qdisc, kept>>

(* cleanup_chaos: the root of the interface is deleted, whosever it is;    *)
(* that there is none counts as success.  An error is only reported.       *)
Clear(r) ==
    IF applied[r]
    THEN \/ qdisc' = NoQdisc /\ UNCHANGED kept
         \/ "tcdel" \in HostFaults /\ kept' = kept \cup {r} /\ UNCHANGED qdisc
    ELSE UNCHANGED <<qdisc, kept>>

(* `--engine microvm` without a kernel.                                    *)
NoKernel(r) ==
    /\ pc[r] = "engine" /\ request[r].engine = "microvm" /\ ~request[r].kernel
    /\ Clear(r)
    /\ Quit(r, "other")
    /\ UNCHANGED <<lineVars, applied, vm, outcome, daemonVars, containerVars>>

(* spawn_micro_vm: /dev/kvm, the kernel file and QEMU are looked for, and  *)
(* QEMU is started.                                                        *)
StartVm(r) ==
    /\ pc[r] = "engine" /\ request[r].engine = "microvm" /\ request[r].kernel
    /\ \/ To(r, "vm") /\ vm' = [vm EXCEPT ![r] = "live"] /\ UNCHANGED outcome
       \/ "vm" \in HostFaults /\ Returns(r, "err") /\ UNCHANGED vm
    /\ UNCHANGED <<lineVars, chaosVars, daemonVars, code, containerVars>>

(* The guest powers off, also one whose minibox is gone.                   *)
VmEnds(r) ==
    /\ vm[r] = "live"
    /\ vm' = [vm EXCEPT ![r] = "over"]
    /\ UNCHANGED <<pc, lineVars, chaosVars, outcome, daemonVars, code, containerVars>>

(* wait_with_output returns a status or an error.                          *)
CollectVm(r) ==
    /\ pc[r] = "vm" /\ vm[r] = "over"
    /\ \E res \in {"ok", "err"} : Returns(r, res)
    /\ UNCHANGED <<lineVars, chaosVars, vm, daemonVars, code, containerVars>>

(* Mutant: without kill_on_drop.                                           *)
TimeoutVmKeeps(r) ==
    /\ pc[r] = "vm" /\ vm[r] = "live"
    /\ Returns(r, "err")
    /\ UNCHANGED <<lineVars, chaosVars, vm, daemonVars, code, containerVars>>

(* Mutant: a zero deadline means none.                                     *)
TimeoutVmNever(r) ==
    /\ FALSE
    /\ UNCHANGED vars

(* The deadline (VmWall seconds) passes: the future that owns the child is *)
(* dropped, and kill_on_drop kills QEMU.                                   *)
TimeoutVm(r) ==
    /\ pc[r] = "vm" /\ vm[r] = "live"
    /\ vm' = [vm EXCEPT ![r] = "over"]
    /\ Returns(r, "err")
    /\ UNCHANGED <<lineVars, chaosVars, daemonVars, code, containerVars>>

(* The chaos is cleared and the process exits: with the command's status,  *)
(* or with 1 after an error.                                               *)
ExitRun(r) ==
    /\ pc[r] = "clear"
    /\ Clear(r)
    /\ \E c \in {"zero", "other"} : (outcome[r] = "err" => c = "other") /\ Quit(r, c)
    /\ UNCHANGED <<lineVars, applied, vm, outcome, daemonVars, containerVars>>

-----------------------------------------------------------------------------
(***************************************************************************)
(* minibox daemon.                                                         *)
(***************************************************************************)

(* Mutant: a socket file that is there is left alone.                      *)
LookOnly(r) ==
    /\ pc[r] = "look"
    /\ To(r, "bind")
    /\ bound' = [bound EXCEPT ![r] = {}]
    /\ UNCHANGED <<lineVars, chaosVars, vm, outcome, sock, refused, server, remote, code, containerVars>>

(* socket.exists() ...                                                     *)
Look(r) ==
    /\ pc[r] = "look"
    /\ To(r, IF sock = NoRun THEN "bind" ELSE "unlink")
    /\ bound' = [bound EXCEPT ![r] = {}]
    /\ UNCHANGED <<lineVars, chaosVars, vm, outcome, sock, refused, server, remote, code, containerVars>>

(* ... then remove_file, of whatever is there by now, its error ignored.   *)
Unlink(r) ==
    /\ pc[r] = "unlink"
    /\ To(r, "bind")
    /\ \/ sock' = NoRun /\ UNCHANGED refused
       \/ "unlink" \in HostFaults /\ refused' = refused \cup {r} /\ UNCHANGED sock
    /\ UNCHANGED <<lineVars, chaosVars, vm, outcome, bound, server, remote, code, containerVars>>

(* bind fails when the path exists, and where the directory is missing or  *)
(* may not be written.  Once bound, the daemon accepts for ever, also when *)
(* another has taken its path.                                             *)
Bind(r) ==
    /\ pc[r] = "bind"
    /\ \/ /\ sock = NoRun
          /\ To(r, "serving")
          /\ sock' = r
          /\ bound' = [q \in Runs |-> IF q = r THEN bound[q] ELSE bound[q] \cup {r}]
          /\ UNCHANGED <<refused, code>>
       \/ /\ sock # NoRun
          /\ Quit(r, "other")
          /\ UNCHANGED <<sock, bound, refused>>
       \/ /\ sock = NoRun /\ "bind" \in HostFaults
          /\ Quit(r, "other")
          /\ refused' = refused \cup {r}
          /\ UNCHANGED <<sock, bound>>
    /\ UNCHANGED <<lineVars, chaosVars, vm, outcome, server, remote, containerVars>>

(***************************************************************************)
(* minibox exec.                                                           *)
(***************************************************************************)

(* BinaryClient::connect reaches the daemon that bound the file, if any.   *)
Connect(r) ==
    /\ pc[r] = "connect"
    /\ IF sock \in Runs /\ pc[sock] = "serving"
       THEN To(r, "remote") /\ server' = [server EXCEPT ![r] = sock] /\ UNCHANGED code
       ELSE Quit(r, "other") /\ UNCHANGED server
    /\ UNCHANGED <<lineVars, chaosVars, vm, outcome, sock, bound, refused, remote, containerVars>>

(* Mutant: the code starts at 0 and an error of the connection is printed. *)
AfterExecLenient(r, told, c) ==
    IF request[r].fetch /\ told # "lost" THEN To(r, "fetch") /\ code' = [code EXCEPT ![r] = c]
    ELSE Quit(r, IF told = "lost" THEN "zero" ELSE c)

(* client.exec has returned: an error of the connection ends the process.  *)
AfterExec(r, told, c) ==
    IF told = "lost" THEN Quit(r, "other")
    ELSE IF request[r].fetch THEN To(r, "fetch") /\ code' = [code EXCEPT ![r] = c]
    ELSE Quit(r, c)

(* The daemon's session (module Session) ends in an Exit frame, an Error   *)
(* frame or not at all.                                                    *)
Exec(r) ==
    /\ pc[r] = "remote"
    /\ \E told \in {"exit", "error", "lost"}, c \in {"zero", "other"} :
          /\ pc[server[r]] # "serving" => told = "lost"
          /\ told = "error" => c = "other"
          /\ remote' = [remote EXCEPT ![r] = told]
          /\ AfterExec(r, told, c)
    /\ UNCHANGED <<lineVars, chaosVars, vm, outcome, sock, bound, refused, server, containerVars>>

(* --fetch, on the same connection, whatever the command's status was.     *)
Fetch(r) ==
    /\ pc[r] = "fetch"
    /\ \/ /\ pc[server[r]] = "serving"
          /\ remote' = [remote EXCEPT ![r] = "fetched"]
          /\ Quit(r, code[r])
       \/ remote' = [remote EXCEPT ![r] = "lost"] /\ Quit(r, "other")
    /\ UNCHANGED <<lineVars, chaosVars, vm, outcome, sock, bound, refused, server, containerVars>>

-----------------------------------------------------------------------------
(* The process is killed.  What it has started goes on.                    *)
Kill(r) ==
    /\ pc[r] \notin {"off", "done", "killed"}
    /\ To(r, "killed")
    /\ IF at[r] \in {"idle", "returned"} THEN UNCHANGED containerVars ELSE KillParent(r)
    /\ UNCHANGED <<lineVars, chaosVars, vm, outcome, daemonVars, code>>

RunStep(r) ==
    \/ ApplyChaos(r) \/ RunProcess(r) \/ EnterContainer(r) \/ LeaveContainer(r) \/ NoKernel(r)
    \/ StartVm(r) \/ CollectVm(r) \/ TimeoutVm(r) \/ ExitRun(r)
    \/ (ParentStep(r) \/ ChildStep(r)) /\ UNCHANGED cliVars

DaemonStep(r) == Look(r) \/ Unlink(r) \/ Bind(r)

ExecStep(r) == Connect(r) \/ Exec(r) \/ Fetch(r)

(* All have ended, but for daemons, which serve for ever.                  *)
Finished ==
    /\ \A r \in Runs : pc[r] \in {"done", "killed", "serving"}
    /\ UNCHANGED vars

Next ==
    \/ \E r \in Runs :
          \/ \E req \in Requests[r] : Begin(r, req)
          \/ RunStep(r) \/ DaemonStep(r) \/ ExecStep(r)
          \/ Visit(r) /\ UNCHANGED cliVars
          \/ VmEnds(r) \/ Kill(r)
    \/ Finished

Spec == Init /\ [][Next]_vars

(* execute_wait is at work: for the process engine all the while; for the  *)
(* container engine from the end of the command on, which the executor's   *)
(* deadline brings about (Executor!ChildStops).  It then waits for the end *)
(* of both pipes, which a process in the background may hold for ever.     *)
InExecutor(r) ==
    \/ pc[r] = "engine" /\ request[r].engine = "process"
    \/ pc[r] = "container" /\ at[r] = "wait" /\ child[r].at = "over"

(* A process that is not killed runs on and its timers fire, but           *)
(* execute_wait need not return.  A guest need not power off.              *)
FairSpec == Spec /\ \A r \in Runs : WF_vars(~InExecutor(r) /\ RunStep(r))

-----------------------------------------------------------------------------
(* The netem on the interface always belongs to a run that is under way,   *)
(* on every path of `run`, unless that run was killed or tc refused to     *)
(* delete it; although each clears the interface, not only what is its own.*)
NetemOwned ==
    qdisc # NoQdisc =>
        \/ pc[qdisc.owner] \in {"engine", "container", "vm", "clear", "killed"}
        \/ qdisc.owner \in kept

(* When a run is over its virtual machine is, unless the run was killed.   *)
VmStopped ==
    \A r \in Runs : vm[r] = "live" => pc[r] \in {"vm", "killed"}

(* A daemon is kept from starting only by another that bound the path      *)
(* while it was starting, or by a host that refuses the removal or the     *)
(* bind; never by the socket file of a daemon that is gone.                *)
StaleNeverBlocks ==
    \A r \in Runs : pc[r] = "done" /\ request[r].op = "daemon" =>
        bound[r] # {} \/ r \in refused

(* The facts the proofs of the properties above rest on: a netem was       *)
(* installed by a run that knows it, and a daemon that is about to bind    *)
(* finds the path free, has seen another daemon bind it or was refused.    *)
NetemInv == qdisc # NoQdisc => applied[qdisc.owner]

DaemonInv ==
    \A r \in Runs :
        /\ pc[r] \in {"look", "unlink", "bind", "serving"} => request[r].op = "daemon"
        /\ request[r].op = "daemon" =>
              pc[r] \in {"look", "unlink", "bind", "serving", "done", "killed"}
        /\ pc[r] = "bind" => sock = NoRun \/ bound[r] # {} \/ r \in refused

(* Exit code 0 means that the command ran: in a container, its process has *)
(* come to its end; for exec, the daemon said so and --fetch succeeded.    *)
ZeroMeansRan ==
    \A r \in Runs : pc[r] = "done" /\ code[r] = "zero" =>
        /\ request[r].op = "run" /\ request[r].engine = "container" => child[r].at = "over"
        /\ request[r].op = "exec" => remote[r] = IF request[r].fetch THEN "fetched" ELSE "exit"

(* Every memory limit that fits the word is enforced as asked, on both     *)
(* ways to the executor; 0 MB is no limit for run and the default for      *)
(* exec; and no session is without a deadline, or has one before the time  *)
(* that was asked for.                                                     *)
LimitsAsAsked ==
    \A r \in Runs : request[r].op \in {"run", "exec"} =>
        LET ram == request[r].ram
        IN  /\ ram > 0 /\ ram * MB < Word => plan[r].memory = ram * MB
            /\ ram = 0 => plan[r].memory = IF request[r].op = "run" THEN 0 ELSE DefaultMemory
            /\ plan[r].wall > 0 /\ plan[r].wall >= request[r].secs

(* `minibox arch` names the architecture an ELF file was linked for in     *)
(* either byte order, and says Unknown, never another one, of a file too   *)
(* short to hold e_machine.  `run --arch` with what it named emulates, on  *)
(* every host, exactly what needs it and has an emulator; but RISC-V is    *)
(* emulated on a RISC-V host as well.                                      *)
DetectsElf ==
    \A r \in Runs, arch \in DOMAIN ElfCodes, order \in {1, 2} :
        /\ request[r].op = "arch"
        /\ request[r].file = ElfFile(arch, order, request[r].file.read)
        => /\ plan[r].arch = IF request[r].file.read >= 20 THEN arch ELSE "Unknown"
           /\ \A host \in HostArchs, emulators \in SUBSET TargetArchs :
                 plan[r].arch \in TargetArchs /\ <<arch, host>> # <<"Riscv64", "Riscv64">> =>
                     (WrapIfNeeded(plan[r].arch, host, emulators)
                         <=> RequiresEmulation(arch, host) /\ arch \in emulators)

(* The facts behind the properties above: the plan is the one of the       *)
(* command line, ...                                                       *)
PlanInv ==
    \A r \in Runs :
        /\ pc[r] = "off" => request[r] = NoRequest
        /\ request[r] # NoRequest => plan[r] = Plan(request[r])

(* ... a process is where its command line has led it, and goes on from    *)
(* there with what the engine or the daemon told it.                       *)
Told(r) ==
    /\ pc[r] \in {"chaos", "engine", "container", "vm", "clear"} => request[r].op = "run"
    /\ pc[r] \in {"connect", "remote", "fetch"} => request[r].op = "exec"
    /\ pc[r] = "container" => request[r].engine = "container"
    /\ pc[r] = "vm" => request[r].engine = "microvm"
    /\ pc[r] = "fetch" => request[r].fetch
    /\ pc[r] = "clear" =>
          outcome[r] = "err" \/ (request[r].engine = "container" => result[r] = "ok")
    /\ pc[r] = "done" /\ code[r] = "zero" =>
          /\ request[r].op = "run" /\ request[r].engine = "container" => result[r] = "ok"
          /\ request[r].op = "exec" => remote[r] = IF request[r].fetch THEN "fetched" ELSE "exit"

ToldInv == \A r \in Runs : Told(r)

(* Every run comes to its end, whatever fails and however long its guest   *)
(* runs, unless execute_wait never returns to it.                          *)
RunExits ==
    \A r \in Runs : pc[r] = "chaos" ~> (pc[r] \in {"done", "killed"} \/ []InExecutor(r))

(***************************************************************************)
(* What the documentation says and the code does not do.                   *)
(***************************************************************************)

(* README and chaos.rs: a jitter is injected.  Once apply_chaos has        *)
(* returned and tc did not fail by itself, a run that asked for a jitter   *)
(* has it.                                                                 *)
JitterInjected ==
    \A r \in Runs : pc[r] = "engine" /\ request[r].profile.jitter > 0 =>
        /\ applied[r]
        /\ qdisc # NoQdisc /\ qdisc.owner = r => qdisc.netem.jitter = request[r].profile.jitter
=============================================================================
