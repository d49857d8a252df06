--------------------------- MODULE MiniboxProofs ---------------------------
(***************************************************************************)
(* Proofs about the minibox processes of one host, for every number of     *)
(* them, every command line and every combination of faults.               *)
(***************************************************************************)
EXTENDS Minibox, ContainerProofs

(* What every proof about a step starts from.                              *)
LEMMA NextCases ==
    ASSUME [Next]_vars
    PROVE  \/ \E r \in Runs : \E req \in Requests[r] : Begin(r, req)
           \/ \E r \in Runs :
                 \/ ApplyChaos(r) \/ RunProcess(r) \/ EnterContainer(r) \/ LeaveContainer(r)
                 \/ NoKernel(r) \/ StartVm(r) \/ CollectVm(r) \/ TimeoutVm(r) \/ ExitRun(r)
                 \/ Look(r) \/ Unlink(r) \/ Bind(r) \/ Connect(r) \/ Exec(r) \/ Fetch(r)
                 \/ VmEnds(r) \/ Kill(r)
           \/ UNCHANGED cliVars
  BY DEF Next, RunStep, DaemonStep, ExecStep, Finished, vars

-----------------------------------------------------------------------------
(* The steps of run, daemon and exec leave the containers alone or take a  *)
(* step of them.                                                           *)
LEMMA ContainerSteps ==
    ASSUME [Next]_vars
    PROVE  [ContainerNext]_containerVars
  <1>1. ASSUME NEW r \in Runs, RunStep(r) PROVE ContainerNext \/ UNCHANGED containerVars
    BY <1>1 DEF RunStep, ApplyChaos, RunProcess, EnterContainer, LeaveContainer, NoKernel,
       StartVm, CollectVm, TimeoutVm, ExitRun, ContainerNext
  <1>2. ASSUME NEW r \in Runs, DaemonStep(r) \/ ExecStep(r) \/ VmEnds(r)
        PROVE  UNCHANGED containerVars
    BY <1>2 DEF DaemonStep, ExecStep, Look, Unlink, Bind, Connect, Exec, Fetch, VmEnds
  <1>3. ASSUME NEW r \in Runs, Visit(r) \/ Kill(r) PROVE ContainerNext \/ UNCHANGED containerVars
    BY <1>3 DEF Kill, ContainerNext
  <1>4. ASSUME NEW r \in Runs, NEW req \in Requests[r], Begin(r, req)
        PROVE  UNCHANGED containerVars
    BY <1>4 DEF Begin
  <1>5. CASE UNCHANGED vars
    BY <1>5 DEF vars
  <1> QED BY <1>1, <1>2, <1>3, <1>4, <1>5 DEF Next, Finished

(* Every process of the host runs its container as module ContainerFs has  *)
(* it.                                                                     *)
THEOREM RunsContainers == Spec => ContainerSpec
<1>1. Init => ContainerInit
  BY DEF Init
<1>2. [Next]_vars => [ContainerNext]_containerVars
  BY ContainerSteps
<1> QED
  BY <1>1, <1>2, PTL DEF Spec, ContainerSpec

(* Hence what is proved of containers holds on the host: a command runs    *)
(* confined or not at all, ...                                             *)
THEOREM HostConfined == Spec => []Confined
  BY RunsContainers, AlwaysConfined, PTL

(* ... the workspace survives every cleanup, ...                           *)
THEOREM HostWorkspaceKept == Spec => []WorkspaceKept
  BY RunsContainers, NeverDeletes, PTL

(* ... and a call leaves nothing behind of what it has set up completely   *)
(* but a directory that the host would not delete.                         *)
THEOREM HostNothingLeft == Spec => []NothingLeft
  BY RunsContainers, LeavesNothing, PTL

-----------------------------------------------------------------------------
(* What a process works out from its command line has its type: the limits *)
(* are numbers, and every file has an architecture.                        *)
LEMMA MemoryType ==
    ASSUME NEW ram \in 0 .. Word - 1
    PROVE  RunMemory(ram) \in Nat /\ ExecMemory(ram) \in Nat
  <1>1. ram \in Nat /\ MB \in Nat /\ Word \in Nat /\ Word > 0
    BY LimitsAssumption
  <1>2. ram * MB \in Nat
    BY <1>1
  <1>3. MemoryBytes(ram) \in Nat
    BY <1>1, <1>2 DEF MemoryBytes
  <1> QED BY <1>1, <1>3 DEF RunMemory, ExecMemory, DefaultMemory

(* A time limit is a number.                                               *)
LEMMA WallType ==
    ASSUME NEW secs \in Nat
    PROVE  RunWall(secs) \in Nat /\ ExecWall(secs) \in Nat /\ VmWall(secs) \in Nat
  BY DEF RunWall, ExecWall, VmWall, VmSession, AtLeast, DefaultWall, DefaultVmWall

(* What detect_binary_architecture answers is an architecture.             *)
LEMMA ArchType ==
    ASSUME NEW file \in Files
    PROVE  DetectBinaryArchitecture(file) \in Archs
  <1>1. \A n : MachineArch(n) \in Archs
    BY DEF MachineArch, Archs
  <1> QED BY <1>1 DEF DetectBinaryArchitecture, Archs

(* Every command line becomes a plan.                                      *)
LEMMA PlanType ==
    ASSUME NEW req \in CommandLines
    PROVE  Plan(req) \in Plans
  <1>1. CASE req \in RunLines
    <2>1. req.op = "run" /\ req.ram \in 0 .. Word - 1 /\ req.secs \in Nat
          /\ req.arch \in TargetArchs \cup {"none"}
      BY <1>1 DEF RunLines
    <2>2. RunMemory(req.ram) \in Nat /\ RunWall(req.secs) \in Nat /\ VmWall(req.secs) \in Nat
      BY <2>1, MemoryType, WallType
    <2>3. WrapIfNeeded(req.arch, Host, Emulators) \in BOOLEAN
      BY DEF WrapIfNeeded
    <2> QED BY <2>1, <2>2, <2>3 DEF Plan, Plans, Archs, TargetArchs
  <1>2. CASE req \in ExecLines
    <2>1. req.op = "exec" /\ req.ram \in 0 .. Word - 1 /\ req.secs \in Nat
      BY <1>2 DEF ExecLines
    <2>2. ExecMemory(req.ram) \in Nat /\ ExecWall(req.secs) \in Nat
      BY <2>1, MemoryType, WallType
    <2> QED BY <2>1, <2>2 DEF Plan, Plans, NoPlan
  <1>3. CASE req \in ArchLines
    <2>1. req.op = "arch" /\ DetectBinaryArchitecture(req.file) \in Archs
      BY <1>3, ArchType DEF ArchLines
    <2>2. RequiresEmulation(DetectBinaryArchitecture(req.file), Host) \in BOOLEAN
      BY DEF RequiresEmulation
    <2> QED BY <2>1, <2>2 DEF Plan, Plans, NoPlan
  <1>4. CASE req \in [op : {"daemon"}]
    <2>1. req.op = "daemon"
      BY <1>4
    <2> QED BY <2>1 DEF Plan, Plans, NoPlan
  <1> QED BY <1>1, <1>2, <1>3, <1>4 DEF CommandLines

(* Every step keeps the types.                                             *)
LEMMA CliTypeStep ==
    ASSUME ContainerTypeOK, CliTypeOK, [Next]_vars
    PROVE  CliTypeOK'
  <1> USE MiniboxAssumption DEF CliTypeOK, NoQdisc, lineVars, chaosVars, daemonVars
  <1>1. ASSUME NEW r \in Runs, NEW req \in Requests[r], Begin(r, req) PROVE CliTypeOK'
    <2>1. req \in CommandLines
      OBVIOUS
    <2>2. req.op \in {"run", "daemon", "exec", "arch"}
      BY <2>1 DEF CommandLines, RunLines, ExecLines, ArchLines
    <2>3. request' \in [Runs -> CommandLines \cup {NoRequest}]
      BY <1>1, <2>1 DEF Begin
    <2>4. pc' \in [Runs -> {"off", "chaos", "engine", "container", "vm", "clear", "look", "unlink",
                           "bind", "serving", "connect", "remote", "fetch", "done", "killed"}]
          /\ code' \in [Runs -> {"none", "zero", "other"}]
      <3>1. CASE req.op = "run"
        BY <1>1, <3>1 DEF Begin, To, Quit
      <3>2. CASE req.op = "daemon"
        BY <1>1, <3>2 DEF Begin, To, Quit
      <3>3. CASE req.op = "exec"
        BY <1>1, <3>3 DEF Begin, To, Quit
      <3>4. CASE req.op = "arch"
        BY <1>1, <3>4 DEF Begin, To, Quit
      <3> QED BY <2>2, <3>1, <3>2, <3>3, <3>4
    <2>5. plan' \in [Runs -> Plans]
      BY <1>1, <2>1, PlanType DEF Begin
    <2> QED BY <1>1, <2>3, <2>4, <2>5 DEF Begin
  <1>2. ASSUME NEW r \in Runs, ApplyChaos(r) PROVE CliTypeOK'
    <2>1. qdisc'.owner \in Runs \cup {NoRun} /\ applied' \in [Runs -> BOOLEAN]
      <3>1. CASE /\ qdisc' = [owner |-> r, netem |-> Installed(NetemArgs(request[r].profile))]
                 /\ applied' = [applied EXCEPT ![r] = TRUE]
        BY <3>1
      <3>2. CASE UNCHANGED <<qdisc, applied>>
        BY <3>2
      <3> QED BY <1>2, <3>1, <3>2 DEF ApplyChaos
    <2> QED BY <1>2, <2>1 DEF ApplyChaos, To
  <1>3. ASSUME NEW r \in Runs, RunProcess(r) PROVE CliTypeOK'
    BY <1>3 DEF RunProcess, Returns, To
  <1>4. ASSUME NEW r \in Runs, EnterContainer(r) PROVE CliTypeOK'
    BY <1>4 DEF EnterContainer, To
  <1>5. ASSUME NEW r \in Runs, LeaveContainer(r) PROVE CliTypeOK'
    BY <1>5 DEF LeaveContainer, Returns, To, ContainerTypeOK
  <1>6. ASSUME NEW r \in Runs, NoKernel(r) PROVE CliTypeOK'
    BY <1>6 DEF NoKernel, Clear, Quit, To
  <1>7. ASSUME NEW r \in Runs, StartVm(r) PROVE CliTypeOK'
    BY <1>7 DEF StartVm, Returns, To
  <1>8. ASSUME NEW r \in Runs, CollectVm(r) PROVE CliTypeOK'
    BY <1>8 DEF CollectVm, Returns, To
  <1>9. ASSUME NEW r \in Runs, TimeoutVm(r) PROVE CliTypeOK'
    BY <1>9 DEF TimeoutVm, Returns, To
  <1>10. ASSUME NEW r \in Runs, ExitRun(r) PROVE CliTypeOK'
    BY <1>10 DEF ExitRun, Clear, Quit, To
  <1>11. ASSUME NEW r \in Runs, Look(r) PROVE CliTypeOK'
    BY <1>11 DEF Look, To
  <1>12. ASSUME NEW r \in Runs, Unlink(r) PROVE CliTypeOK'
    BY <1>12 DEF Unlink, To
  <1>13. ASSUME NEW r \in Runs, Bind(r) PROVE CliTypeOK'
    BY <1>13 DEF Bind, To, Quit
  <1>14. ASSUME NEW r \in Runs, Connect(r) PROVE CliTypeOK'
    BY <1>14 DEF Connect, To, Quit
  <1>15. ASSUME NEW r \in Runs, Exec(r) PROVE CliTypeOK'
    BY <1>15 DEF Exec, AfterExec, To, Quit
  <1>16. ASSUME NEW r \in Runs, Fetch(r) PROVE CliTypeOK'
    BY <1>16 DEF Fetch, To, Quit
  <1>17. ASSUME NEW r \in Runs, VmEnds(r) PROVE CliTypeOK'
    BY <1>17 DEF VmEnds
  <1>18. ASSUME NEW r \in Runs, Kill(r) PROVE CliTypeOK'
    BY <1>18 DEF Kill, To
  <1>19. CASE UNCHANGED cliVars
    BY <1>19 DEF cliVars
  <1> QED
    BY <1>1, <1>2, <1>3, <1>4, <1>5, <1>6, <1>7, <1>8, <1>9, <1>10,
       <1>11, <1>12, <1>13, <1>14, <1>15, <1>16, <1>17, <1>18, <1>19, NextCases

-----------------------------------------------------------------------------
(* Where Begin leads, by the kind of the command line.                     *)
LEMMA BeginLeads ==
    ASSUME NEW r \in Runs, NEW req \in Requests[r], Begin(r, req)
    PROVE  \E x \in {"chaos", "done", "look", "connect"} :
              pc' = [pc EXCEPT ![r] = x] /\ (x = "look" <=> req.op = "daemon")
  <1>1. req \in CommandLines
    BY MiniboxAssumption
  <1>2. req.op \in {"run", "daemon", "exec", "arch"}
    BY <1>1 DEF CommandLines, RunLines, ExecLines, ArchLines
  <1>3. CASE req.op = "run"
    BY <1>3 DEF Begin, To, Quit
  <1>4. CASE req.op = "daemon"
    BY <1>4 DEF Begin, To, Quit
  <1>5. CASE req.op = "exec"
    BY <1>5 DEF Begin, To, Quit
  <1>6. CASE req.op = "arch"
    BY <1>6 DEF Begin, To, Quit
  <1> QED BY <1>2, <1>3, <1>4, <1>5, <1>6

(* The states in which a run may own the netem of the interface.           *)
Owning == {"engine", "container", "vm", "clear", "killed"}

(* A step that leaves the interface alone and, in a run, stays within      *)
(* those states.                                                           *)
LEMMA NetemKept ==
    ASSUME CliTypeOK, NetemInv, NetemOwned, NEW r \in Runs, NEW x,
           pc' = [pc EXCEPT ![r] = x], UNCHANGED chaosVars,
           pc[r] \in Owning => x \in Owning
    PROVE  (NetemInv /\ NetemOwned)'
  BY DEF CliTypeOK, NetemInv, NetemOwned, NoQdisc, Owning, chaosVars

(* Every step keeps the ownership of the interface: a run leaves the       *)
(* states in which it owns a netem only by way of Clear or of a kill.      *)
LEMMA NetemStep ==
    ASSUME CliTypeOK, NetemInv, NetemOwned, [Next]_vars
    PROVE  (NetemInv /\ NetemOwned)'
  <1> USE DEF CliTypeOK, NetemInv, NetemOwned, NoQdisc, lineVars, chaosVars, daemonVars
  <1>1. ASSUME NEW r \in Runs, NEW req \in Requests[r], Begin(r, req) PROVE (NetemInv /\ NetemOwned)'
    <2>1. pc[r] = "off" /\ UNCHANGED chaosVars /\ \E x : pc' = [pc EXCEPT ![r] = x]
      BY <1>1, BeginLeads DEF Begin
    <2> QED BY <2>1, NetemKept DEF Owning
  <1>2. ASSUME NEW r \in Runs, ApplyChaos(r) PROVE (NetemInv /\ NetemOwned)'
    BY <1>2 DEF ApplyChaos, To
  <1>3. ASSUME NEW r \in Runs, RunProcess(r) PROVE (NetemInv /\ NetemOwned)'
    BY <1>3 DEF RunProcess, Returns, To
  <1>4. ASSUME NEW r \in Runs, EnterContainer(r) PROVE (NetemInv /\ NetemOwned)'
    BY <1>4 DEF EnterContainer, To
  <1>5. ASSUME NEW r \in Runs, LeaveContainer(r) PROVE (NetemInv /\ NetemOwned)'
    BY <1>5 DEF LeaveContainer, Returns, To
  <1>6. ASSUME NEW r \in Runs, NoKernel(r) PROVE (NetemInv /\ NetemOwned)'
    BY <1>6 DEF NoKernel, Clear, Quit, To
  <1>7. ASSUME NEW r \in Runs, StartVm(r) PROVE (NetemInv /\ NetemOwned)'
    <2>1. pc[r] = "engine" /\ UNCHANGED chaosVars /\ \E x \in {"vm", "clear"} : pc' = [pc EXCEPT ![r] = x]
      BY <1>7 DEF StartVm, Returns, To
    <2> QED BY <2>1, NetemKept DEF Owning
  <1>8. ASSUME NEW r \in Runs, CollectVm(r) PROVE (NetemInv /\ NetemOwned)'
    BY <1>8 DEF CollectVm, Returns, To
  <1>9. ASSUME NEW r \in Runs, TimeoutVm(r) PROVE (NetemInv /\ NetemOwned)'
    BY <1>9 DEF TimeoutVm, Returns, To
  <1>10. ASSUME NEW r \in Runs, ExitRun(r) PROVE (NetemInv /\ NetemOwned)'
    BY <1>10 DEF ExitRun, Clear, Quit, To
  <1>11. ASSUME NEW r \in Runs, Look(r) PROVE (NetemInv /\ NetemOwned)'
    BY <1>11 DEF Look, To
  <1>12. ASSUME NEW r \in Runs, Unlink(r) PROVE (NetemInv /\ NetemOwned)'
    BY <1>12 DEF Unlink, To
  <1>13. ASSUME NEW r \in Runs, Bind(r) PROVE (NetemInv /\ NetemOwned)'
    <2>1. pc[r] = "bind" /\ UNCHANGED chaosVars /\ \E x \in {"serving", "done"} : pc' = [pc EXCEPT ![r] = x]
      BY <1>13 DEF Bind, To, Quit
    <2> QED BY <2>1, NetemKept DEF Owning
  <1>14. ASSUME NEW r \in Runs, Connect(r) PROVE (NetemInv /\ NetemOwned)'
    <2>1. pc[r] = "connect" /\ UNCHANGED chaosVars /\ \E x \in {"remote", "done"} : pc' = [pc EXCEPT ![r] = x]
      BY <1>14 DEF Connect, To, Quit
    <2> QED BY <2>1, NetemKept DEF Owning
  <1>15. ASSUME NEW r \in Runs, Exec(r) PROVE (NetemInv /\ NetemOwned)'
    <2>1. pc[r] = "remote" /\ UNCHANGED chaosVars /\ \E x \in {"fetch", "done"} : pc' = [pc EXCEPT ![r] = x]
      BY <1>15 DEF Exec, AfterExec, To, Quit
    <2> QED BY <2>1, NetemKept DEF Owning
  <1>16. ASSUME NEW r \in Runs, Fetch(r) PROVE (NetemInv /\ NetemOwned)'
    <2>1. pc[r] = "fetch" /\ UNCHANGED chaosVars /\ \E x \in {"done"} : pc' = [pc EXCEPT ![r] = x]
      BY <1>16 DEF Fetch, To, Quit
    <2> QED BY <2>1, NetemKept DEF Owning
  <1>17. ASSUME NEW r \in Runs, VmEnds(r) PROVE (NetemInv /\ NetemOwned)'
    BY <1>17 DEF VmEnds
  <1>18. ASSUME NEW r \in Runs, Kill(r) PROVE (NetemInv /\ NetemOwned)'
    BY <1>18 DEF Kill, To
  <1>19. CASE UNCHANGED cliVars
    BY <1>19 DEF cliVars
  <1> QED
    BY <1>1, <1>2, <1>3, <1>4, <1>5, <1>6, <1>7, <1>8, <1>9, <1>10,
       <1>11, <1>12, <1>13, <1>14, <1>15, <1>16, <1>17, <1>18, <1>19, NextCases

(* Every step keeps a virtual machine within the run that waits for it.    *)
LEMMA VmStep ==
    ASSUME CliTypeOK, VmStopped, [Next]_vars
    PROVE  VmStopped'
  <1> USE DEF CliTypeOK, VmStopped, lineVars, chaosVars, daemonVars
  <1>1. ASSUME NEW r \in Runs, NEW req \in Requests[r], Begin(r, req) PROVE VmStopped'
    <2>1. pc[r] = "off" /\ UNCHANGED vm /\ \E x : pc' = [pc EXCEPT ![r] = x]
      BY <1>1, BeginLeads DEF Begin
    <2> QED BY <2>1
  <1>2. ASSUME NEW r \in Runs, ApplyChaos(r) PROVE VmStopped'
    BY <1>2 DEF ApplyChaos, To
  <1>3. ASSUME NEW r \in Runs, RunProcess(r) PROVE VmStopped'
    BY <1>3 DEF RunProcess, Returns, To
  <1>4. ASSUME NEW r \in Runs, EnterContainer(r) PROVE VmStopped'
    BY <1>4 DEF EnterContainer, To
  <1>5. ASSUME NEW r \in Runs, LeaveContainer(r) PROVE VmStopped'
    BY <1>5 DEF LeaveContainer, Returns, To
  <1>6. ASSUME NEW r \in Runs, NoKernel(r) PROVE VmStopped'
    BY <1>6 DEF NoKernel, Clear, Quit, To
  <1>7. ASSUME NEW r \in Runs, StartVm(r) PROVE VmStopped'
    BY <1>7 DEF StartVm, Returns, To
  <1>8. ASSUME NEW r \in Runs, CollectVm(r) PROVE VmStopped'
    BY <1>8 DEF CollectVm, Returns, To
  <1>9. ASSUME NEW r \in Runs, TimeoutVm(r) PROVE VmStopped'
    BY <1>9 DEF TimeoutVm, Returns, To
  <1>10. ASSUME NEW r \in Runs, ExitRun(r) PROVE VmStopped'
    BY <1>10 DEF ExitRun, Clear, Quit, To
  <1>11. ASSUME NEW r \in Runs, Look(r) PROVE VmStopped'
    BY <1>11 DEF Look, To
  <1>12. ASSUME NEW r \in Runs, Unlink(r) PROVE VmStopped'
    BY <1>12 DEF Unlink, To
  <1>13. ASSUME NEW r \in Runs, Bind(r) PROVE VmStopped'
    BY <1>13 DEF Bind, To, Quit
  <1>14. ASSUME NEW r \in Runs, Connect(r) PROVE VmStopped'
    BY <1>14 DEF Connect, To, Quit
  <1>15. ASSUME NEW r \in Runs, Exec(r) PROVE VmStopped'
    BY <1>15 DEF Exec, AfterExec, To, Quit
  <1>16. ASSUME NEW r \in Runs, Fetch(r) PROVE VmStopped'
    BY <1>16 DEF Fetch, To, Quit
  <1>17. ASSUME NEW r \in Runs, VmEnds(r) PROVE VmStopped'
    BY <1>17 DEF VmEnds
  <1>18. ASSUME NEW r \in Runs, Kill(r) PROVE VmStopped'
    BY <1>18 DEF Kill, To
  <1>19. CASE UNCHANGED cliVars
    BY <1>19 DEF cliVars
  <1> QED
    BY <1>1, <1>2, <1>3, <1>4, <1>5, <1>6, <1>7, <1>8, <1>9, <1>10,
       <1>11, <1>12, <1>13, <1>14, <1>15, <1>16, <1>17, <1>18, <1>19, NextCases

(* Every step keeps what a daemon that is starting knows of the path.      *)
LEMMA DaemonStepSound ==
    ASSUME CliTypeOK, DaemonInv, StaleNeverBlocks, [Next]_vars
    PROVE  (DaemonInv /\ StaleNeverBlocks)'
  <1> USE MiniboxAssumption DEF CliTypeOK, DaemonInv, StaleNeverBlocks, lineVars, chaosVars, daemonVars
  <1>1. ASSUME NEW r \in Runs, NEW req \in Requests[r], Begin(r, req) PROVE (DaemonInv /\ StaleNeverBlocks)'
    <2>1. /\ UNCHANGED <<sock, bound, refused>> /\ request' = [request EXCEPT ![r] = req]
          /\ \E x \in {"chaos", "done", "look", "connect"} :
                pc' = [pc EXCEPT ![r] = x] /\ (x = "look" <=> req.op = "daemon")
      BY <1>1, BeginLeads DEF Begin
    <2> QED BY <2>1
  <1>2. ASSUME NEW r \in Runs, ApplyChaos(r) PROVE (DaemonInv /\ StaleNeverBlocks)'
    BY <1>2 DEF ApplyChaos, To
  <1>3. ASSUME NEW r \in Runs, RunProcess(r) PROVE (DaemonInv /\ StaleNeverBlocks)'
    BY <1>3 DEF RunProcess, Returns, To
  <1>4. ASSUME NEW r \in Runs, EnterContainer(r) PROVE (DaemonInv /\ StaleNeverBlocks)'
    BY <1>4 DEF EnterContainer, To
  <1>5. ASSUME NEW r \in Runs, LeaveContainer(r) PROVE (DaemonInv /\ StaleNeverBlocks)'
    BY <1>5 DEF LeaveContainer, Returns, To
  <1>6. ASSUME NEW r \in Runs, NoKernel(r) PROVE (DaemonInv /\ StaleNeverBlocks)'
    BY <1>6 DEF NoKernel, Clear, Quit, To
  <1>7. ASSUME NEW r \in Runs, StartVm(r) PROVE (DaemonInv /\ StaleNeverBlocks)'
    BY <1>7 DEF StartVm, Returns, To
  <1>8. ASSUME NEW r \in Runs, CollectVm(r) PROVE (DaemonInv /\ StaleNeverBlocks)'
    BY <1>8 DEF CollectVm, Returns, To
  <1>9. ASSUME NEW r \in Runs, TimeoutVm(r) PROVE (DaemonInv /\ StaleNeverBlocks)'
    BY <1>9 DEF TimeoutVm, Returns, To
  <1>10. ASSUME NEW r \in Runs, ExitRun(r) PROVE (DaemonInv /\ StaleNeverBlocks)'
    BY <1>10 DEF ExitRun, Clear, Quit, To
  <1>11. ASSUME NEW r \in Runs, Look(r) PROVE (DaemonInv /\ StaleNeverBlocks)'
    BY <1>11 DEF Look, To
  <1>12. ASSUME NEW r \in Runs, Unlink(r) PROVE (DaemonInv /\ StaleNeverBlocks)'
    BY <1>12 DEF Unlink, To
  <1>13. ASSUME NEW r \in Runs, Bind(r) PROVE (DaemonInv /\ StaleNeverBlocks)'
    <2>1. CASE sock = NoRun /\ pc' = [pc EXCEPT ![r] = "serving"]
      <3>1. /\ pc[r] = "bind" /\ pc' = [pc EXCEPT ![r] = "serving"] /\ UNCHANGED request
            /\ bound' = [q \in Runs |-> IF q = r THEN bound[q] ELSE bound[q] \cup {r}]
        BY <1>13, <2>1 DEF Bind, To, Quit
      <3>2. \A q \in Runs \ {r} : bound'[q] # {} /\ pc'[q] = pc[q]
        BY <3>1
      <3>3. pc'[r] = "serving" /\ request[r].op = "daemon"
        BY <3>1
      <3> QED BY <3>1, <3>2, <3>3
    <2>2. CASE sock # NoRun
      BY <1>13, <2>2 DEF Bind, Quit, To
    <2>3. CASE sock = NoRun /\ r \in refused' /\ pc' = [pc EXCEPT ![r] = "done"]
      <3>1. pc'[r] = "done"
        BY <2>3
      <3>2. /\ pc[r] = "bind" /\ UNCHANGED <<sock, bound, request>>
            /\ refused \subseteq refused'
        BY <1>13, <2>3, <3>1 DEF Bind, To, Quit
      <3> QED BY <2>3, <3>2
    <2> QED BY <1>13, <2>1, <2>2, <2>3 DEF Bind, To, Quit
  <1>14. ASSUME NEW r \in Runs, Connect(r) PROVE (DaemonInv /\ StaleNeverBlocks)'
    BY <1>14 DEF Connect, To, Quit
  <1>15. ASSUME NEW r \in Runs, Exec(r) PROVE (DaemonInv /\ StaleNeverBlocks)'
    BY <1>15 DEF Exec, AfterExec, To, Quit
  <1>16. ASSUME NEW r \in Runs, Fetch(r) PROVE (DaemonInv /\ StaleNeverBlocks)'
    BY <1>16 DEF Fetch, To, Quit
  <1>17. ASSUME NEW r \in Runs, VmEnds(r) PROVE (DaemonInv /\ StaleNeverBlocks)'
    BY <1>17 DEF VmEnds
  <1>18. ASSUME NEW r \in Runs, Kill(r) PROVE (DaemonInv /\ StaleNeverBlocks)'
    BY <1>18 DEF Kill, To
  <1>19. CASE UNCHANGED cliVars
    BY <1>19 DEF cliVars
  <1> QED
    BY <1>1, <1>2, <1>3, <1>4, <1>5, <1>6, <1>7, <1>8, <1>9, <1>10,
       <1>11, <1>12, <1>13, <1>14, <1>15, <1>16, <1>17, <1>18, <1>19, NextCases

-----------------------------------------------------------------------------
(* Every variable keeps its type, the container's included.                *)
THEOREM TypeCorrect == Spec => []TypeOK
<1>1. Init => CliTypeOK
  <2>1. NoPlan \in Plans
    BY DEF NoPlan, Plans
  <2> QED BY <2>1, MiniboxAssumption DEF Init, CliTypeOK, NoQdisc, NoRequest
<1>2. Sound /\ CliTypeOK /\ [Next]_vars => CliTypeOK'
  BY CliTypeStep DEF Sound
<1>3. Sound /\ CliTypeOK => TypeOK
  BY DEF Sound, TypeOK
<1> QED
  BY <1>1, <1>2, <1>3, RunsContainers, AlwaysSound, PTL DEF Spec

(* A netem on the interface belongs to a run under way, unless that run    *)
(* was killed or tc failed, however many runs replace and clear it.        *)
THEOREM NetemBelongs == Spec => []NetemOwned
<1>1. Init => NetemInv /\ NetemOwned
  BY DEF Init, NetemInv, NetemOwned
<1>2. TypeOK /\ NetemInv /\ NetemOwned /\ [Next]_vars => (NetemInv /\ NetemOwned)'
  BY NetemStep DEF TypeOK
<1> QED
  BY <1>1, <1>2, TypeCorrect, PTL DEF Spec

(* A run that is over, and was not killed, leaves no QEMU behind.          *)
THEOREM VmBelongs == Spec => []VmStopped
<1>1. Init => VmStopped
  BY DEF Init, VmStopped
<1>2. TypeOK /\ VmStopped /\ [Next]_vars => VmStopped'
  BY VmStep DEF TypeOK
<1> QED
  BY <1>1, <1>2, TypeCorrect, PTL DEF Spec

(* The socket file of a daemon that is gone never keeps one from starting, *)
(* on a host that lets it remove the file and bind the path.               *)
THEOREM StaleHarmless == Spec => []StaleNeverBlocks
<1>1. Init => DaemonInv /\ StaleNeverBlocks
  BY DEF Init, DaemonInv, StaleNeverBlocks, NoRequest
<1>2. TypeOK /\ DaemonInv /\ StaleNeverBlocks /\ [Next]_vars => (DaemonInv /\ StaleNeverBlocks)'
  BY DaemonStepSound DEF TypeOK
<1> QED
  BY <1>1, <1>2, TypeCorrect, PTL DEF Spec

-----------------------------------------------------------------------------
(***************************************************************************)
(* What a process has worked out stays what its command line says.         *)
(***************************************************************************)

(* Only Begin reads a command line, and it does so once.                   *)
LEMMA LineStep ==
    ASSUME CliTypeOK, [Next]_vars
    PROVE  \/ \E r \in Runs : \E req \in Requests[r] : Begin(r, req)
           \/ UNCHANGED lineVars /\ \A q \in Runs : pc'[q] = "off" => pc[q] = "off"
  <1> DEFINE Stays == UNCHANGED lineVars /\ \A q \in Runs : pc'[q] = "off" => pc[q] = "off"
  <1>a. ASSUME NEW r \in Runs, NEW x, x /= "off", pc' = [pc EXCEPT ![r] = x], UNCHANGED lineVars
        PROVE  Stays
    BY <1>a DEF CliTypeOK
  <1>1. ASSUME NEW r \in Runs, ApplyChaos(r) PROVE Stays
    <2>1. UNCHANGED lineVars /\ \E x : x /= "off" /\ pc' = [pc EXCEPT ![r] = x]
      BY <1>1 DEF ApplyChaos, To
    <2> QED BY <1>a, <2>1
  <1>2. ASSUME NEW r \in Runs, RunProcess(r) PROVE Stays
    <2>1. UNCHANGED lineVars /\ \E x : x /= "off" /\ pc' = [pc EXCEPT ![r] = x]
      BY <1>2 DEF RunProcess, Returns, To
    <2> QED BY <1>a, <2>1
  <1>3. ASSUME NEW r \in Runs, EnterContainer(r) PROVE Stays
    <2>1. UNCHANGED lineVars /\ \E x : x /= "off" /\ pc' = [pc EXCEPT ![r] = x]
      BY <1>3 DEF EnterContainer, To
    <2> QED BY <1>a, <2>1
  <1>4. ASSUME NEW r \in Runs, LeaveContainer(r) PROVE Stays
    <2>1. UNCHANGED lineVars /\ \E x : x /= "off" /\ pc' = [pc EXCEPT ![r] = x]
      BY <1>4 DEF LeaveContainer, Returns, To
    <2> QED BY <1>a, <2>1
  <1>5. ASSUME NEW r \in Runs, NoKernel(r) PROVE Stays
    <2>1. UNCHANGED lineVars /\ \E x : x /= "off" /\ pc' = [pc EXCEPT ![r] = x]
      BY <1>5 DEF NoKernel, Quit, To
    <2> QED BY <1>a, <2>1
  <1>6. ASSUME NEW r \in Runs, StartVm(r) PROVE Stays
    <2>1. UNCHANGED lineVars /\ \E x : x /= "off" /\ pc' = [pc EXCEPT ![r] = x]
      BY <1>6 DEF StartVm, Returns, To
    <2> QED BY <1>a, <2>1
  <1>7. ASSUME NEW r \in Runs, CollectVm(r) PROVE Stays
    <2>1. UNCHANGED lineVars /\ \E x : x /= "off" /\ pc' = [pc EXCEPT ![r] = x]
      BY <1>7 DEF CollectVm, Returns, To
    <2> QED BY <1>a, <2>1
  <1>8. ASSUME NEW r \in Runs, TimeoutVm(r) PROVE Stays
    <2>1. UNCHANGED lineVars /\ \E x : x /= "off" /\ pc' = [pc EXCEPT ![r] = x]
      BY <1>8 DEF TimeoutVm, Returns, To
    <2> QED BY <1>a, <2>1
  <1>9. ASSUME NEW r \in Runs, ExitRun(r) PROVE Stays
    <2>1. UNCHANGED lineVars /\ \E x : x /= "off" /\ pc' = [pc EXCEPT ![r] = x]
      BY <1>9 DEF ExitRun, Quit, To
    <2> QED BY <1>a, <2>1
  <1>10. ASSUME NEW r \in Runs, Look(r) PROVE Stays
    <2>1. UNCHANGED lineVars /\ \E x : x /= "off" /\ pc' = [pc EXCEPT ![r] = x]
      BY <1>10 DEF Look, To
    <2> QED BY <1>a, <2>1
  <1>11. ASSUME NEW r \in Runs, Unlink(r) PROVE Stays
    <2>1. UNCHANGED lineVars /\ \E x : x /= "off" /\ pc' = [pc EXCEPT ![r] = x]
      BY <1>11 DEF Unlink, To
    <2> QED BY <1>a, <2>1
  <1>12. ASSUME NEW r \in Runs, Bind(r) PROVE Stays
    <2>1. UNCHANGED lineVars /\ \E x : x /= "off" /\ pc' = [pc EXCEPT ![r] = x]
      BY <1>12 DEF Bind, Quit, To
    <2> QED BY <1>a, <2>1
  <1>13. ASSUME NEW r \in Runs, Connect(r) PROVE Stays
    <2>1. UNCHANGED lineVars /\ \E x : x /= "off" /\ pc' = [pc EXCEPT ![r] = x]
      BY <1>13 DEF Connect, Quit, To
    <2> QED BY <1>a, <2>1
  <1>14. ASSUME NEW r \in Runs, Exec(r) PROVE Stays
    <2>1. UNCHANGED lineVars /\ \E x : x /= "off" /\ pc' = [pc EXCEPT ![r] = x]
      BY <1>14 DEF Exec, AfterExec, Quit, To
    <2> QED BY <1>a, <2>1
  <1>15. ASSUME NEW r \in Runs, Fetch(r) PROVE Stays
    <2>1. UNCHANGED lineVars /\ \E x : x /= "off" /\ pc' = [pc EXCEPT ![r] = x]
      BY <1>15 DEF Fetch, Quit, To
    <2> QED BY <1>a, <2>1
  <1>16. ASSUME NEW r \in Runs, VmEnds(r) PROVE Stays
    BY <1>16 DEF VmEnds
  <1>17. ASSUME NEW r \in Runs, Kill(r) PROVE Stays
    <2>1. UNCHANGED lineVars /\ \E x : x /= "off" /\ pc' = [pc EXCEPT ![r] = x]
      BY <1>17 DEF Kill, To
    <2> QED BY <1>a, <2>1
  <1>18. CASE UNCHANGED cliVars
    BY <1>18 DEF cliVars
  <1> QED
    BY <1>1, <1>2, <1>3, <1>4, <1>5, <1>6, <1>7, <1>8, <1>9,
       <1>10, <1>11, <1>12, <1>13, <1>14, <1>15, <1>16, <1>17, <1>18, NextCases

(* The operation a command line names says which options it has.           *)
LEMMA CommandLineShape ==
    ASSUME NEW req \in CommandLines
    PROVE  /\ req.op \in {"run", "daemon", "exec", "arch"} /\ req /= NoRequest
           /\ req.op = "run" => req \in RunLines
           /\ req.op = "exec" => req \in ExecLines
           /\ req.op = "arch" => req \in ArchLines
  <1>1. /\ req \in RunLines => req.op = "run"
        /\ req \in [op : {"daemon"}] => req.op = "daemon"
        /\ req \in ExecLines => req.op = "exec"
        /\ req \in ArchLines => req.op = "arch"
    BY DEF RunLines, ExecLines, ArchLines
  <1>2. NoRequest.op = "none"
    BY DEF NoRequest
  <1> QED BY <1>1, <1>2 DEF CommandLines

(* Every step keeps the plan of a process the one of its command line.     *)
LEMMA PlanStep ==
    ASSUME CliTypeOK, PlanInv, [Next]_vars
    PROVE  PlanInv'
  <1>1. ASSUME NEW r \in Runs, NEW req \in Requests[r], Begin(r, req) PROVE PlanInv'
    <2>1. /\ request' = [request EXCEPT ![r] = req] /\ plan' = [plan EXCEPT ![r] = Plan(req)]
          /\ \E x : x /= "off" /\ pc' = [pc EXCEPT ![r] = x]
      BY <1>1, BeginLeads DEF Begin
    <2>2. pc'[r] /= "off" /\ request'[r] = req /\ plan'[r] = Plan(req)
      BY <2>1 DEF CliTypeOK
    <2>3. \A q \in Runs \ {r} : pc'[q] = pc[q] /\ request'[q] = request[q] /\ plan'[q] = plan[q]
      BY <2>1 DEF CliTypeOK
    <2>4. ASSUME NEW q \in Runs
          PROVE  /\ pc'[q] = "off" => request'[q] = NoRequest
                 /\ request'[q] /= NoRequest => plan'[q] = Plan(request'[q])
      BY <2>2, <2>3 DEF PlanInv
    <2> QED BY <2>4 DEF PlanInv, Plan
  <1>2. CASE UNCHANGED lineVars /\ \A q \in Runs : pc'[q] = "off" => pc[q] = "off"
    <2>1. UNCHANGED <<request, plan>>
      BY <1>2 DEF lineVars
    <2> QED BY <1>2, <2>1 DEF PlanInv, Plan
  <1> QED BY <1>1, <1>2, LineStep

(* The plan of a process is that of its command line.                      *)
THEOREM PlansKept == Spec => []PlanInv
<1>1. Init => PlanInv
  BY DEF Init, PlanInv
<1>2. TypeOK /\ PlanInv /\ [Next]_vars => PlanInv'
  BY PlanStep DEF TypeOK
<1> QED
  BY <1>1, <1>2, TypeCorrect, PTL DEF Spec

-----------------------------------------------------------------------------
(***************************************************************************)
(* Limits.                                                                 *)
(***************************************************************************)
LEMMA SmallMod ==
    ASSUME NEW p \in Nat, NEW w \in Nat, p < w
    PROVE  p % w = p
  OBVIOUS

(* A memory limit that fits into a word is passed on unchanged.            *)
LEMMA MemoryAsAsked ==
    ASSUME NEW ram \in 0 .. Word - 1
    PROVE  /\ ram * MB < Word => MemoryBytes(ram) = ram * MB
           /\ ram = 0 => MemoryBytes(ram) = 0
  <1>1. PICK p \in Nat : p = ram * MB /\ (ram = 0 => p = 0)
    BY LimitsAssumption
  <1>2. Word \in Nat /\ 0 < Word
    BY LimitsAssumption
  <1>3. p < Word => p % Word = p
    BY <1>2, SmallMod
  <1>4. MemoryBytes(ram) = p % Word
    BY <1>1 DEF MemoryBytes
  <1> QED BY <1>1, <1>2, <1>3, <1>4

(* No deadline is shorter than what was asked for, and there always is     *)
(* one.                                                                    *)
LEMMA WallAsAsked ==
    ASSUME NEW secs \in Nat
    PROVE  /\ RunWall(secs) > 0 /\ RunWall(secs) >= secs
           /\ ExecWall(secs) > 0 /\ ExecWall(secs) >= secs
           /\ VmWall(secs) > 0 /\ VmWall(secs) >= secs
  BY DEF RunWall, ExecWall, VmWall, VmSession, AtLeast, DefaultWall, DefaultVmWall

(* Whatever limits are asked for, run and exec plan with them: a memory    *)
(* limit is never cut down by the width of a word that could hold it, and  *)
(* no session is without a deadline.                                       *)
THEOREM LimitsKept == Spec => []LimitsAsAsked
<1>1. TypeOK /\ PlanInv => LimitsAsAsked
  <2> SUFFICES ASSUME TypeOK, PlanInv, NEW r \in Runs, request[r].op \in {"run", "exec"}
               PROVE  /\ request[r].ram > 0 /\ request[r].ram * MB < Word
                            => plan[r].memory = request[r].ram * MB
                      /\ request[r].ram = 0
                            => plan[r].memory = IF request[r].op = "run" THEN 0 ELSE DefaultMemory
                      /\ plan[r].wall > 0 /\ plan[r].wall >= request[r].secs
    BY DEF LimitsAsAsked
  <2>1. PICK req : req = request[r]
    OBVIOUS
  <2>2. req \in CommandLines /\ plan[r] = Plan(req)
    <3>1. req /= NoRequest
      BY <2>1 DEF NoRequest
    <3> QED BY <2>1, <3>1 DEF TypeOK, CliTypeOK, PlanInv
  <2>3. CASE req.op = "run"
    <3>1. req.ram \in 0 .. Word - 1 /\ req.secs \in Nat
      BY <2>2, <2>3, CommandLineShape DEF RunLines
    <3>2. Plan(req) = [memory |-> RunMemory(req.ram),
                       wall |-> IF req.engine = "microvm" THEN VmWall(req.secs) ELSE RunWall(req.secs),
                       arch |-> req.arch, emulate |-> WrapIfNeeded(req.arch, Host, Emulators)]
      BY <2>3 DEF Plan
    <3>3. /\ plan[r].memory = MemoryBytes(req.ram)
          /\ plan[r].wall \in {VmWall(req.secs), RunWall(req.secs)}
      BY <2>2, <3>2 DEF RunMemory
    <3>4. /\ req.ram * MB < Word => MemoryBytes(req.ram) = req.ram * MB
          /\ req.ram = 0 => MemoryBytes(req.ram) = 0
      BY <3>1, MemoryAsAsked
    <3>5. plan[r].wall > 0 /\ plan[r].wall >= req.secs
      BY <3>1, <3>3, WallAsAsked
    <3> QED BY <2>1, <2>3, <3>3, <3>4, <3>5
  <2>4. CASE req.op = "exec"
    <3>1. req.ram \in 0 .. Word - 1 /\ req.secs \in Nat
      BY <2>2, <2>4, CommandLineShape DEF ExecLines
    <3>2. Plan(req) = [NoPlan EXCEPT !.memory = ExecMemory(req.ram), !.wall = ExecWall(req.secs)]
      BY <2>4 DEF Plan
    <3>3. plan[r].memory = ExecMemory(req.ram) /\ plan[r].wall = ExecWall(req.secs)
      BY <2>2, <3>2 DEF NoPlan
    <3>4. req.ram * MB < Word => MemoryBytes(req.ram) = req.ram * MB
      BY <3>1, MemoryAsAsked
    <3>5. /\ req.ram > 0 => plan[r].memory = MemoryBytes(req.ram)
          /\ req.ram = 0 => plan[r].memory = DefaultMemory
      BY <3>1, <3>3 DEF ExecMemory
    <3>6. plan[r].wall > 0 /\ plan[r].wall >= req.secs
      BY <3>1, <3>3, WallAsAsked
    <3> QED BY <2>1, <2>4, <3>4, <3>5, <3>6
  <2> QED BY <2>1, <2>3, <2>4
<1> QED
  BY <1>1, TypeCorrect, PlansKept, PTL

-----------------------------------------------------------------------------
(***************************************************************************)
(* Architectures.                                                          *)
(***************************************************************************)

(* A file as a linker writes it is detected as what it was linked for.     *)
LEMMA ElfDetected ==
    ASSUME NEW arch \in DOMAIN ElfCodes, NEW order \in {1, 2}, NEW n \in 0 .. 64
    PROVE  DetectBinaryArchitecture(ElfFile(arch, order, n)) = IF n >= 20 THEN arch ELSE "Unknown"
  <1> DEFINE file == ElfFile(arch, order, n)
  <1>1. DOMAIN ElfCodes = {"X86_64", "Aarch64", "ArmV7", "Riscv64", "Mips"}
    BY DEF ElfCodes
  <1>2. PICK c \in {62, 183, 40, 243, 8} : c = ElfCodes[arch] /\ MachineArch(c) = arch
    BY <1>1 DEF ElfCodes, MachineArch
  <1>3. c % 256 = c /\ c \div 256 = 0
    OBVIOUS
  <1>4. /\ file.magic = "elf" /\ file.read = n /\ file.order = order
        /\ file.machine = IF order = 2 THEN <<0, c>> ELSE <<c, 0>>
    BY <1>2, <1>3 DEF ElfFile
  <1>5. Machine(file) = c
    BY <1>4 DEF Machine
  <1> HIDE DEF file
  <1>6. DetectBinaryArchitecture(file) = IF n >= 20 THEN arch ELSE "Unknown"
    BY <1>2, <1>4, <1>5 DEF DetectBinaryArchitecture
  <1> QED BY <1>6 DEF file

(* Such a file is emulated where that is needed and can be done.           *)
LEMMA EmulatedAsNeeded ==
    ASSUME NEW arch \in TargetArchs, NEW host \in HostArchs, NEW emulators,
           <<arch, host>> /= <<"Riscv64", "Riscv64">>
    PROVE  WrapIfNeeded(arch, host, emulators) <=> RequiresEmulation(arch, host) /\ arch \in emulators
  BY DEF WrapIfNeeded, RequiresEmulation, TargetArchs, HostArchs

(* Whatever ELF file `arch` is given, it names its architecture, or none   *)
(* when too little of it can be read.                                      *)
THEOREM ElfNamed == Spec => []DetectsElf
<1>1. TypeOK /\ PlanInv => DetectsElf
  <2> SUFFICES ASSUME TypeOK, PlanInv, NEW r \in Runs, NEW arch \in DOMAIN ElfCodes, NEW order \in {1, 2},
                      request[r].op = "arch",
                      request[r].file = ElfFile(arch, order, request[r].file.read)
               PROVE  /\ plan[r].arch = IF request[r].file.read >= 20 THEN arch ELSE "Unknown"
                      /\ \A host \in HostArchs, emulators \in SUBSET TargetArchs :
                            plan[r].arch \in TargetArchs /\ <<arch, host>> # <<"Riscv64", "Riscv64">> =>
                                (WrapIfNeeded(plan[r].arch, host, emulators)
                                    <=> RequiresEmulation(arch, host) /\ arch \in emulators)
    BY DEF DetectsElf
  <2>1. PICK req : req = request[r]
    OBVIOUS
  <2>2. req \in CommandLines /\ plan[r] = Plan(req)
    <3>1. req /= NoRequest
      BY <2>1 DEF NoRequest
    <3> QED BY <2>1, <3>1 DEF TypeOK, CliTypeOK, PlanInv
  <2>3. req.op = "arch" /\ req.file \in Files
    BY <2>1, <2>2, CommandLineShape DEF ArchLines
  <2>4. PICK n \in 0 .. 64 : n = req.file.read
    BY <2>3 DEF Files
  <2>5. plan[r].arch = DetectBinaryArchitecture(req.file)
    BY <2>2, <2>3 DEF Plan, NoPlan
  <2>6. plan[r].arch = IF n >= 20 THEN arch ELSE "Unknown"
    BY <2>1, <2>4, <2>5, ElfDetected
  <2>7. plan[r].arch \in TargetArchs => plan[r].arch = arch
    BY <2>6 DEF TargetArchs
  <2> QED BY <2>1, <2>4, <2>6, <2>7, EmulatedAsNeeded
<1> QED
  BY <1>1, TypeCorrect, PlansKept, PTL

-----------------------------------------------------------------------------
(***************************************************************************)
(* Exit codes.                                                             *)
(***************************************************************************)

(* What Told says of a process is about its own state only.                *)
LEMMA ToldKept ==
    ASSUME NEW q \in Runs, Told(q), result[q] = "ok" => result'[q] = "ok",
           pc'[q] = pc[q], request'[q] = request[q], outcome'[q] = outcome[q],
           code'[q] = code[q], remote'[q] = remote[q]
    PROVE  Told(q)'
  BY DEF Told

(* A step of one run changes nothing that the status of the others rests   *)
(* on.                                                                     *)
LEMMA OneTold ==
    ASSUME ToldInv, NEW r \in Runs, Told(r)', \A q \in Runs : result[q] = "ok" => result'[q] = "ok",
           \A q \in Runs \ {r} :
               /\ pc'[q] = pc[q] /\ request'[q] = request[q] /\ outcome'[q] = outcome[q]
               /\ code'[q] = code[q] /\ remote'[q] = remote[q]
    PROVE  ToldInv'
  <1> SUFFICES ASSUME NEW q \in Runs, q /= r PROVE Told(q)'
    BY DEF ToldInv
  <1> QED BY ToldKept DEF ToldInv

(* Every step of a process goes by what it was told.                       *)
LEMMA ToldStep ==
    ASSUME Sound, ResultInv, CliTypeOK, ToldInv, [Next]_vars
    PROVE  ToldInv'
  <1>a. \A q \in Runs : result[q] = "ok" => result'[q] = "ok"
    BY ContainerSteps, ResultStep
  <1> USE DEF lineVars, daemonVars
  <1>1. ASSUME NEW r \in Runs, NEW req \in Requests[r], Begin(r, req) PROVE ToldInv'
    <2>1. req \in CommandLines
      BY MiniboxAssumption
    <2>2. req.op \in {"run", "daemon", "exec", "arch"}
      BY <2>1, CommandLineShape
    <2>3. request' = [request EXCEPT ![r] = req] /\ UNCHANGED <<outcome, remote>>
      BY <1>1 DEF Begin
    <2>4. \/ /\ req.op = "run" /\ pc' = [pc EXCEPT ![r] = "chaos"] /\ UNCHANGED code
          \/ /\ req.op = "daemon" /\ pc' = [pc EXCEPT ![r] = "look"] /\ UNCHANGED code
          \/ /\ req.op = "exec" /\ pc' = [pc EXCEPT ![r] = "connect"] /\ UNCHANGED code
          \/ /\ pc' = [pc EXCEPT ![r] = "done"] /\ code' = [code EXCEPT ![r] = "other"]
          \/ /\ req.op = "arch" /\ pc' = [pc EXCEPT ![r] = "done"] /\ code' = [code EXCEPT ![r] = "zero"]
      <3>1. CASE req.op = "run"
        BY <1>1, <3>1 DEF Begin, To, Quit
      <3>2. CASE req.op = "daemon"
        BY <1>1, <3>2 DEF Begin, To, Quit
      <3>3. CASE req.op = "exec"
        BY <1>1, <3>3 DEF Begin, To, Quit
      <3>4. CASE req.op = "arch"
        BY <1>1, <3>4 DEF Begin, To, Quit
      <3> QED BY <2>2, <3>1, <3>2, <3>3, <3>4
    <2>5. \A q \in Runs \ {r} :
             /\ pc'[q] = pc[q] /\ request'[q] = request[q] /\ outcome'[q] = outcome[q]
             /\ code'[q] = code[q] /\ remote'[q] = remote[q]
      BY <2>3, <2>4 DEF CliTypeOK
    <2>6. Told(r)'
      BY <2>3, <2>4 DEF CliTypeOK, Told
    <2> QED BY <1>a, <2>5, <2>6, OneTold
  <1>2. ASSUME NEW r \in Runs, ApplyChaos(r) PROVE ToldInv'
    <2>1. \A q \in Runs \ {r} :
             /\ pc'[q] = pc[q] /\ request'[q] = request[q] /\ outcome'[q] = outcome[q]
             /\ code'[q] = code[q] /\ remote'[q] = remote[q]
      BY <1>2 DEF ApplyChaos, To, CliTypeOK
    <2>2. Told(r)
      BY DEF ToldInv
    <2>3. Told(r)'
      BY <1>2, <2>2, <1>a DEF ApplyChaos, To, CliTypeOK, Told
    <2> QED BY <1>a, <2>1, <2>3, OneTold
  <1>3. ASSUME NEW r \in Runs, RunProcess(r) PROVE ToldInv'
    <2>1. \A q \in Runs \ {r} :
             /\ pc'[q] = pc[q] /\ request'[q] = request[q] /\ outcome'[q] = outcome[q]
             /\ code'[q] = code[q] /\ remote'[q] = remote[q]
      BY <1>3 DEF RunProcess, Returns, To, CliTypeOK
    <2>2. Told(r)
      BY DEF ToldInv
    <2>3. Told(r)'
      BY <1>3, <2>2, <1>a DEF RunProcess, Returns, To, CliTypeOK, Told
    <2> QED BY <1>a, <2>1, <2>3, OneTold
  <1>4. ASSUME NEW r \in Runs, EnterContainer(r) PROVE ToldInv'
    <2>1. \A q \in Runs \ {r} :
             /\ pc'[q] = pc[q] /\ request'[q] = request[q] /\ outcome'[q] = outcome[q]
             /\ code'[q] = code[q] /\ remote'[q] = remote[q]
      BY <1>4 DEF EnterContainer, To, CliTypeOK
    <2>2. Told(r)
      BY DEF ToldInv
    <2>3. Told(r)'
      BY <1>4, <2>2, <1>a DEF EnterContainer, To, CliTypeOK, Told
    <2> QED BY <1>a, <2>1, <2>3, OneTold
  <1>5. ASSUME NEW r \in Runs, LeaveContainer(r) PROVE ToldInv'
    <2>1. \A q \in Runs \ {r} :
             /\ pc'[q] = pc[q] /\ request'[q] = request[q] /\ outcome'[q] = outcome[q]
             /\ code'[q] = code[q] /\ remote'[q] = remote[q]
      BY <1>5 DEF LeaveContainer, Returns, To, CliTypeOK
    <2>2. Told(r) /\ result[r] /= "none" /\ result[r] \in {"none", "ok", "err"}
      BY <1>5 DEF ToldInv, LeaveContainer, ResultInv, ResultOf, Sound, ContainerTypeOK
    <2>3. /\ pc[r] = "container" /\ pc' = [pc EXCEPT ![r] = "clear"] /\ UNCHANGED request
          /\ outcome' = [outcome EXCEPT ![r] = result[r]] /\ UNCHANGED result
      BY <1>5 DEF LeaveContainer, Returns, To, containerVars
    <2>4. Told(r)'
      BY <2>2, <2>3 DEF Told, CliTypeOK
    <2> QED BY <1>a, <2>1, <2>4, OneTold
  <1>6. ASSUME NEW r \in Runs, NoKernel(r) PROVE ToldInv'
    <2>1. \A q \in Runs \ {r} :
             /\ pc'[q] = pc[q] /\ request'[q] = request[q] /\ outcome'[q] = outcome[q]
             /\ code'[q] = code[q] /\ remote'[q] = remote[q]
      BY <1>6 DEF NoKernel, Quit, To, CliTypeOK
    <2>2. Told(r)
      BY DEF ToldInv
    <2>3. Told(r)'
      BY <1>6, <2>2, <1>a DEF NoKernel, Quit, To, CliTypeOK, Told
    <2> QED BY <1>a, <2>1, <2>3, OneTold
  <1>7. ASSUME NEW r \in Runs, StartVm(r) PROVE ToldInv'
    <2>1. \A q \in Runs \ {r} :
             /\ pc'[q] = pc[q] /\ request'[q] = request[q] /\ outcome'[q] = outcome[q]
             /\ code'[q] = code[q] /\ remote'[q] = remote[q]
      BY <1>7 DEF StartVm, Returns, To, CliTypeOK
    <2>2. Told(r)
      BY DEF ToldInv
    <2>3. Told(r)'
      BY <1>7, <2>2, <1>a DEF StartVm, Returns, To, CliTypeOK, Told
    <2> QED BY <1>a, <2>1, <2>3, OneTold
  <1>8. ASSUME NEW r \in Runs, CollectVm(r) PROVE ToldInv'
    <2>1. \A q \in Runs \ {r} :
             /\ pc'[q] = pc[q] /\ request'[q] = request[q] /\ outcome'[q] = outcome[q]
             /\ code'[q] = code[q] /\ remote'[q] = remote[q]
      BY <1>8 DEF CollectVm, Returns, To, CliTypeOK
    <2>2. Told(r)
      BY DEF ToldInv
    <2>3. Told(r)'
      BY <1>8, <2>2, <1>a DEF CollectVm, Returns, To, CliTypeOK, Told
    <2> QED BY <1>a, <2>1, <2>3, OneTold
  <1>9. ASSUME NEW r \in Runs, TimeoutVm(r) PROVE ToldInv'
    <2>1. \A q \in Runs \ {r} :
             /\ pc'[q] = pc[q] /\ request'[q] = request[q] /\ outcome'[q] = outcome[q]
             /\ code'[q] = code[q] /\ remote'[q] = remote[q]
      BY <1>9 DEF TimeoutVm, Returns, To, CliTypeOK
    <2>2. Told(r)
      BY DEF ToldInv
    <2>3. Told(r)'
      BY <1>9, <2>2, <1>a DEF TimeoutVm, Returns, To, CliTypeOK, Told
    <2> QED BY <1>a, <2>1, <2>3, OneTold
  <1>10. ASSUME NEW r \in Runs, ExitRun(r) PROVE ToldInv'
    <2>1. \A q \in Runs \ {r} :
             /\ pc'[q] = pc[q] /\ request'[q] = request[q] /\ outcome'[q] = outcome[q]
             /\ code'[q] = code[q] /\ remote'[q] = remote[q]
      BY <1>10 DEF ExitRun, Quit, To, CliTypeOK
    <2>2. Told(r)
      BY DEF ToldInv
    <2>3. Told(r)'
      BY <1>10, <2>2, <1>a DEF ExitRun, Quit, To, CliTypeOK, Told
    <2> QED BY <1>a, <2>1, <2>3, OneTold
  <1>11. ASSUME NEW r \in Runs, Look(r) PROVE ToldInv'
    <2>1. \A q \in Runs \ {r} :
             /\ pc'[q] = pc[q] /\ request'[q] = request[q] /\ outcome'[q] = outcome[q]
             /\ code'[q] = code[q] /\ remote'[q] = remote[q]
      BY <1>11 DEF Look, To, CliTypeOK
    <2>2. Told(r)
      BY DEF ToldInv
    <2>3. Told(r)'
      BY <1>11, <2>2, <1>a DEF Look, To, CliTypeOK, Told
    <2> QED BY <1>a, <2>1, <2>3, OneTold
  <1>12. ASSUME NEW r \in Runs, Unlink(r) PROVE ToldInv'
    <2>1. \A q \in Runs \ {r} :
             /\ pc'[q] = pc[q] /\ request'[q] = request[q] /\ outcome'[q] = outcome[q]
             /\ code'[q] = code[q] /\ remote'[q] = remote[q]
      BY <1>12 DEF Unlink, To, CliTypeOK
    <2>2. Told(r)
      BY DEF ToldInv
    <2>3. Told(r)'
      BY <1>12, <2>2, <1>a DEF Unlink, To, CliTypeOK, Told
    <2> QED BY <1>a, <2>1, <2>3, OneTold
  <1>13. ASSUME NEW r \in Runs, Bind(r) PROVE ToldInv'
    <2>1. \A q \in Runs \ {r} :
             /\ pc'[q] = pc[q] /\ request'[q] = request[q] /\ outcome'[q] = outcome[q]
             /\ code'[q] = code[q] /\ remote'[q] = remote[q]
      BY <1>13 DEF Bind, Quit, To, CliTypeOK
    <2>2. Told(r)
      BY DEF ToldInv
    <2>3. Told(r)'
      BY <1>13, <2>2, <1>a DEF Bind, Quit, To, CliTypeOK, Told
    <2> QED BY <1>a, <2>1, <2>3, OneTold
  <1>14. ASSUME NEW r \in Runs, Connect(r) PROVE ToldInv'
    <2>1. \A q \in Runs \ {r} :
             /\ pc'[q] = pc[q] /\ request'[q] = request[q] /\ outcome'[q] = outcome[q]
             /\ code'[q] = code[q] /\ remote'[q] = remote[q]
      BY <1>14 DEF Connect, Quit, To, CliTypeOK
    <2>2. Told(r)
      BY DEF ToldInv
    <2>3. Told(r)'
      BY <1>14, <2>2, <1>a DEF Connect, Quit, To, CliTypeOK, Told
    <2> QED BY <1>a, <2>1, <2>3, OneTold
  <1>15. ASSUME NEW r \in Runs, Exec(r) PROVE ToldInv'
    <2>1. \A q \in Runs \ {r} :
             /\ pc'[q] = pc[q] /\ request'[q] = request[q] /\ outcome'[q] = outcome[q]
             /\ code'[q] = code[q] /\ remote'[q] = remote[q]
      BY <1>15 DEF Exec, AfterExec, Quit, To, CliTypeOK
    <2>2. Told(r)
      BY DEF ToldInv
    <2>3. Told(r)'
      BY <1>15, <2>2, <1>a DEF Exec, AfterExec, Quit, To, CliTypeOK, Told
    <2> QED BY <1>a, <2>1, <2>3, OneTold
  <1>16. ASSUME NEW r \in Runs, Fetch(r) PROVE ToldInv'
    <2>1. \A q \in Runs \ {r} :
             /\ pc'[q] = pc[q] /\ request'[q] = request[q] /\ outcome'[q] = outcome[q]
             /\ code'[q] = code[q] /\ remote'[q] = remote[q]
      BY <1>16 DEF Fetch, Quit, To, CliTypeOK
    <2>2. Told(r)
      BY DEF ToldInv
    <2>3. Told(r)'
      BY <1>16, <2>2, <1>a DEF Fetch, Quit, To, CliTypeOK, Told
    <2> QED BY <1>a, <2>1, <2>3, OneTold
  <1>17. ASSUME NEW r \in Runs, VmEnds(r) PROVE ToldInv'
    <2>1. \A q \in Runs \ {r} :
             /\ pc'[q] = pc[q] /\ request'[q] = request[q] /\ outcome'[q] = outcome[q]
             /\ code'[q] = code[q] /\ remote'[q] = remote[q]
      BY <1>17 DEF VmEnds, To, CliTypeOK
    <2>2. Told(r)
      BY DEF ToldInv
    <2>3. Told(r)'
      BY <1>17, <2>2, <1>a DEF VmEnds, To, CliTypeOK, Told
    <2> QED BY <1>a, <2>1, <2>3, OneTold
  <1>18. ASSUME NEW r \in Runs, Kill(r) PROVE ToldInv'
    <2>1. \A q \in Runs \ {r} :
             /\ pc'[q] = pc[q] /\ request'[q] = request[q] /\ outcome'[q] = outcome[q]
             /\ code'[q] = code[q] /\ remote'[q] = remote[q]
      BY <1>18 DEF Kill, To, CliTypeOK
    <2>2. Told(r)
      BY DEF ToldInv
    <2>3. Told(r)'
      BY <1>18, <2>2, <1>a DEF Kill, To, CliTypeOK, Told
    <2> QED BY <1>a, <2>1, <2>3, OneTold
  <1>19. CASE UNCHANGED cliVars
    BY <1>19, <1>a, ToldKept DEF cliVars, ToldInv
  <1> QED
    BY <1>1, <1>2, <1>3, <1>4, <1>5, <1>6, <1>7, <1>8, <1>9, <1>10,
       <1>11, <1>12, <1>13, <1>14, <1>15, <1>16, <1>17, <1>18, <1>19, NextCases

(* A process goes by what its engine or the daemon told it.                *)
THEOREM KnowsResult == Spec => []ToldInv
<1>1. Init => ToldInv
  BY DEF Init, ToldInv, Told
<1>2. Sound /\ ResultInv /\ TypeOK /\ ToldInv /\ [Next]_vars => ToldInv'
  BY ToldStep DEF TypeOK
<1> QED
  BY <1>1, <1>2, RunsContainers, AlwaysSound, ResultsTrue, TypeCorrect, PTL DEF Spec

(* Exit code 0 of a run in a container and of exec means that the command  *)
(* ran to its end, whatever fails in the container or in the daemon.       *)
THEOREM ZeroIsTrue == Spec => []ZeroMeansRan
<1>1. ResultInv /\ ToldInv => ZeroMeansRan
  <2> SUFFICES ASSUME ResultInv, ToldInv, NEW r \in Runs, pc[r] = "done", code[r] = "zero"
               PROVE  /\ request[r].op = "run" /\ request[r].engine = "container" => child[r].at = "over"
                      /\ request[r].op = "exec"
                            => remote[r] = IF request[r].fetch THEN "fetched" ELSE "exit"
    BY DEF ZeroMeansRan
  <2>1. Told(r) /\ ResultOf(r)
    BY DEF ToldInv, ResultInv
  <2> QED BY <2>1 DEF Told, ResultOf
<1> QED
  BY <1>1, RunsContainers, ResultsTrue, KnowsResult, PTL
=============================================================================
