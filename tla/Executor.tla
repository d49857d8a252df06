------------------------------ MODULE Executor ------------------------------
(***************************************************************************)
(* One sandboxed execution on Linux: handle_exec of net/wire.rs driving    *)
(* execute_wait_streaming_with_stdin of executor.rs.                       *)
(*                                                                         *)
(* Actors, all interleaved: the executor future (pc), the two reader tasks *)
(* that move pipe output into a bounded channel, the forwarder that turns  *)
(* channel entries into frames (the collector of execute_wait is the same  *)
(* forwarder with a client that never leaves), the client, and the         *)
(* processes of the sandbox, which fork, write, leave their process group  *)
(* and exit as they please.                                                *)
(*                                                                         *)
(* Output is counted in units: unit n of stream s is the n-th that was     *)
(* written to it.  A chunk [s, lo, hi] carries the units lo+1 .. hi.       *)
(***************************************************************************)
EXTENDS Integers, Sequences, FiniteSets

CONSTANTS
    Leader,       \* the spawned shell
    Kids,         \* its possible descendants
    NoProc,
    CgAvailable,  \* CgroupsV2Manager::is_available
    CgKillFile,   \* the kernel offers cgroup.kill (Linux 5.14 and later)
    RmRemoves,    \* does remove_dir_all succeed on an empty cgroup directory?
    Faults,       \* the calls that may fail in this environment
    ChanCap,      \* capacity of the mpsc channel (64 in the code)
    PipeCap,      \* capacity of a pipe, in units
    MaxOut,       \* bound: units written to the standard output
    MaxErr        \* bound: units written to the error stream

FaultKinds == {"mkcg", "spawn", "assign", "wait", "peak", "disconnect"}

ASSUME ExecutorAssumption ==
    /\ Leader \notin Kids
    /\ NoProc \notin Kids \cup {Leader}
    /\ CgAvailable \in BOOLEAN
    /\ CgKillFile \in BOOLEAN
    /\ RmRemoves \in BOOLEAN
    /\ Faults \subseteq FaultKinds
    /\ ChanCap \in Nat \ {0}
    /\ PipeCap \in Nat \ {0}
    /\ MaxOut \in Nat
    /\ MaxErr \in Nat

Procs   == Kids \cup {Leader}
Streams == {"out", "err"}
Chunks  == [s : Streams, lo : Nat, hi : Nat]

VARIABLES
    pc,         \* where the executor future is
    outcome,    \* what it will return
    proc,       \* state of every process
    nsInit,     \* first process of the new PID namespace
    group,      \* members of the child's process group
    cgDir,      \* the cgroup directory exists
    cgProcs,    \* processes in the cgroup
    holds,      \* processes with the write end of a pipe open
    written,    \* units written to each pipe
    taken,      \* units the reader has read from it
    sent,       \* units the reader has put into the channel
    reader,     \* state of each reader task
    chan,       \* output on its way: the chunk the forwarder sends, then the mpsc channel
    fwd,        \* state of the forwarder: "send" while it awaits send_frame
    client,     \* the peer of the connection
    got,        \* history: last unit delivered to the client
    gap,        \* history: streams with a frame that did not continue the last
    peak,       \* where the reported peak memory comes from
    final       \* how handle_exec ended

execVars == <<pc, outcome, peak>>
procVars == <<proc, nsInit, group, holds>>
cgVars   == <<cgDir, cgProcs>>
pipeVars == <<taken, sent, reader>>
netVars  == <<fwd, client, got, gap, final>>
vars == <<execVars, procVars, cgVars, written, pipeVars, chan, netVars>>

ExecPcs  == {"mkcg", "spawn", "assign", "wait", "cgkill", "cgrm", "kill", "join", "done"}
Outcomes == {"none", "exit", "timeout", "setup", "waiterr"}

TypeOK ==
    /\ pc \in ExecPcs
    /\ outcome \in Outcomes
    /\ proc \in [Procs -> {"unborn", "live", "dying", "zombie", "reaped"}]
    /\ nsInit \in Kids \cup {NoProc}
    /\ group \subseteq Procs
    /\ cgDir \in BOOLEAN
    /\ cgProcs \subseteq Procs
    /\ holds \in [Streams -> SUBSET Procs]
    /\ written \in [Streams -> Nat]
    /\ taken \in [Streams -> Nat]
    /\ sent \in [Streams -> Nat]
    /\ reader \in [Streams -> {"off", "run", "done"}]
    /\ chan \in Seq(Chunks)
    /\ fwd \in {"run", "send", "ok", "failed"}
    /\ fwd = "send" => chan /= <<>>
    /\ client \in {"up", "gone"}
    /\ got \in [Streams -> Nat]
    /\ gap \subseteq Streams
    /\ peak \in {"none", "cgroup", "rusage"}
    /\ final \in {"none", "exit", "error", "closed"}

Init ==
    /\ pc = IF CgAvailable THEN "mkcg" ELSE "spawn"
    /\ outcome = "none"
    /\ proc = [p \in Procs |-> "unborn"]
    /\ nsInit = NoProc
    /\ group = {}
    /\ cgDir = FALSE
    /\ cgProcs = {}
    /\ holds = [s \in Streams |-> {}]
    /\ written = [s \in Streams |-> 0]
    /\ taken = [s \in Streams |-> 0]
    /\ sent = [s \in Streams |-> 0]
    /\ reader = [s \in Streams |-> "off"]
    /\ chan = <<>>
    /\ fwd = "run"
    /\ client = "up"
    /\ got = [s \in Streams |-> 0]
    /\ gap = {}
    /\ peak = "none"
    /\ final = "none"

-----------------------------------------------------------------------------
(* SIGKILL is asynchronous: its target stops running user code but keeps   *)
(* its descriptors and its cgroup until the kernel has torn it down.       *)
Killed(targets) ==
    [p \in Procs |-> IF p \in targets /\ proc[p] = "live" THEN "dying" ELSE proc[p]]

(***************************************************************************)
(* The executor future.                                                    *)
(***************************************************************************)

(* create_sandbox_cgroup: mkdir, then the limit files.  A limit that       *)
(* cannot be written fails the execution with the directory left behind.   *)
MakeCgroup ==
    /\ pc = "mkcg"
    /\ \/ /\ pc' = "spawn"
          /\ cgDir' = TRUE
          /\ UNCHANGED outcome
       \/ /\ "mkcg" \in Faults
          /\ pc' = "done"
          /\ outcome' = "setup"
          /\ cgDir' \in BOOLEAN
    /\ UNCHANGED <<peak, procVars, cgProcs, written, pipeVars, chan, netVars>>

(* cmd.spawn(): returns when the child has run pre_exec and exec'ed, so    *)
(* it already leads its own process group; or fails, and `?` returns.      *)
Spawn ==
    /\ pc = "spawn"
    /\ \/ /\ pc' = "assign"
          /\ proc' = [proc EXCEPT ![Leader] = "live"]
          /\ group' = {Leader}
          /\ holds' = [s \in Streams |-> {Leader}]
          /\ UNCHANGED outcome
       \/ /\ "spawn" \in Faults
          /\ pc' = "done"
          /\ outcome' = "setup"
          /\ UNCHANGED <<proc, group, holds>>
    /\ UNCHANGED <<peak, nsInit, cgVars, written, pipeVars, chan, netVars>>

(* Mutant: nobody reads the error stream.                                  *)
StartOneReader == reader' = [s \in {"out"} |-> "run"]

StartReaders == reader' = [s \in Streams |-> "run"]

(* assign_pid, then the two readers are spawned and chunk_tx is dropped.   *)
(* The child has been running since Spawn.  A failed write kills the pid   *)
(* (not its group) and returns after cleanup_cgroup.  Writing the pid of a *)
(* process that is already a zombie succeeds without effect.               *)
AssignPid ==
    /\ pc = "assign"
    /\ \/ /\ pc' = "wait"
          /\ cgProcs' = IF CgAvailable /\ proc[Leader] = "live" THEN {Leader} ELSE {}
          /\ StartReaders
          /\ UNCHANGED <<outcome, proc>>
       \/ /\ CgAvailable /\ "assign" \in Faults
          /\ pc' = "cgkill"
          /\ outcome' = "setup"
          /\ proc' = Killed({Leader})
          /\ UNCHANGED <<reader, cgProcs>>
    /\ UNCHANGED <<peak, nsInit, group, holds, cgDir, written, taken, sent, chan, netVars>>

(* Mutant: the process group is killed after a normal exit too.            *)
AfterWaitAlwaysKills(res) == IF CgAvailable THEN "cgkill" ELSE "kill"

(* After the wait: cleanup_cgroup when there is a cgroup, then the match.  *)
AfterWait(res) ==
    IF CgAvailable THEN "cgkill" ELSE IF res = "timeout" THEN "kill" ELSE "join"

(* child.wait() returns the status and reaps the child.                    *)
WaitChild ==
    /\ pc = "wait"
    /\ proc[Leader] = "zombie"
    /\ proc' = [proc EXCEPT ![Leader] = "reaped"]
    /\ outcome' = "exit"
    /\ pc' = AfterWait("exit")
    /\ UNCHANGED <<peak, nsInit, group, holds, cgVars, written, pipeVars, chan, netVars>>

(* child.wait() fails; nothing is reaped or killed.                        *)
WaitError ==
    /\ pc = "wait"
    /\ "wait" \in Faults
    /\ outcome' = "waiterr"
    /\ pc' = AfterWait("waiterr")
    /\ UNCHANGED <<peak, procVars, cgVars, written, pipeVars, chan, netVars>>

(* The wall clock limit (at least one second) elapses first: also when the *)
(* child has just exited and the wait has not noticed.                     *)
Timeout ==
    /\ pc = "wait"
    /\ outcome' = "timeout"
    /\ pc' = AfterWait("timeout")
    /\ UNCHANGED <<peak, procVars, cgVars, written, pipeVars, chan, netVars>>

(* Mutant: cleanup leaves the members of the cgroup running.               *)
CgroupKillNobody ==
    /\ pc = "cgkill"
    /\ pc' = "cgrm"
    /\ UNCHANGED <<outcome, peak, procVars, cgVars, written, pipeVars, chan, netVars>>

(* cleanup_cgroup, first half: "1" is written to cgroup.kill, if there is  *)
(* such a file.                                                            *)
CgroupKill ==
    /\ pc = "cgkill"
    /\ proc' = IF CgKillFile THEN Killed(cgProcs) ELSE proc
    /\ pc' = "cgrm"
    /\ UNCHANGED <<outcome, peak, nsInit, group, holds, cgVars, written, pipeVars, chan, netVars>>

(* cleanup_cgroup, second half: remove_dir_all, its error ignored.  The    *)
(* kernel refuses to remove a cgroup that still has a running member.      *)
CgroupRemove ==
    /\ pc = "cgrm"
    /\ cgDir' = ~(RmRemoves /\ cgProcs = {})
    /\ pc' = IF outcome = "timeout" THEN "kill" ELSE "join"
    /\ UNCHANGED <<outcome, peak, procVars, cgProcs, written, pipeVars, chan, netVars>>

(* Mutant: only the child itself is killed.                                *)
KillLeaderOnly ==
    /\ pc = "kill"
    /\ proc' = Killed({Leader})
    /\ pc' = "join"
    /\ UNCHANGED <<outcome, peak, nsInit, group, holds, cgVars, written, pipeVars, chan, netVars>>

(* Mutant: the timeout is reported but nobody is killed.                   *)
KillNobody ==
    /\ pc = "kill"
    /\ pc' = "join"
    /\ UNCHANGED <<outcome, peak, procVars, cgVars, written, pipeVars, chan, netVars>>

(* Timeout branch: kill(-pid) and kill(pid).                               *)
KillTree ==
    /\ pc = "kill"
    /\ proc' = Killed(group \cup {Leader})
    /\ pc' = "join"
    /\ UNCHANGED <<outcome, peak, nsInit, group, holds, cgVars, written, pipeVars, chan, netVars>>

(* measure_peak_memory, after cleanup_cgroup: memory.peak of the cgroup,   *)
(* or else the maximum over all children of the daemon, where there is no  *)
(* cgroup, its directory is gone or the file is missing or unreadable.     *)
PeakSource ==
    IF CgAvailable /\ cgDir
    THEN {"cgroup"} \cup (IF "peak" \in Faults THEN {"rusage"} ELSE {})
    ELSE {"rusage"}

(* Both reader tasks are awaited (on the setup failure path there are      *)
(* none), the peak memory is measured if there is a status, and the future *)
(* returns.  That drops the Child: kill_on_drop kills it where no wait has *)
(* reaped it.                                                              *)
JoinReaders ==
    /\ pc = "join"
    /\ \A s \in Streams : reader[s] /= "run"
    /\ pc' = "done"
    /\ proc' = Killed({Leader})
    /\ peak' \in IF outcome = "exit" THEN PeakSource ELSE {"none"}
    /\ UNCHANGED <<outcome, nsInit, group, holds, cgVars, written, pipeVars, chan, netVars>>

-----------------------------------------------------------------------------
(***************************************************************************)
(* The reader tasks.  taken > sent: the task sits in chunk_tx.send with    *)
(* the chunk it has read.                                                  *)
(***************************************************************************)

(* pipe.read: one or more of the units that are in the pipe.               *)
ReadPipe(s) ==
    /\ reader[s] = "run"
    /\ taken[s] = sent[s]
    /\ \E n \in taken[s] + 1 .. written[s] : taken' = [taken EXCEPT ![s] = n]
    /\ UNCHANGED <<execVars, procVars, cgVars, written, sent, reader, chan, netVars>>

(* Chunks in the channel.  recv has taken the one that is being sent, and  *)
(* freed its slot.                                                         *)
InChannel == IF fwd = "send" THEN Len(chan) - 1 ELSE Len(chan)

(* Mutant: an unbounded channel.                                           *)
SendChunkUnbounded(s) ==
    /\ taken[s] > sent[s]
    /\ chan' = Append(chan, [s |-> s, lo |-> sent[s], hi |-> taken[s]])
    /\ sent' = [sent EXCEPT ![s] = taken[s]]
    /\ UNCHANGED <<execVars, procVars, cgVars, written, taken, reader, netVars>>

(* chunk_tx.send completes once the channel has a free slot.               *)
SendChunk(s) ==
    /\ taken[s] > sent[s]
    /\ InChannel < ChanCap
    /\ chan' = Append(chan, [s |-> s, lo |-> sent[s], hi |-> taken[s]])
    /\ sent' = [sent EXCEPT ![s] = taken[s]]
    /\ UNCHANGED <<execVars, procVars, cgVars, written, taken, reader, netVars>>

(* Mutant: the reader stops when the pipe is empty for a moment.           *)
ReadEofEarly(s) ==
    /\ reader[s] = "run"
    /\ taken[s] = sent[s]
    /\ taken[s] = written[s]
    /\ reader' = [reader EXCEPT ![s] = "done"]
    /\ UNCHANGED <<execVars, procVars, cgVars, written, taken, sent, chan, netVars>>

(* read returns 0: the pipe is empty and nobody holds its write end.       *)
ReadEof(s) ==
    /\ reader[s] = "run"
    /\ taken[s] = sent[s]
    /\ taken[s] = written[s]
    /\ holds[s] = {}
    /\ reader' = [reader EXCEPT ![s] = "done"]
    /\ UNCHANGED <<execVars, procVars, cgVars, written, taken, sent, chan, netVars>>

-----------------------------------------------------------------------------
(***************************************************************************)
(* The forwarder of handle_exec and the client.                            *)
(***************************************************************************)

(* rx.recv() returns a chunk: its slot is free, and the forwarder holds it *)
(* until send_frame returns.                                               *)
Receive ==
    /\ fwd = "run"
    /\ chan /= <<>>
    /\ fwd' = "send"
    /\ UNCHANGED <<execVars, procVars, cgVars, written, pipeVars, chan, client, got, gap, final>>

(* send_frame returns: the chunk is written to the socket as one frame.    *)
Forward ==
    /\ fwd = "send"
    /\ client = "up"
    /\ LET m == Head(chan)
       IN  /\ gap' = IF m.lo = got[m.s] THEN gap ELSE gap \cup {m.s}
           /\ got' = [got EXCEPT ![m.s] = m.hi]
    /\ chan' = Tail(chan)
    /\ fwd' = "run"
    /\ UNCHANGED <<execVars, procVars, cgVars, written, pipeVars, client, final>>

(* The write fails: the forwarder returns false.  It only borrows rx, so   *)
(* the channel stays open, with nobody receiving from it, until join! ends.*)
ForwardFails ==
    /\ fwd = "send"
    /\ client = "gone"
    /\ fwd' = "failed"
    /\ chan' = Tail(chan)
    /\ UNCHANGED <<execVars, procVars, cgVars, written, pipeVars, client, got, gap, final>>

(* chunk_tx and its clones are all dropped.                                *)
SendersDropped ==
    \A s \in Streams : reader[s] = "done" \/ (reader[s] = "off" /\ pc = "done")

(* rx.recv() returns None: the channel is empty and closed.                *)
ForwardEnds ==
    /\ fwd = "run"
    /\ chan = <<>>
    /\ SendersDropped
    /\ fwd' = "ok"
    /\ UNCHANGED <<execVars, procVars, cgVars, written, pipeVars, chan, client, got, gap, final>>

(* Mutant: select! instead of join!: the result is sent when it is there.  *)
SendFinalEarly ==
    /\ final = "none"
    /\ pc = "done"
    /\ final' = IF fwd = "failed" \/ client = "gone" THEN "closed"
                ELSE IF outcome = "exit" THEN "exit" ELSE "error"
    /\ UNCHANGED <<execVars, procVars, cgVars, written, pipeVars, chan, fwd, client, got, gap>>

(* Both halves of join! are over: the Exit or Error frame, or the          *)
(* connection ends because a frame could not be sent.                      *)
SendFinal ==
    /\ final = "none"
    /\ pc = "done"
    /\ fwd \in {"ok", "failed"}
    /\ final' = IF fwd = "failed" \/ client = "gone" THEN "closed"
                ELSE IF outcome = "exit" THEN "exit" ELSE "error"
    /\ UNCHANGED <<execVars, procVars, cgVars, written, pipeVars, chan, fwd, client, got, gap>>

Disconnect ==
    /\ "disconnect" \in Faults
    /\ client = "up"
    /\ final = "none"
    /\ client' = "gone"
    /\ UNCHANGED <<execVars, procVars, cgVars, written, pipeVars, chan, fwd, got, gap, final>>

-----------------------------------------------------------------------------
(***************************************************************************)
(* The processes, as the kernel runs them.                                 *)
(***************************************************************************)

(* A fork inherits group, cgroup and pipes.  unshare(CLONE_NEWPID) in      *)
(* pre_exec puts the children of the leader, not the leader, into a new    *)
(* PID namespace, whose first process is its init: once that is gone the   *)
(* leader can fork no more.                                                *)
Fork(p, k) ==
    /\ proc[p] = "live"
    /\ proc[k] = "unborn"
    /\ nsInit /= NoProc => proc[nsInit] = "live"
    /\ nsInit' = IF nsInit = NoProc THEN k ELSE nsInit
    /\ proc' = [proc EXCEPT ![k] = "live"]
    /\ group' = IF p \in group THEN group \cup {k} ELSE group
    /\ cgProcs' = IF p \in cgProcs THEN cgProcs \cup {k} ELSE cgProcs
    /\ holds' = [s \in Streams |-> IF p \in holds[s] THEN holds[s] \cup {k} ELSE holds[s]]
    /\ UNCHANGED <<execVars, cgDir, written, pipeVars, chan, netVars>>

(* setsid: a group leader may not, so the leader stays in its group.       *)
LeaveGroup(k) ==
    /\ proc[k] = "live"
    /\ k \in group
    /\ group' = group \ {k}
    /\ UNCHANGED <<execVars, proc, nsInit, holds, cgVars, written, pipeVars, chan, netVars>>

ClosePipe(p, s) ==
    /\ proc[p] = "live"
    /\ p \in holds[s]
    /\ holds' = [holds EXCEPT ![s] = @ \ {p}]
    /\ UNCHANGED <<execVars, proc, nsInit, group, cgVars, written, pipeVars, chan, netVars>>

(* A write blocks while the pipe is full.                                  *)
Write(p, s) ==
    /\ proc[p] = "live"
    /\ p \in holds[s]
    /\ pc /= "done"
    /\ written[s] < (IF s = "out" THEN MaxOut ELSE MaxErr)
    /\ written[s] - taken[s] < PipeCap
    /\ written' = [written EXCEPT ![s] = @ + 1]
    /\ UNCHANGED <<execVars, procVars, cgVars, pipeVars, chan, netVars>>

(* The end of p, by its own exit or because SIGKILL has taken effect.  The *)
(* end of the namespace's init kills everybody else in the namespace.      *)
Stop(p) ==
    /\ proc' = [q \in Procs |->
                  IF q = p THEN IF p = Leader THEN "zombie" ELSE "reaped"
                  ELSE IF p = nsInit /\ q \in Kids /\ proc[q] = "live" THEN "dying"
                  ELSE proc[q]]
    /\ group' = group \ {p}
    /\ cgProcs' = cgProcs \ {p}
    /\ holds' = [s \in Streams |-> holds[s] \ {p}]
    /\ UNCHANGED <<execVars, nsInit, cgDir, written, pipeVars, chan, netVars>>

Exit(p) == proc[p] = "live" /\ Stop(p)

Die(p) == proc[p] = "dying" /\ Stop(p)

-----------------------------------------------------------------------------
(* The execution is over and every process has come to rest.               *)
Finished ==
    /\ final /= "none"
    /\ UNCHANGED vars

ExecStep == MakeCgroup \/ Spawn \/ AssignPid \/ WaitChild \/ CgroupKill
            \/ CgroupRemove \/ KillTree \/ JoinReaders

ReaderStep(s) == ReadPipe(s) \/ SendChunk(s) \/ ReadEof(s)

ForwarderStep == Receive \/ Forward \/ ForwardFails \/ ForwardEnds \/ SendFinal

ProcStep ==
    \/ \E p \in Procs, k \in Kids : Fork(p, k)
    \/ \E k \in Kids : LeaveGroup(k)
    \/ \E p \in Procs, s \in Streams : ClosePipe(p, s) \/ Write(p, s)
    \/ \E p \in Procs : Exit(p) \/ Die(p)

Next ==
    \/ ExecStep \/ WaitError \/ Timeout
    \/ \E s \in Streams : ReaderStep(s)
    \/ ForwarderStep \/ Disconnect
    \/ ProcStep
    \/ Finished

(* The executor future is polled again, its timer fires and the kernel     *)
(* tears a killed process down.  Nothing makes a process exit by itself.   *)
HostFairness ==
    /\ WF_vars(ExecStep)
    /\ WF_vars(Timeout)
    /\ \A p \in Procs : WF_vars(Die(p))

(* tokio also polls the readers and the forwarder, and a client that is    *)
(* connected goes on reading from its socket.                              *)
StreamFairness ==
    /\ \A s \in Streams : WF_vars(ReaderStep(s))
    /\ WF_vars(ForwarderStep)

Spec == Init /\ [][Next]_vars

FairSpec == Spec /\ HostFairness /\ StreamFairness

(* The client may stop reading without closing its connection.             *)
StalledSpec == Spec /\ HostFairness

-----------------------------------------------------------------------------
(***************************************************************************)
(* Safety.                                                                 *)
(***************************************************************************)

(* When the Exit frame, or the Error frame of an execution that ran, goes  *)
(* out, the client has been sent everything the sandbox ever wrote: the    *)
(* readers, the channel and the forwarder are drained in that order.       *)
OutputComplete ==
    final \in {"exit", "error"} /\ outcome /= "setup" => got = written

(* No frame of a stream skips, repeats or overtakes output of that stream, *)
(* although two readers share one channel.                                 *)
OutputContiguous == gap = {}

(* Backpressure: what sits in the daemon's memory, in the readers' hands,  *)
(* in the channel and in the forwarder's, is bounded however much the      *)
(* sandbox writes and however slowly the client reads.                     *)
BufferBound ==
    fwd \in {"run", "send"} =>
        (taken["out"] - got["out"]) + (taken["err"] - got["err"]) <= (ChanCap + 3) * PipeCap

(* kill(-pid) and kill(pid) are only sent while the child is not reaped,   *)
(* so that its pid cannot have been given to another process.              *)
NoStrayKill == pc = "kill" => proc[Leader] /= "reaped"

(* After the timeout branch no member of the child's process group runs,   *)
(* also the ones that were forked between the timeout and the kill.        *)
GroupKilled ==
    outcome = "timeout" /\ pc \in {"join", "done"} => \A p \in group : proc[p] /= "live"

(* Once cleanup_cgroup has written cgroup.kill, no process of the cgroup   *)
(* runs or can fork another one into it.                                   *)
CgroupKilled ==
    CgKillFile /\ pc \in {"cgrm", "kill", "join", "done"} => \A p \in cgProcs : proc[p] /= "live"

(* The execution implements ExecContract: what has been delivered of a     *)
(* stream is what its frames carried, as long as each continued the last.  *)
Delivered == [s \in Streams |-> IF s \in gap THEN -1 ELSE got[s]]

Contract == INSTANCE ExecContract WITH delivered <- Delivered

(* Readers, channel, forwarder and executor future together deliver each   *)
(* stream in order and completely before the final frame, and nothing      *)
(* after it, also when a setup step fails or the client leaves.            *)
KeepsContract == Contract!Spec

(***************************************************************************)
(* Liveness.                                                               *)
(***************************************************************************)

(* The wall clock limit holds for the child whatever the client does: it   *)
(* may stop reading, which stalls the forwarder and the readers, or leave. *)
ChildStops == proc[Leader] = "live" ~> proc[Leader] /= "live"

HeldByOutsider ==
    \E k \in Kids, s \in Streams : k \in holds[s] /\ k \notin cgProcs

(* An execution ends in a final frame unless a descendant that no kill     *)
(* reaches keeps an output pipe open for ever, or the client leaves.       *)
ExecEnds == <>(final /= "none") \/ <>[]HeldByOutsider \/ <>(client = "gone")

(***************************************************************************)
(* The inductive invariants behind the safety properties.                  *)
(***************************************************************************)

SettingUp == {"mkcg", "spawn", "assign"}

(* How the result, the readers and the executor future keep step.          *)
ControlInv ==
    /\ pc \in SettingUp \cup {"wait"} <=> outcome = "none"
    /\ pc \in SettingUp => \A s \in Streams : reader[s] = "off"
    /\ pc = "wait" \/ outcome \in {"exit", "timeout", "waiterr"}
         => \A s \in Streams : reader[s] /= "off"
    /\ pc = "kill" => outcome = "timeout"
    /\ fwd = "ok" => chan = <<>> /\ SendersDropped
    /\ final \in {"exit", "error"} => fwd = "ok" /\ pc = "done"

(* Output moves from the pipe through the reader into the channel, and a   *)
(* reader that has seen EOF has left nothing behind.                       *)
PipeInv ==
    \A s \in Streams :
        /\ got[s] <= sent[s] /\ sent[s] <= taken[s] /\ taken[s] <= written[s]
        /\ reader[s] = "off" => sent[s] = taken[s]
        /\ reader[s] = "done" => sent[s] = written[s] /\ holds[s] = {}

(* The chunks of a stream on their way lie beyond what was delivered, in   *)
(* order and without overlap ...                                           *)
ChunksOrdered ==
    /\ \A i \in 1 .. Len(chan) :
          /\ got[chan[i].s] <= chan[i].lo
          /\ chan[i].lo < chan[i].hi
          /\ chan[i].hi <= sent[chan[i].s]
    /\ \A i, j \in 1 .. Len(chan) :
          i < j /\ chan[i].s = chan[j].s => chan[i].hi <= chan[j].lo

(* ... and cover everything that was sent and not yet delivered.           *)
ChunksCover ==
    fwd /= "failed" =>
        \A s \in Streams : \A u \in got[s] + 1 .. sent[s] :
            \E i \in 1 .. Len(chan) : chan[i].s = s /\ chan[i].lo < u /\ u <= chan[i].hi

(* No pipe, no reader and no channel holds more than its capacity.         *)
RoomInv ==
    /\ InChannel <= ChanCap
    /\ \A s \in Streams : taken[s] - sent[s] <= PipeCap /\ written[s] - taken[s] <= PipeCap

(* t[i] is what the client will have got of both streams once i more       *)
(* chunks have been forwarded.  The i-th chunk and those behind it carry   *)
(* no more than as many full reads.                                        *)
Totals(t) ==
    LET n == Len(chan)
    IN  /\ t[0] = got["out"] + got["err"]
        /\ t[n] = sent["out"] + sent["err"]
        /\ \A i \in 1 .. n : t[i] = t[i - 1] + (chan[i].hi - chan[i].lo)
        /\ \A i \in 0 .. n : t[n] <= t[i] + (n - i) * PipeCap

(* What is on its way fits into as many full reads as there are chunks,    *)
(* and so does every rest of it.                                           *)
TotalsInv == fwd \in {"run", "send"} => \E t \in [0 .. Len(chan) -> Nat] : Totals(t)

(* A process that has not been forked is nowhere, and the child is reaped  *)
(* by the wait alone.                                                      *)
ProcInv ==
    /\ \A p \in Procs : p \in group \cup cgProcs => proc[p] /= "unborn"
    /\ proc[Leader] = "reaped" => outcome = "exit"
    /\ pc \in SettingUp \/ ~CgAvailable => cgProcs = {}

(* The final frame comes last, and where the setup failed the readers were *)
(* never started, so that nothing was sent.                                *)
EndInv ==
    /\ final /= "none" => pc = "done" /\ fwd \in {"ok", "failed"}
    /\ outcome = "setup" => \A s \in Streams : reader[s] = "off"
    /\ \A s \in Streams : reader[s] = "off" => sent[s] = 0

(***************************************************************************)
(* What the documentation says and the code does not do.                   *)
(***************************************************************************)

(* wire.rs, serve_connection: "ends when the peer closes".                 *)
ConnectionEnds == client = "gone" ~> final /= "none"
=============================================================================
