# Verification of kuda-sandbox

TLA+ models of kuda-sandbox, checked with TLC on small instances. Every safety
invariant the passing runs check and both refinements are also proved with TLAPS,
for every instance. All modules are translated from the Rust source;
`PROJECT.json` maps every definition to the lines it models. Paths below are relative to `src/crates/kuda-sandbox-core/src`, and
`main.rs` is `src/crates/kuda-sandbox-daemon/src/main.rs`.

## 1. The system

kuda-sandbox runs shell commands in isolation, for one user on one machine. A
CLI (`minibox`) runs them directly or through a daemon.

| Component | State it keeps | Operations | Hard behaviour |
|---|---|---|---|
| Executor (`executor.rs`) | one child, two output pipes, a bounded channel, a cgroup path | build, spawn, stream, time out, kill, collect | child, descendants, two reader tasks, forwarder and timer run concurrently; every setup call can fail |
| cgroups (`linux/cgroups.rs`) | a directory per execution | create, assign pid, kill and remove | kill is asynchronous; removal of a busy group fails silently |
| namespaces (`linux/namespaces.rs`) | the child's mounts and root | unshare, make private, pivot_root in `pre_exec` | PID namespace without a fork; fail-closed order; a child that outlives its parent |
| Container file system (`rootfs/overlay_rootfs.rs`) | session directory, mounts | spawn, clean up | partial failure, mounts hidden by mounts, deletion through a mount |
| MicroVM (`vm/linux_kvm.rs`) | a QEMU process | probe, start, wait, time out | a guest that never powers off |
| CLI and daemon (`main.rs`) | exit code, the daemon's socket path | `run`, `exec`, `daemon`, `arch`, `image` | processes that share an interface, a path and a workspace, and may be killed |
| Chaos simulator (`net/chaos.rs`) | a qdisc on an interface | apply, clear | several runs on one interface; a run that dies in between; what `tc` makes of the words |
| Limits (`policy.rs`, `resource_limits.rs`), architecture (`arch/`) | none | arithmetic on requests; header parsing | overflow, zero, byte order, short files |
| Wire framing (`net/wire.rs`) | a partial frame at each end of a socket | `send_frame`, `recv_frame` | short reads and writes, a descriptor riding on one byte, a peer that closes mid-frame |
| Session (`net/wire.rs`) and Python SDK (`net/sdk.rs`) | `session_workspace`; a client between calls | `serve_connection`, `handle_exec`, `handle_file_get`; `exec`, `fetch_file` | frames carry no call number; early returns on both sides; who closes a descriptor |
| Network controller (`net/controller.rs`) | chaos profile, partition flag, each behind a lock | five commands over a socket, one task per connection | two locks per command |
| Image cache (`rootfs/image_manager.rs`) | cache directory, temporary files | pull, unpack | several processes, crashes, remove-then-rename |

Interactions: `minibox run` applies chaos, runs one of three engines (process,
container, VM) and clears the chaos; the container engine pulls an image,
mounts it and calls the executor, whose child enters the mounted root by itself;
the daemon accepts connections and runs one session per connection; a session
calls the executor and forwards its chunks as frames; the network controller is
a separate socket whose tasks share two locks.

What makes each correct: the executor must deliver all output, in order, end,
and leave nothing it started running; a container's command must never run
before it is confined, and its cleanup must neither leave mounts nor delete
through one; `minibox` must leave the interface as it found it, end, and report
success only for what ran; framing must keep frames and descriptors together; a
session must not mix calls up or hand out files of another workspace; the
controller's commands must be atomic and answered; the cache must only ever show
complete, verified images.

## 2. Modules

| Module | Models | State and actions |
|---|---|---|
| `Executor` | `execute_wait_streaming_with_stdin` with `handle_exec`'s forwarder, and the processes of one sandbox | `pc` is the executor future; `MakeCgroup`, `Spawn`, `AssignPid`, `WaitChild`/`WaitError`/`Timeout`, `CgroupKill`, `CgroupRemove`, `KillTree`, `JoinReaders` are its steps between awaits or externally visible calls. `ReadPipe`, `SendChunk`, `ReadEof` are a reader task; `Receive`, `Forward`, `ForwardFails`, `ForwardEnds`, `SendFinal` the forwarder and the rest of `handle_exec`; `Fork`, `LeaveGroup`, `ClosePipe`, `Write`, `Exit`, `Die` the processes |
| `ExecContract` | abstract: what an execution promises its client | `Write`, `Deliver` and `Finish` of two counted streams; `Executor!KeepsContract` is the refinement |
| `ContainerFs` | `execute_container`, `spawn_container_fs`, `cleanup` and the `pre_exec` steps, for several runs | `at` is the parent, one action per call from `Pull` to `RemoveSession`; `child[r].at` the forked child, from `SetLimits` to `LoadFilter`; `tree`, `rootMnt`, `wsMnt` what is on the host |
| `Netem` | `is_active`, the words `apply_chaos` passes to `tc`, what `tc` installs (external) | no state |
| `Arch` | `detect_binary_architecture`, `requires_emulation`, `wrap_if_needed`, and what a linker writes as a reference | no state |
| `Limits` | the memory and time limits a command line ends up with, in words that wrap | no state |
| `Minibox` | `main.rs` and `vm/linux_kvm.rs`: several processes on one host | composes `ContainerFs`, `Netem`, `Arch` and `Limits`. `pc`, `request`, `plan`, `code` per process; `qdisc` the interface, `sock` the socket path. A `run` takes `ApplyChaos`, then the steps of its engine, then `ExitRun`; a daemon `Look`, `Unlink`, `Bind`; an exec `Connect`, `Exec`, `Fetch`; `Kill` anywhere |
| `Wire` | `send_frame`, `recv_frame` | bytes in a socket, known by frame, position and whether a descriptor rides on them; `buf`, `need`, `cap`, `fd` are `recv_frame`'s locals |
| `Session` | `serve_connection` and its two clients, `BinaryClient` and the SDK's `SandboxClient` | whole frames in two bounded queues; each frame carries, as a history, the call it belongs to; `stdins` are the descriptors the daemon holds |
| `NetCommands` | `NetworkCommand`, `ChaosProfile` and what commands do to it | no state |
| `NetControl` | abstract: profile and flag as one register, every command takes effect at one instant | `Call`, `Do`, `Return` |
| `NetController` | `start_control_listener`, `handle_network_command` with both locks | one action per stretch between awaits |
| `ImageCache` | `pull_image`, `unpack_archive` of one image by several processes | one action per step visible in the file system; `Crash` anywhere |
| `MCMinibox`, `MCImageCache` | | the command lines and archives the instances use; symmetry of the callers |
| `ExecutorProofs`, `ExecContractProofs`, `ContainerProofs`, `MiniboxProofs`, `WireProofs`, `SessionProofs`, `NetControllerProofs`, `ImageProofs` | | theorems |

Abstractions. Output is counted in units, so that a chunk is an interval; the
content of commands, paths, errors and metrics is left out. A workspace is a
model value that `classify_workspace` accepts or not and that canonicalizes or
not. SIGKILL makes its target stop at once but holds its pipes and its cgroup
until the kernel has torn it down (`"dying"`). A pid that is written to
`cgroup.procs` when the process is a zombie has no effect. `remove_dir_all` of
a cgroup directory is a parameter (`RmRemoves`): on the real cgroupfs it fails,
because the control files cannot be unlinked. `rx.recv()` frees its slot of the
channel before the chunk is sent: `chan` holds the chunk that is being sent
(`fwd = "send"`) and what is in the channel behind it (`InChannel`). A read from
the end of a pipe does not fail, so that `ReadEof` is the only way out of a
reader besides a closed channel. The peak memory comes from the cgroup or from
`getrusage` (`PeakSource`: also when `memory.peak` is missing or unreadable).
`tokio::sync::RwLock` is fair and first come, first served; the flag's lock is never held over an await, so that
its use is part of one step. In `ImageCache`, `remove_dir_all` lists a directory
and unlinks by descriptor, then removes the directory by name, as the standard
library does on Linux; its errors are ignored by the code. On a file that another
has just unlinked it goes on or gives up, which differs between versions of the
standard library. An image is any set of parts, of which `is_cached` only looks
for `bin`.

In `ContainerFs`, an image has a directory `/workspace` or not, which decides
whether the bind mount finds its target under the overlay. A mount namespace
that could not be made private may share its mounts with the host's, so that the
child's own bind mount may or may not appear there; the copy of the workspace
mount that its `MS_REC` brings along is not counted separately, because it goes
when the original is unmounted, whose unmount propagates between the peers.
`umount2` with `MNT_DETACH` does not fail on a busy mount. `remove_dir_all` of a
session directory may fail (a background process of the command still writes to
the upper layer) and then leaves all of it or a part. In `Minibox`,
`remove_file` and `bind` of the socket path may fail for reasons of their own.
Two histories record what the host refused: `undeleted` (session directories) and
`refused` (socket paths). The process engine is `Executor` and the daemon's end of
a session is `Session`, of which only the results matter there. `tc` takes one value from an argument word.

Mutants (operators whose comment starts with "Mutant") are used by no
specification. Each is a plausible bug of the definition that follows it and
makes one property fail.

## 3. Runs

| Run | Shows |
|---|---|
| `ExecutorCgroup` | Cgroup host, one descendant, all setup calls may fail. `OutputComplete`, `BufferBound`, `CgroupKilled`, the refinement `KeepsContract`, and `ExecEnds` under fairness |
| `ExecutorNoCgroup` | No cgroups, two descendants, a client that stalls or leaves. `NoStrayKill`, `GroupKilled`, and `ChildStops`: the limit holds for the child although everything behind it is stuck |
| `WireFrames` | `FramesIntact`, `WithinCapacity`, `NoFalseAlarm`, and `Delivered` under fairness |
| `SessionCalls` | `FramesOwn`, `FileFromLatest`, `NoStdinLeft`, and `CallReturns` under fairness, for both clients |
| `NetAtomic` | `Atomic` (`NetController` implements `NetControl`) and `Answered` under fairness |
| `ImageCalls` | `CachedComplete`, `CachedGenuine`, `CacheKept`, `NoLitter` |
| `MiniboxRuns` | Two `minibox` processes, all setup calls may fail, either may be killed. Containers: `Confined`, `WorkspaceKept`, `NothingLeft`; the interface: `NetemOwned`; VM: `VmStopped`; daemon: `StaleNeverBlocks`; results: `ZeroMeansRan`, `LimitsAsAsked`, `DetectsElf`; and `RunExits` under fairness |

Five runs show that the code does not do what a document or comment says; each
checks that statement and ends in a counterexample:

| Run | Statement | What happens |
|---|---|---|
| `ExecutorHangup` | "ends when the peer closes" (`net/wire.rs:265`) | the forwarder stops, the channel stays open and fills up, readers, executor and `join!` wait for ever |
| `SessionMixed` | `exec` delivers the output of its command (`net/wire.rs:497`) | after a `fetch_file` that failed locally and left `FileEof` unread, a later `exec` reports the output and status of an earlier one |
| `SessionFiles` | FILE_GET serves the workspace of the "most recent successful EXEC_REQUEST" (`net/wire.rs:266`) | a command that ended in an `Error` frame moves the session to its workspace as well |
| `NetemJitter` | "Injects latency (+ms), packet loss (%), jitter" (`README.md:64`), "Random jitter in milliseconds" (`net/chaos.rs:8`) | jitter without latency adds no argument; with latency it makes one word of two, which `tc` refuses |
| `ContainerWorkspace` | `minibox run "echo hello" --engine container --rootfs alpine` runs (`README.md:104`) | the directory `root/workspace` is made before the overlay is mounted over `root` and is hidden by it; in an image without `/workspace` the bind mount has no target, and the overlay stays mounted |

Some properties carry an exception that is part of what the code does, stated
in the formula rather than left out of the model:

* `ExecEnds`: unless a process outside the cgroup keeps a pipe open. The comment
  "Pipes reach EOF around child exit" (`executor.rs:309`) has no such condition,
  but the readers are awaited without a limit, so that a background process keeps
  the execution open beyond the wall clock limit. `RunExits` has the same
  exception for `minibox run`: the process engine and the container engine wait
  in `execute_wait` (`InExecutor`).
* `CachedComplete`: without overlapping calls. The comment "a failed run never
  leaves a half-valid cache entry behind" (`rootfs/image_manager.rs:98`) has no
  such condition, but a call that is killed while it removes what a competitor
  has just put in place leaves an entry without all its parts but with `bin`.
* `CacheKept`: the entry may be incomplete where two calls were removing it at
  once and each gave up on a part the other had taken.
* `NothingLeft`: a failed `spawn_container_fs` undoes nothing; a root that the
  child could mount a second time in the host's namespace stays mounted; a session
  directory that could not be deleted stays, without mounts.
* `StaleNeverBlocks`: another daemon has bound the path, or the operating system
  refused the unlink or the bind.
* `NetemOwned`, `VmStopped`: a killed run leaves its qdisc and its QEMU.
* `FramesOwn`: after a fetch that failed locally.
* `FileFromLatest`: the latest usable request, successful or not (`SessionFiles`).
* `NoStdinLeft`: the descriptor of a request that is refused or does not decode is
  never closed.
* `ZeroMeansRan` speaks of containers and of exec over the daemon only.
* `LimitsAsAsked` speaks of limits that fit into a word.

Seen while modelling, not the subject of a run:

* Executor: without cgroups a descendant that called `setsid` survives the
  timeout, although `README.md:62` says that all grandchildren are terminated; a
  failed spawn leaves its cgroup (`executor.rs:213`), and on a real cgroupfs
  every execution does.
* Namespaces: the PID namespace is entered without a fork, so that `/proc` and
  the shell itself belong to the host's, and fork fails once the first process
  of the new namespace is gone. The command in a container starts in `/`, not
  in `/workspace`.
* Chaos: `main.rs:63` calls `lo` "safe inside sandbox netns", but `tc`
  runs in the host's. `replace` and `del` of the root also hit a qdisc that
  another run or the user had installed.
* Daemon: a second daemon takes the socket path of one that is serving.
* Session: an undecodable request closes the connection without the error reply
  `LAPORAN_VERIFIKASI_SANDBOX.md:26` promises; the SDK opens a connection for
  every call, so that its `fetch_file` is always refused.
* Limits: `ram_mb * 1024 * 1024` wraps in a release build, at worst to 0, which
  means no limit.
* Images: a plain tar is never recognized (`rootfs/image_manager.rs:40`). With
  a standard library whose `remove_dir_all` gives up on a missing file, two calls
  that remove one entry at the same time can leave half of it without anybody
  being killed (the exception of `CacheKept`). An image of two parts does not
  show this; the attempt to prove `CacheKept` for every image did.

### Bounds

`ChanCap` and `PipeCap` are 1 instead of 64 chunks and 64 KiB: the interesting
states are a full channel and a full pipe. Four units of stdout and one of stderr
(`MaxOut`, `MaxErr`) fill everything the daemon may hold in `ExecutorCgroup` (one
unit being sent, one in the channel, one in each reader's hands) and leave one to
write; `ExecutorHangup` needs three; in `ExecutorNoCgroup`, where output only has
to get stuck, one of each is enough. One descendant gives a
process outside the group or cgroup, two give one that is forked by another while
the kill is under way.

`Wire` uses a header of 2 bytes, payloads of 0 to 2 and a socket of 4, so that a
header, a payload and a pair of frames are cut at every place, a payload exceeds
the buffer's initial capacity, and the socket fills. `SessionCalls` makes three
calls, of every combination of exec and fetch, over a socket that buffers one
frame: after an exec, the `FileEof` that a failed fetch left unread fills it, and
the descriptor of the next fetch cannot be sent; its four workspaces are all
combinations of accepted and canonicalizable that matter. `SessionMixed` makes
four: an exec, a fetch that fails, the exec that fails on the leftover, and the
exec that is answered with the wrong frames. `SessionFiles` makes three without
failures at the client. `NetAtomic` has three connections
(a holder, a waiting writer, a reader behind it) and two values of the profile.
`ImageCalls` has three callers: one whose entry is removed, one that removes it
and one that interferes; an image has three parts, so that each of two removals
can have taken one and a third is left.

`MiniboxRuns` has two processes: enough for one to replace or delete the other's
qdisc and to take its socket. The first is started with every kind of command
line, the second with those that touch the interface or the socket; containers
of two processes meet only in the workspace, which neither changes, and the
proofs cover any number. A word holds `Word` = 64 values and a megabyte is `MB`
= 4 of them, so that 15 MB is the largest limit that fits and 16 MB wraps to 0;
ELF files come in both byte orders and cut off at 0, 3, 4, 19 and 20 bytes. A
stale socket file may be there from the start.

The deadlock check is off in three runs: in `ExecutorNoCgroup` and
`ExecutorHangup`, because after a disconnect the pipeline really can stop for
good, and in `ContainerWorkspace`, whose runs just end.

### Fairness

`HostFairness`: the executor's future is polled when it can go on, its timer
fires, and the kernel tears a killed process down. `StreamFairness`: tokio polls
reader and forwarder tasks and a connected client goes on reading; `ChildStops`
is checked without it (`StalledSpec`), on a host where `child.wait()` itself does
not fail, as it then returns without a kill. Nothing obliges a process to exit, write or
close a pipe. `Session`: both tasks are polled, and a command comes to its end,
which is what `ExecEnds` is about. `Wire` and `NetController`: tasks that can go on
are polled; peers need not send anything. `Minibox`: a run that is not killed goes
on and its timers fire, except that nothing is assumed of a run inside
`execute_wait`, which need not return after the child's end; a command in a
container comes to its end, if only by the executor's deadline (`ChildStops`); a
guest need not power off, a process need not be started, and none need be killed. All are weak fairness of steps that stay
enabled.

## 4. Proofs

Each component has the same argument: the properties are not inductive as they
stand, so that the component's module defines an invariant with named parts, TLC
checks it on the run's instance, and the proof module shows that it holds
initially, that every action keeps each part, and that the properties follow.

`ExecutorProofs`, for any processes, capacities, faults and host features:

* `TypeCorrect`: `[]TypeOK`.
* `Contiguous` and `Complete`: `[]OutputContiguous`, `[]OutputComplete`. The
  invariant behind them has four parts: `ControlInv` (readers, result and future
  keep step; a forwarder that ended has seen an empty, closed channel), `PipeInv`
  (delivered <= sent <= taken <= written for each stream, and a reader that saw
  EOF left nothing), `ChunksOrdered` (the chunks of a stream in the channel are
  disjoint, increasing and beyond what was delivered) and `ChunksCover` (they
  cover everything sent and not delivered). From the last two the head of the
  channel always continues its stream; with an empty channel and finished
  readers, delivered equals written.
* `Backpressure`: `[]BufferBound`. A bound on the sum over the channel is not
  inductive: forwarding a short chunk frees a whole slot. `TotalsInv` says that
  there are running totals of what the channel holds, of which every rest stays
  within a full read per chunk; a chunk that is sent adds one total at the end
  and one that is forwarded takes the first away, so that no sum needs to be
  computed by recursion. `RoomInv` bounds each pipe, reader and the channel; with
  the chunk that is being sent the bound is `ChanCap + 3` full reads.
* `KillsOwnChild`: `[]NoStrayKill`, from `ProcInv`: the child is reaped by the
  wait alone, whose outcome is not a timeout.
* `TimeoutKillsGroup`: `[]GroupKilled`, and `CleanupKillsCgroup`:
  `[]CgroupKilled`: after the kill no member runs, and only a running member can
  add another.

`ExecContractProofs`: `Implements`, `Spec => KeepsContract`. Every step of the
executor is a step of `ExecContract` or a stutter. It needs `Contiguous` and
`Complete`, and `EndInv`: once the final frame is sent, nobody is left that could
write or deliver.

`ContainerProofs`, for any runs, images and faults, about `ContainerSpec`:

* `AlwaysSound`: the inductive invariant `ContainerInv` with the types. Its parts
  are `PhaseInv` (when the child exists), `Past` (what a child has behind it, by
  the call it is at), `Stacked` (a second mount on the root is the work of a
  child that pivot_root will refuse) and `MountInv` (what cleanup has taken away,
  by where it is).
* `AlwaysConfined` from `Past`, `NeverDeletes` (`[]WorkspaceKept`: by `MountInv`
  the workspace is not mounted when `remove_dir_all` runs) and `LeavesNothing`.
* `ResultsTrue`: `[]ResultInv`. Ok is the result of a command that came to its
  end.

`MiniboxProofs`, for any processes and command lines:

* `RunsContainers`: `Spec => ContainerSpec`. Every step of `minibox` is a step of
  its containers or leaves them alone; `HostConfined`, `HostWorkspaceKept` and
  `HostNothingLeft` follow from it.
* `TypeCorrect`, with lemmas on what `Limits` and `Arch` compute.
* `NetemBelongs`: `[]NetemOwned`. Clearing is guarded by `applied`, so that
  `NetemInv` (who owns the qdisc knows that it installed one) is needed.
* `VmBelongs`: `[]VmStopped`.
* `StaleHarmless`: `[]StaleNeverBlocks`, from `DaemonInv`: a daemon about to bind
  finds the path free, or another has bound it since it looked, or its unlink was
  refused.
* `PlansKept`: `PlanInv`, that a process acts on the plan made for its own command
  line. From it `LimitsKept` (`[]LimitsAsAsked`, with arithmetic modulo the width
  of a word) and `ElfNamed` (`[]DetectsElf`, for both byte orders and every
  length of a file).
* `KnowsResult`: `ToldInv`, how far the exit status of a process agrees with what
  it has been told by its engine or by the daemon, by where it is. `ZeroIsTrue`
  (`[]ZeroMeansRan`) follows from it and `ResultsTrue`.

`WireProofs`, for any header length, payloads, socket capacity and number of
frames. `WireInv` says what each byte in the socket is: the bytes are numbered
without a gap, from the one the receiver needs next to the one the sender writes
next (`ByteAt`, `NextByte`), with the descriptor on the first byte of its frame
and nowhere else (`ByteInv`), the buffer is a prefix of the first frame not yet
returned, and `need` and `cap` are what its header says (`RecvInv`). From it
`ReceivesIntact`, `StaysWithinCapacity` and `NoFalseAlarms`.

`SessionProofs`, for any workspaces, calls, chunks and capacities, and for both
clients. Frames carry no call number, so that all rests on the order of things.
`SessionInv` has five parts: `OrderInv` (the requests in the queue and in the
server's hands are the next ones of the client's log), `RoleInv` (what each end
does fits its request), `FileInv` (the remembered workspace is that of the
latest usable request handled), `StdinInv` (whose descriptors are open) and
`PhaseInv` (what of an answer is still under way, by where server and client
are). From it `HandsOwnFrames`, `HandsLatestFiles` and `ClosesStdins`.

`NetControllerProofs`, for any connections and values:

* `TypeCorrect`, and `LocksCorrect`: the profile's lock is held by exactly the
  tasks that are between their two locks, a writer alone.
* `Refinement`: `Spec => Atomic`. The mapping shows the abstract register the
  profile as it was before a `Reset` that is between its locks (`saved`);
  `LocksCorrect` is why nobody can see the difference.

`ImageProofs`, for any number of calls, any archives and images. `CacheInv` has
five parts: `CallInv` (what a call has made and verified, by where it is),
`EntryInv` (an entry, and whatever somebody is removing, is the work of a call
that is over), `AloneInv` (without overlap nothing half removed counts as
cached), `RemovalInv` (who removes the entry has all that is left of it on its
list) and `KeptInv` (an incomplete entry is being removed or replaced, and a
promised one is there or about to be). From it `CachesComplete`,
`CachesGenuine`, `KeepsCache` and `LeavesNoLitter`.

The assumptions are the `ASSUME`s of the modules (`ExecutorAssumption`,
`ContainerAssumption`, `LimitsAssumption`, `MiniboxAssumption`, `WireAssumption`,
`SessionAssumption`, `NetAssumption`, `NoConnAssumption`, `ImageAssumption`), which
TLC evaluates in the runs. They say what kind of value a constant has, that the
model values for nothing are not among the things, that capacities are not zero,
and that a word holds more than two megabytes.

Only model-checked: all liveness (`ExecEnds`, `ChildStops`, `Delivered`,
`CallReturns`, `Answered`, `RunExits`), which is outside the prover's reach, and
the five counterexamples.

## 5. Not modelled

macOS (the SBPL profile is text for the operating system; the Virtualization
engine), the overlay manager of `linux/overlay.rs` (held by the executor and never
called), the topology stub, argument parsing, `info`, `image list` and other
printing. In `Executor`: stdin, exit codes and the values of the metrics. In
`ContainerFs`: the list of system calls of the filter, the values of the resource
limits other than memory and time, and an image that is replaced in the cache under
a running container. In `Minibox`: QEMU's arguments; signals that `minibox` could
handle but does not. In `Session`: `classify_workspace`, which is a parameter, and
the file system under a workspace. In `NetController`: binding the control socket and
removing a stale one. In `ImageCache`: `prepare_synthetic_rootfs`, which nothing calls.

## 6. Plan

1. `ContainerFs` with `ImageCache`: an image replaced under a running container.
2. The control socket of `NetController`, together with the daemon's.
3. Action properties of the session and the wire, from the invariants above.
