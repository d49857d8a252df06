---------------------------- MODULE ContainerFs ----------------------------
(***************************************************************************)
(* The container engine on Linux: execute_container of executor.rs with    *)
(* spawn_container_fs and cleanup of rootfs/overlay_rootfs.rs, and the     *)
(* pre_exec steps by which the forked child enters its root, in the order  *)
(* of build_command.                                                       *)
(*                                                                         *)
(* Two processes per run: the parent (at) and the child (child[r].at).     *)
(* Paths are the directories of the run's own session directory (its name  *)
(* is a fresh UUID); all runs share one workspace.  What a command does    *)
(* and how its output is collected is module Executor's subject.           *)
(***************************************************************************)
EXTENDS Integers

CONSTANTS
    Runs,            \* the calls of execute_container
    Images,          \* root file systems that pull_image can return
    WithWorkspace,   \* those that have a directory /workspace of their own
    NoImage,
    SetupFaults      \* the calls that may fail in this environment

ParentCalls == {"pull", "dirs", "overlay", "bind", "staging", "spawn"}
FatalCalls  == {"limits", "unshare", "chdir", "rebind", "pivot", "chroot", "detach", "seccomp"}

ASSUME ContainerAssumption ==
    /\ WithWorkspace \subseteq Images /\ NoImage \notin Images
    /\ SetupFaults \subseteq ParentCalls \cup FatalCalls \cup {"private", "remove"}

VARIABLES
    at,        \* where the parent is
    image,     \* the run's root file system
    tree,      \* directories under the session directory
    rootMnt,   \* mounts stacked on <session>/root in the host's namespace
    wsMnt,     \* is the workspace mounted below it?
    fs,        \* did spawn_container_fs return a ContainerFs?
    child,     \* the forked process
    visited,   \* does a process of the host use the mounted workspace?
    wsKept,    \* are the files of the workspace still there?
    undeleted, \* history: runs whose session directory the host would not delete
    result     \* what execute_container returns

hostVars      == <<tree, rootMnt, wsMnt>>
deletion      == <<wsKept, undeleted>>
containerVars == <<at, image, hostVars, fs, child, visited, deletion, result>>

Dirs == {"root", "upper", "work", "mountpoint"}

(* What create_dir_all has made when a later call of it fails.             *)
SomeDirs == {{}, {"root"}, {"root", "upper"}, {"root", "upper", "work"}}

ChildPcs == {"none", "limits", "unshare", "private", "chdir", "rebind", "pivot", "chroot",
             "detach", "seccomp", "exec", "over", "failed"}

Children == [at : ChildPcs, limited : BOOLEAN, ns : BOOLEAN, private : BOOLEAN,
             cwd : {"workspace", "root"}, root : {"host", "image"},
             hostTree : BOOLEAN, filter : BOOLEAN]

(* A fork of the parent, in the working directory spawn gave it.           *)
NewChild == [at |-> "none", limited |-> FALSE, ns |-> FALSE, private |-> FALSE,
             cwd |-> "workspace", root |-> "host", hostTree |-> TRUE, filter |-> FALSE]

ContainerTypeOK ==
    /\ at \in [Runs -> ParentCalls \cup {"idle", "wait", "umountWs", "umountRoot",
                                         "remove", "returned", "killed"}]
    /\ image \in [Runs -> Images \cup {NoImage}]
    /\ tree \in [Runs -> SUBSET Dirs]
    /\ rootMnt \in [Runs -> 0 .. 2]
    /\ wsMnt \in [Runs -> BOOLEAN]
    /\ fs \in [Runs -> BOOLEAN]
    /\ child \in [Runs -> Children]
    /\ visited \in [Runs -> BOOLEAN]
    /\ wsKept \in BOOLEAN
    /\ undeleted \subseteq Runs
    /\ result \in [Runs -> {"none", "ok", "err"}]

ContainerInit ==
    /\ at = [r \in Runs |-> "idle"]
    /\ image = [r \in Runs |-> NoImage]
    /\ tree = [r \in Runs |-> {}]
    /\ rootMnt = [r \in Runs |-> 0]
    /\ wsMnt = [r \in Runs |-> FALSE]
    /\ fs = [r \in Runs |-> FALSE]
    /\ child = [r \in Runs |-> NewChild]
    /\ visited = [r \in Runs |-> FALSE]
    /\ wsKept = TRUE
    /\ undeleted = {}
    /\ result = [r \in Runs |-> "none"]

-----------------------------------------------------------------------------
(***************************************************************************)
(* The parent.                                                             *)
(***************************************************************************)
Go(r, next) == at' = [at EXCEPT ![r] = next]

(* `?`: execute_container returns the error at once, without a cleanup.    *)
GiveUp(r) ==
    /\ Go(r, "returned")
    /\ result' = [result EXCEPT ![r] = "err"]

(* A call of the parent that succeeds, or fails where it may.              *)
Succeeds(r, call, next) ==
    /\ at[r] = call
    /\ Go(r, next)
    /\ UNCHANGED result

Fails(r, call) ==
    /\ at[r] = call /\ call \in SetupFaults
    /\ GiveUp(r)

(* execute_container is called.                                            *)
ContainerStart(r) ==
    /\ at[r] = "idle"
    /\ Go(r, "pull")
    /\ UNCHANGED <<image, hostVars, fs, child, visited, deletion, result>>

(* pull_image (module ImageCache) returns a path or an error.              *)
Pull(r) ==
    /\ \/ Succeeds(r, "pull", "dirs") /\ \E i \in Images : image' = [image EXCEPT ![r] = i]
       \/ Fails(r, "pull") /\ UNCHANGED image
    /\ UNCHANGED <<hostVars, fs, child, visited, deletion>>

(* root, upper, work and root/workspace are made, one after the other.     *)
MakeDirs(r) ==
    /\ \/ Succeeds(r, "dirs", "overlay") /\ tree' = [tree EXCEPT ![r] = Dirs]
       \/ Fails(r, "dirs") /\ \E made \in SomeDirs : tree' = [tree EXCEPT ![r] = made]
    /\ UNCHANGED <<image, rootMnt, wsMnt, fs, child, visited, deletion>>

(* The overlay of image and upper is mounted over root.                    *)
MountOverlay(r) ==
    /\ \/ Succeeds(r, "overlay", "bind") /\ rootMnt' = [rootMnt EXCEPT ![r] = 1]
       \/ Fails(r, "overlay") /\ UNCHANGED rootMnt
    /\ UNCHANGED <<image, tree, wsMnt, fs, child, visited, deletion>>

(* What <session>/root/workspace names now: the directory made before lies *)
(* under the overlay, which shows the image and the empty upper directory. *)
BindTarget(r) == image[r] \in WithWorkspace

BindWorkspace(r) ==
    /\ \/ /\ BindTarget(r)
          /\ Succeeds(r, "bind", "staging")
          /\ wsMnt' = [wsMnt EXCEPT ![r] = TRUE]
       \/ /\ at[r] = "bind"
          /\ ~BindTarget(r) \/ "bind" \in SetupFaults
          /\ GiveUp(r)
          /\ UNCHANGED wsMnt
    /\ UNCHANGED <<image, tree, rootMnt, fs, child, visited, deletion>>

(* .pivot_old is made inside the overlay; spawn_container_fs returns.      *)
MakeStaging(r) ==
    /\ \/ Succeeds(r, "staging", "spawn") /\ fs' = [fs EXCEPT ![r] = TRUE]
       \/ Fails(r, "staging") /\ UNCHANGED fs
    /\ UNCHANGED <<image, hostVars, child, visited, deletion>>

(* Mutant: an error of execute_wait returns before the cleanup.            *)
AfterRunEarly(r, res) ==
    /\ IF res = "ok" THEN Go(r, "umountWs") ELSE Go(r, "returned")
    /\ result' = [result EXCEPT ![r] = res]

(* execute_wait returned, with a result or an error: cleanup follows.      *)
AfterRun(r, res) ==
    /\ Go(r, "umountWs")
    /\ result' = [result EXCEPT ![r] = res]

(* cmd.spawn: the child is forked into its working directory, which is the *)
(* mounted workspace, and runs pre_exec; or a call before that fails.      *)
SpawnChild(r) ==
    /\ at[r] = "spawn"
    /\ \/ /\ Go(r, "wait")
          /\ child' = [child EXCEPT ![r] = [NewChild EXCEPT !.at = "limits"]]
          /\ UNCHANGED result
       \/ /\ "spawn" \in SetupFaults
          /\ AfterRun(r, "err")
          /\ UNCHANGED child
    /\ UNCHANGED <<image, hostVars, fs, visited, deletion>>

(* The child reports that pre_exec failed, or its command is over: it      *)
(* exited, or ran into the time limit.                                     *)
Collect(r) ==
    /\ at[r] = "wait"
    /\ \/ child[r].at = "failed" /\ AfterRun(r, "err")
       \/ child[r].at = "over" /\ \E res \in {"ok", "err"} : AfterRun(r, res)
    /\ UNCHANGED <<image, hostVars, fs, child, visited, deletion>>

(* Mutant: umount2 without MNT_DETACH, which a busy mount refuses.         *)
DetachesIfIdle(r) == ~visited[r]

(* umount2 with MNT_DETACH takes a mount away also while it is in use; so  *)
(* that ignoring its error, as cleanup does, ignores nothing.              *)
Detaches(r) == TRUE

(* cleanup: the workspace.                                                 *)
UnmountWorkspace(r) ==
    /\ at[r] = "umountWs"
    /\ Go(r, "umountRoot")
    /\ wsMnt' = [wsMnt EXCEPT ![r] = @ /\ ~Detaches(r)]
    /\ UNCHANGED <<image, tree, rootMnt, fs, child, visited, deletion, result>>

(* cleanup: the topmost mount on root, with what is mounted below it.      *)
UnmountRoot(r) ==
    /\ at[r] = "umountRoot"
    /\ Go(r, "remove")
    /\ rootMnt' = [rootMnt EXCEPT ![r] = IF Detaches(r) /\ @ > 0 THEN @ - 1 ELSE @]
    /\ wsMnt' = [wsMnt EXCEPT ![r] = @ /\ ~Detaches(r)]
    /\ UNCHANGED <<image, tree, fs, child, visited, deletion, result>>

(* cleanup: remove_dir_all of the session directory, which goes through    *)
(* whatever is mounted there and stops at a mount point it cannot remove.  *)
(* Its error is ignored: say because a process that the command left in    *)
(* the background goes on writing into the upper directory.                *)
RemoveSession(r) ==
    /\ at[r] = "remove"
    /\ Go(r, "returned")
    /\ wsKept' = (wsKept /\ ~wsMnt[r])
    /\ \/ /\ tree' = [tree EXCEPT ![r] = IF rootMnt[r] > 0 THEN @ ELSE {}]
          /\ UNCHANGED undeleted
       \/ /\ "remove" \in SetupFaults /\ rootMnt[r] = 0
          /\ \E left \in {tree[r], {"upper"}} : tree' = [tree EXCEPT ![r] = left]
          /\ undeleted' = undeleted \cup {r}
    /\ UNCHANGED <<image, rootMnt, wsMnt, fs, child, visited, result>>

-----------------------------------------------------------------------------
(***************************************************************************)
(* The child in pre_exec.  It goes on when its parent is killed.           *)
(***************************************************************************)
ChildMoves(r, call, state) ==
    /\ child[r].at = call
    /\ child' = [child EXCEPT ![r] = state]

(* Fail closed: pre_exec returns an error and the child exits.             *)
ChildFails(r, call) ==
    /\ call \in SetupFaults
    /\ ChildMoves(r, call, [child[r] EXCEPT !.at = "failed"])

OnlyChild(r) == UNCHANGED <<at, image, hostVars, fs, visited, deletion, result>>

(* setpgid, its error ignored, and apply_setrlimit.                        *)
SetLimits(r) ==
    /\ \/ ChildMoves(r, "limits", [child[r] EXCEPT !.at = "unshare", !.limited = TRUE])
       \/ ChildFails(r, "limits")
    /\ OnlyChild(r)

Unshare(r) ==
    /\ \/ ChildMoves(r, "unshare", [child[r] EXCEPT !.at = "private", !.ns = TRUE])
       \/ ChildFails(r, "unshare")
    /\ OnlyChild(r)

(* The new mount namespace is made private.  An error (a "/" that is no    *)
(* mount point, as after chroot) is ignored.  Then the host name.          *)
MakePrivate(r) ==
    /\ \/ ChildMoves(r, "private", [child[r] EXCEPT !.at = "chdir", !.private = TRUE])
       \/ /\ "private" \in SetupFaults
          /\ ChildMoves(r, "private", [child[r] EXCEPT !.at = "chdir"])
    /\ OnlyChild(r)

EnterRoot(r) ==
    /\ \/ ChildMoves(r, "chdir", [child[r] EXCEPT !.at = "rebind", !.cwd = "root"])
       \/ ChildFails(r, "chdir")
    /\ OnlyChild(r)

(* Mutant: the workspace in it is bound again with it.                     *)
RebindTwice(r) ==
    /\ \/ /\ ChildMoves(r, "rebind", [child[r] EXCEPT !.at = "pivot"])
          /\ \/ UNCHANGED rootMnt
             \/ ~child[r].private /\ rootMnt' = [rootMnt EXCEPT ![r] = @ + 2]
       \/ ChildFails(r, "rebind") /\ UNCHANGED rootMnt
    /\ UNCHANGED <<at, image, tree, wsMnt, fs, visited, deletion, result>>

(* root is bind-mounted on itself.  In a namespace that is not private and *)
(* shares its mounts with the host's, the mount appears there as well, on  *)
(* top of the overlay.  Then .pivot_old is made if it is missing.          *)
Rebind(r) ==
    /\ \/ /\ ChildMoves(r, "rebind", [child[r] EXCEPT !.at = "pivot"])
          /\ \/ UNCHANGED rootMnt
             \/ ~child[r].private /\ rootMnt' = [rootMnt EXCEPT ![r] = @ + 1]
       \/ ChildFails(r, "rebind") /\ UNCHANGED rootMnt
    /\ UNCHANGED <<at, image, tree, wsMnt, fs, visited, deletion, result>>

(* pivot_root needs private mounts and a "/" that is a mount point.        *)
Pivot(r) ==
    /\ \/ /\ child[r].private
          /\ ChildMoves(r, "pivot", [child[r] EXCEPT !.at = "chroot", !.root = "image"])
       \/ /\ ~child[r].private \/ "pivot" \in SetupFaults
          /\ ChildMoves(r, "pivot", [child[r] EXCEPT !.at = "failed"])
    /\ OnlyChild(r)

ChdirSlash(r) ==
    /\ \/ ChildMoves(r, "chroot", [child[r] EXCEPT !.at = "detach", !.cwd = "root"])
       \/ ChildFails(r, "chroot")
    /\ OnlyChild(r)

(* Mutant: an error of the unmount is ignored, as those around it are.     *)
DetachHostIgnored(r) ==
    /\ \/ ChildMoves(r, "detach", [child[r] EXCEPT !.at = "seccomp", !.hostTree = FALSE])
       \/ /\ "detach" \in SetupFaults
          /\ ChildMoves(r, "detach", [child[r] EXCEPT !.at = "seccomp"])
    /\ OnlyChild(r)

(* The host's tree under .pivot_old is unmounted.  Removing .pivot_old and *)
(* mounting /proc follow, their errors ignored.                            *)
DetachHost(r) ==
    /\ \/ ChildMoves(r, "detach", [child[r] EXCEPT !.at = "seccomp", !.hostTree = FALSE])
       \/ ChildFails(r, "detach")
    /\ OnlyChild(r)

(* SeccompFilter::apply, which fails in a build without the feature; then  *)
(* exec, after which the filter keeps the command from mounting.           *)
LoadFilter(r) ==
    /\ \/ ChildMoves(r, "seccomp", [child[r] EXCEPT !.at = "exec", !.filter = TRUE])
       \/ ChildFails(r, "seccomp")
    /\ OnlyChild(r)

(* The command exits or is killed.                                         *)
CommandEnds(r) ==
    /\ ChildMoves(r, "exec", [child[r] EXCEPT !.at = "over"])
    /\ OnlyChild(r)

-----------------------------------------------------------------------------
(* While the command runs, a process of the host looks into the mounted    *)
(* workspace and stays there.                                              *)
Visit(r) ==
    /\ wsMnt[r] /\ ~visited[r] /\ child[r].at = "exec"
    /\ visited' = [visited EXCEPT ![r] = TRUE]
    /\ UNCHANGED <<at, image, hostVars, fs, child, deletion, result>>

(* The parent is killed.                                                   *)
KillParent(r) ==
    /\ at[r] \notin {"idle", "returned", "killed"}
    /\ Go(r, "killed")
    /\ UNCHANGED <<image, hostVars, fs, child, visited, deletion, result>>

ParentStep(r) ==
    \/ Pull(r) \/ MakeDirs(r) \/ MountOverlay(r) \/ BindWorkspace(r) \/ MakeStaging(r)
    \/ SpawnChild(r) \/ Collect(r)
    \/ UnmountWorkspace(r) \/ UnmountRoot(r) \/ RemoveSession(r)

ChildStep(r) ==
    \/ SetLimits(r) \/ Unshare(r) \/ MakePrivate(r) \/ EnterRoot(r) \/ Rebind(r) \/ Pivot(r)
    \/ ChdirSlash(r) \/ DetachHost(r) \/ LoadFilter(r) \/ CommandEnds(r)

ContainerNext ==
    \E r \in Runs :
        \/ ContainerStart(r) \/ ParentStep(r) \/ ChildStep(r) \/ Visit(r) \/ KillParent(r)

ContainerSpec == ContainerInit /\ [][ContainerNext]_containerVars

-----------------------------------------------------------------------------
(* cleanup never deletes the user's files: remove_dir_all runs after both  *)
(* unmounts, whose errors are ignored, and finds no mount of the workspace *)
(* below it, also when somebody on the host is using that mount.           *)
WorkspaceKept == wsKept

(* Fail closed: a command only ever runs with its limits set, in the       *)
(* image's root with the host's tree unmounted, with a working directory   *)
(* inside it and behind the filter, whatever failed on the way and even if *)
(* its parent was killed in the middle of it.                              *)
Confined ==
    \A r \in Runs : child[r].at \in {"exec", "over"} =>
        /\ child[r].limited /\ child[r].ns /\ child[r].filter
        /\ child[r].root = "image" /\ ~child[r].hostTree /\ child[r].cwd = "root"

(* A call that returns leaves no mount and no directory behind, unless it  *)
(* was spawn_container_fs that failed, which undoes nothing, or the mounts *)
(* could not be made private.  A session directory that the host would not *)
(* delete stays as well, but with nothing mounted in it.                   *)
NothingLeft ==
    \A r \in Runs : at[r] = "returned" =>
        \/ ~fs[r]
        \/ child[r].at = "failed" /\ ~child[r].private /\ child[r].cwd = "root"
        \/ rootMnt[r] = 0 /\ ~wsMnt[r] /\ (tree[r] = {} \/ r \in undeleted)

(***************************************************************************)
(* The inductive invariants behind them.                                   *)
(***************************************************************************)
Ended == {"none", "failed", "over"}

(* The child exists between the spawn and the end of the wait, or outlives *)
(* a parent that was killed.                                               *)
PhaseInv(r) ==
    /\ at[r] \in {"idle", "pull", "dirs", "overlay", "bind", "staging"} => ~fs[r]
    /\ at[r] \in {"spawn", "wait", "umountWs", "umountRoot", "remove"} => fs[r]
    /\ at[r] \in {"idle", "pull", "dirs", "overlay", "bind", "staging", "spawn"}
         => child[r] = NewChild
    /\ at[r] \in {"umountWs", "umountRoot", "remove", "returned"} => child[r].at \in Ended

(* What a child c has behind it, by the call it is at.                     *)
Past(c) ==
    /\ c.at \notin {"none", "limits", "failed"} => c.limited
    /\ c.at \notin {"none", "limits", "unshare", "failed"} => c.ns
    /\ c.at \in {"rebind", "pivot", "chroot", "detach", "seccomp", "exec", "over"}
         => c.cwd = "root"
    /\ c.at \in {"chroot", "detach", "seccomp", "exec", "over"} => c.root = "image"
    /\ c.at \in {"seccomp", "exec", "over"} => ~c.hostTree
    /\ c.at \in {"exec", "over"} => c.filter

(* A second mount on root is the child's, in a namespace that could not be *)
(* made private, and pivot_root is as far as such a child comes.           *)
Stacked(c) == c.at \in {"pivot", "failed"} /\ ~c.private /\ c.cwd = "root"

(* What cleanup has taken away, by where it is.                            *)
MountInv(r) ==
    /\ at[r] \in {"idle", "pull", "dirs", "overlay"} => rootMnt[r] = 0
    /\ rootMnt[r] \in 0 .. 1 \/ (rootMnt[r] = 2 /\ Stacked(child[r]))
    /\ at[r] \in {"umountRoot", "remove"} => ~wsMnt[r]
    /\ at[r] = "remove" => rootMnt[r] = 0 \/ (rootMnt[r] = 1 /\ Stacked(child[r]))
    /\ at[r] = "returned" /\ fs[r] =>
          /\ ~wsMnt[r]
          /\ \/ rootMnt[r] = 0 /\ (tree[r] = {} \/ r \in undeleted)
             \/ rootMnt[r] = 1 /\ Stacked(child[r])

ContainerInv ==
    \A r \in Runs : PhaseInv(r) /\ Past(child[r]) /\ MountInv(r)

(* A call has its result when the wait is over, and Ok is the result of a  *)
(* command that came to its end.                                           *)
ResultOf(r) ==
    /\ at[r] \in ParentCalls \cup {"idle", "wait"} => result[r] = "none"
    /\ at[r] \in {"umountWs", "umountRoot", "remove", "returned"} => result[r] # "none"
    /\ result[r] = "ok" => child[r].at = "over"

ResultInv == \A r \in Runs : ResultOf(r)

(***************************************************************************)
(* What the documentation says and the code does not do.                   *)
(***************************************************************************)

(* README: `minibox run "echo hello" --engine container --rootfs alpine`:  *)
(* where no call fails by itself, the command runs.                        *)
FaultFreeRuns ==
    \A r \in Runs : at[r] = "returned" => child[r].at = "over"
=============================================================================
