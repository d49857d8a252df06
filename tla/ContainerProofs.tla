-------------------------- MODULE ContainerProofs --------------------------
(***************************************************************************)
(* Proofs about the container engine, for every set of runs and of images  *)
(* and every combination of failing calls.                                 *)
(***************************************************************************)
EXTENDS ContainerFs, TLAPS

(* The inductive invariant.                                                *)
Sound == ContainerTypeOK /\ ContainerInv

(* What the other runs see of a step of run r.                             *)
Others(r) ==
    \A q \in Runs \ {r} :
        /\ at'[q] = at[q] /\ fs'[q] = fs[q] /\ child'[q] = child[q] /\ tree'[q] = tree[q]
        /\ rootMnt'[q] = rootMnt[q] /\ wsMnt'[q] = wsMnt[q]
        /\ q \in undeleted' <=> q \in undeleted

(* A step that leaves the other runs alone has to be checked for its own.  *)
LEMMA OneRun ==
    ASSUME ContainerInv, NEW r \in Runs, Others(r),
           PhaseInv(r)', Past(child[r])', MountInv(r)'
    PROVE  ContainerInv'
  <1> SUFFICES ASSUME NEW q \in Runs, q /= r
               PROVE  PhaseInv(q)' /\ Past(child[q])' /\ MountInv(q)'
    BY DEF ContainerInv
  <1>1. /\ at'[q] = at[q] /\ fs'[q] = fs[q] /\ child'[q] = child[q] /\ tree'[q] = tree[q]
        /\ rootMnt'[q] = rootMnt[q] /\ wsMnt'[q] = wsMnt[q]
        /\ q \in undeleted' <=> q \in undeleted
    BY DEF Others
  <1>2. PhaseInv(q) /\ Past(child[q]) /\ MountInv(q)
    BY DEF ContainerInv
  <1>3. PhaseInv(q)'
    BY <1>1, <1>2 DEF PhaseInv
  <1>4. Past(child[q])'
    BY <1>1, <1>2 DEF Past
  <1>5. MountInv(q)'
    BY <1>1, <1>2 DEF MountInv, Stacked
  <1> QED BY <1>3, <1>4, <1>5

(* A child that is in pre_exec or runs has a parent that waits for it or   *)
(* was killed.                                                             *)
LEMMA ParentWaits ==
    ASSUME Sound, NEW r \in Runs, child[r].at \notin Ended
    PROVE  at[r] \in {"wait", "killed"}
  <1>1. PhaseInv(r) /\ NewChild.at = "none"
    BY DEF Sound, ContainerInv, NewChild
  <1>2. at[r] \in ParentCalls \cup {"idle", "wait", "umountWs", "umountRoot", "remove",
                                    "returned", "killed"}
    BY DEF Sound, ContainerTypeOK
  <1> QED BY <1>1, <1>2 DEF PhaseInv, Ended, ParentCalls

(* What is to be shown of a step of the child from child[r] to c.          *)
LEMMA ChildSound ==
    ASSUME Sound, NEW r \in Runs, NEW c \in Children,
           child[r].at \notin Ended, child' = [child EXCEPT ![r] = c],
           Past(c), Stacked(child[r]) => Stacked(c),
           \/ rootMnt' = rootMnt
           \/ rootMnt' = [rootMnt EXCEPT ![r] = @ + 1] /\ Stacked(c) /\ ~Stacked(child[r]),
           UNCHANGED <<at, image, tree, wsMnt, fs, visited, wsKept, undeleted, result>>
    PROVE  Sound'
  <1>1. at[r] \in {"wait", "killed"}
    BY ParentWaits
  <1>2. PhaseInv(r) /\ MountInv(r)
    BY DEF Sound, ContainerInv
  <1>3. child' \in [Runs -> Children] /\ child'[r] = c /\ rootMnt'[r] \in 0 .. 2
    BY <1>2 DEF Sound, ContainerTypeOK, MountInv
  <1>4. ContainerTypeOK'
    BY <1>3 DEF Sound, ContainerTypeOK
  <1>5. Others(r)
    BY DEF Sound, ContainerTypeOK, Others
  <1>6. PhaseInv(r)'
    BY <1>1, <1>2 DEF PhaseInv
  <1>7. Past(child[r])'
    BY <1>3
  <1>8. MountInv(r)'
    BY <1>1, <1>2, <1>3 DEF MountInv, Sound, ContainerTypeOK
  <1> QED BY <1>4, <1>5, <1>6, <1>7, <1>8, OneRun DEF Sound

(* Every step of the parent keeps the invariant.                           *)
LEMMA ParentSound ==
    ASSUME Sound, NEW r \in Runs,
           ContainerStart(r) \/ ParentStep(r) \/ Visit(r) \/ KillParent(r)
    PROVE  Sound'
  <1>1. PhaseInv(r) /\ Past(child[r]) /\ MountInv(r)
    BY DEF Sound, ContainerInv
  <1>2. ASSUME ContainerStart(r) PROVE Sound'
    <2> USE <1>2 DEF Sound, ContainerStart, Go, hostVars, deletion
    <2>1. ContainerTypeOK'
      BY DEF ContainerTypeOK, ParentCalls, Dirs, deletion
    <2>2. Others(r)
      BY DEF ContainerTypeOK, Others, deletion
    <2>3. PhaseInv(r)'
      BY <1>1 DEF PhaseInv, ContainerTypeOK, Ended, NewChild
    <2>4. Past(child[r])'
      BY <1>1 DEF Past, ContainerTypeOK, NewChild
    <2>5. MountInv(r)'
      BY <1>1 DEF MountInv, PhaseInv, ContainerTypeOK, Stacked, NewChild, Ended
    <2> QED BY <2>1, <2>2, <2>3, <2>4, <2>5, OneRun
  <1>3. ASSUME Pull(r) PROVE Sound'
    <2> USE <1>3 DEF Sound, Pull, Succeeds, Fails, GiveUp, Go, hostVars, deletion
    <2>1. ContainerTypeOK'
      BY DEF ContainerTypeOK, ParentCalls, Dirs, deletion
    <2>2. Others(r)
      BY DEF ContainerTypeOK, Others, deletion
    <2>3. PhaseInv(r)'
      BY <1>1 DEF PhaseInv, ContainerTypeOK, Ended, NewChild
    <2>4. Past(child[r])'
      BY <1>1 DEF Past, ContainerTypeOK, NewChild
    <2>5. MountInv(r)'
      BY <1>1 DEF MountInv, PhaseInv, ContainerTypeOK, Stacked, NewChild, Ended
    <2> QED BY <2>1, <2>2, <2>3, <2>4, <2>5, OneRun
  <1>4. ASSUME MakeDirs(r) PROVE Sound'
    <2> USE <1>4 DEF Sound, MakeDirs, Succeeds, Fails, GiveUp, Go, SomeDirs, hostVars, deletion
    <2>1. ContainerTypeOK'
      BY DEF ContainerTypeOK, ParentCalls, Dirs, deletion
    <2>2. Others(r)
      BY DEF ContainerTypeOK, Others, deletion
    <2>3. PhaseInv(r)'
      BY <1>1 DEF PhaseInv, ContainerTypeOK, Ended, NewChild
    <2>4. Past(child[r])'
      BY <1>1 DEF Past, ContainerTypeOK, NewChild
    <2>5. MountInv(r)'
      BY <1>1 DEF MountInv, PhaseInv, ContainerTypeOK, Stacked, NewChild, Ended
    <2> QED BY <2>1, <2>2, <2>3, <2>4, <2>5, OneRun
  <1>5. ASSUME MountOverlay(r) PROVE Sound'
    <2> USE <1>5 DEF Sound, MountOverlay, Succeeds, Fails, GiveUp, Go, hostVars, deletion
    <2>1. ContainerTypeOK'
      BY DEF ContainerTypeOK, ParentCalls, Dirs, deletion
    <2>2. Others(r)
      BY DEF ContainerTypeOK, Others, deletion
    <2>3. PhaseInv(r)'
      BY <1>1 DEF PhaseInv, ContainerTypeOK, Ended, NewChild
    <2>4. Past(child[r])'
      BY <1>1 DEF Past, ContainerTypeOK, NewChild
    <2>5. MountInv(r)'
      BY <1>1 DEF MountInv, PhaseInv, ContainerTypeOK, Stacked, NewChild, Ended
    <2> QED BY <2>1, <2>2, <2>3, <2>4, <2>5, OneRun
  <1>6. ASSUME BindWorkspace(r) PROVE Sound'
    <2> USE <1>6 DEF Sound, BindWorkspace, Succeeds, GiveUp, Go, hostVars, deletion
    <2>1. ContainerTypeOK'
      BY DEF ContainerTypeOK, ParentCalls, Dirs, deletion
    <2>2. Others(r)
      BY DEF ContainerTypeOK, Others, deletion
    <2>3. PhaseInv(r)'
      BY <1>1 DEF PhaseInv, ContainerTypeOK, Ended, NewChild
    <2>4. Past(child[r])'
      BY <1>1 DEF Past, ContainerTypeOK, NewChild
    <2>5. MountInv(r)'
      BY <1>1 DEF MountInv, PhaseInv, ContainerTypeOK, Stacked, NewChild, Ended
    <2> QED BY <2>1, <2>2, <2>3, <2>4, <2>5, OneRun
  <1>7. ASSUME MakeStaging(r) PROVE Sound'
    <2> USE <1>7 DEF Sound, MakeStaging, Succeeds, Fails, GiveUp, Go, hostVars, deletion
    <2>1. ContainerTypeOK'
      BY DEF ContainerTypeOK, ParentCalls, Dirs, deletion
    <2>2. Others(r)
      BY DEF ContainerTypeOK, Others, deletion
    <2>3. PhaseInv(r)'
      BY <1>1 DEF PhaseInv, ContainerTypeOK, Ended, NewChild
    <2>4. Past(child[r])'
      BY <1>1 DEF Past, ContainerTypeOK, NewChild
    <2>5. MountInv(r)'
      BY <1>1 DEF MountInv, PhaseInv, ContainerTypeOK, Stacked, NewChild, Ended
    <2> QED BY <2>1, <2>2, <2>3, <2>4, <2>5, OneRun
  <1>8. ASSUME SpawnChild(r) PROVE Sound'
    <2> USE <1>8 DEF Sound, SpawnChild, AfterRun, Go, hostVars, deletion
    <2>1. ContainerTypeOK'
      <3>1. [NewChild EXCEPT !.at = "limits"] \in Children
        BY DEF NewChild, Children, ChildPcs
      <3> QED BY <3>1 DEF ContainerTypeOK, ParentCalls, Dirs, deletion
    <2>2. Others(r)
      BY DEF ContainerTypeOK, Others, deletion
    <2>3. PhaseInv(r)'
      BY <1>1 DEF PhaseInv, ContainerTypeOK, Ended, NewChild
    <2>4. Past(child[r])'
      BY <1>1 DEF Past, ContainerTypeOK, NewChild
    <2>5. MountInv(r)'
      BY <1>1 DEF MountInv, PhaseInv, ContainerTypeOK, Stacked, NewChild, Ended
    <2> QED BY <2>1, <2>2, <2>3, <2>4, <2>5, OneRun
  <1>9. ASSUME Collect(r) PROVE Sound'
    <2> USE <1>9 DEF Sound, Collect, AfterRun, Go, hostVars, deletion
    <2>1. ContainerTypeOK'
      BY DEF ContainerTypeOK, ParentCalls, Dirs, deletion
    <2>2. Others(r)
      BY DEF ContainerTypeOK, Others, deletion
    <2>3. PhaseInv(r)'
      BY <1>1 DEF PhaseInv, ContainerTypeOK, Ended, NewChild
    <2>4. Past(child[r])'
      BY <1>1 DEF Past, ContainerTypeOK, NewChild
    <2>5. MountInv(r)'
      BY <1>1 DEF MountInv, PhaseInv, ContainerTypeOK, Stacked, NewChild, Ended
    <2> QED BY <2>1, <2>2, <2>3, <2>4, <2>5, OneRun
  <1>10. ASSUME UnmountWorkspace(r) PROVE Sound'
    <2> USE <1>10 DEF Sound, UnmountWorkspace, Go, Detaches, hostVars, deletion
    <2>1. ContainerTypeOK'
      BY DEF ContainerTypeOK, ParentCalls, Dirs, deletion
    <2>2. Others(r)
      BY DEF ContainerTypeOK, Others, deletion
    <2>3. PhaseInv(r)'
      BY <1>1 DEF PhaseInv, ContainerTypeOK, Ended, NewChild
    <2>4. Past(child[r])'
      BY <1>1 DEF Past, ContainerTypeOK, NewChild
    <2>5. MountInv(r)'
      BY <1>1 DEF MountInv, PhaseInv, ContainerTypeOK, Stacked, NewChild, Ended
    <2> QED BY <2>1, <2>2, <2>3, <2>4, <2>5, OneRun
  <1>11. ASSUME UnmountRoot(r) PROVE Sound'
    <2> USE <1>11 DEF Sound, UnmountRoot, Go, Detaches, hostVars, deletion
    <2>1. ContainerTypeOK'
      BY DEF ContainerTypeOK, ParentCalls, Dirs, deletion
    <2>2. Others(r)
      BY DEF ContainerTypeOK, Others, deletion
    <2>3. PhaseInv(r)'
      BY <1>1 DEF PhaseInv, ContainerTypeOK, Ended, NewChild
    <2>4. Past(child[r])'
      BY <1>1 DEF Past, ContainerTypeOK, NewChild
    <2>5. MountInv(r)'
      BY <1>1 DEF MountInv, PhaseInv, ContainerTypeOK, Stacked, NewChild, Ended
    <2> QED BY <2>1, <2>2, <2>3, <2>4, <2>5, OneRun
  <1>12. ASSUME RemoveSession(r) PROVE Sound'
    <2> USE <1>12 DEF Sound, RemoveSession, Go, hostVars, deletion
    <2>1. ContainerTypeOK'
      BY DEF ContainerTypeOK, ParentCalls, Dirs, deletion
    <2>2. Others(r)
      BY DEF ContainerTypeOK, Others, deletion
    <2>3. PhaseInv(r)'
      BY <1>1 DEF PhaseInv, ContainerTypeOK, Ended, NewChild
    <2>4. Past(child[r])'
      BY <1>1 DEF Past, ContainerTypeOK, NewChild
    <2>5. MountInv(r)'
      BY <1>1 DEF MountInv, PhaseInv, ContainerTypeOK, Stacked, NewChild, Ended
    <2> QED BY <2>1, <2>2, <2>3, <2>4, <2>5, OneRun
  <1>13. ASSUME Visit(r) PROVE Sound'
    <2> USE <1>13 DEF Sound, Visit, hostVars, deletion
    <2>1. ContainerTypeOK'
      BY DEF ContainerTypeOK, ParentCalls, Dirs, deletion
    <2>2. Others(r)
      BY DEF ContainerTypeOK, Others, deletion
    <2>3. PhaseInv(r)'
      BY <1>1 DEF PhaseInv, ContainerTypeOK, Ended, NewChild
    <2>4. Past(child[r])'
      BY <1>1 DEF Past, ContainerTypeOK, NewChild
    <2>5. MountInv(r)'
      BY <1>1 DEF MountInv, PhaseInv, ContainerTypeOK, Stacked, NewChild, Ended
    <2> QED BY <2>1, <2>2, <2>3, <2>4, <2>5, OneRun
  <1>14. ASSUME KillParent(r) PROVE Sound'
    <2> USE <1>14 DEF Sound, KillParent, Go, hostVars, deletion
    <2>1. ContainerTypeOK'
      BY DEF ContainerTypeOK, ParentCalls, Dirs, deletion
    <2>2. Others(r)
      BY DEF ContainerTypeOK, Others, deletion
    <2>3. PhaseInv(r)'
      BY <1>1 DEF PhaseInv, ContainerTypeOK, Ended, NewChild
    <2>4. Past(child[r])'
      BY <1>1 DEF Past, ContainerTypeOK, NewChild
    <2>5. MountInv(r)'
      BY <1>1 DEF MountInv, PhaseInv, ContainerTypeOK, Stacked, NewChild, Ended
    <2> QED BY <2>1, <2>2, <2>3, <2>4, <2>5, OneRun
  <1> QED
    BY <1>2, <1>3, <1>4, <1>5, <1>6, <1>7, <1>8, <1>9, <1>10, <1>11, <1>12, <1>13, <1>14 DEF ParentStep

(* A step of the child that fails closes it, whatever it has behind it.    *)
LEMMA FailSound ==
    ASSUME Sound, NEW r \in Runs, child[r].at \notin Ended,
           child' = [child EXCEPT ![r] = [child[r] EXCEPT !.at = "failed"]],
           UNCHANGED <<at, image, hostVars, fs, visited, deletion, result>>
    PROVE  Sound'
  <1> DEFINE c == [child[r] EXCEPT !.at = "failed"]
  <1>1. child[r] \in Children
    BY DEF Sound, ContainerTypeOK
  <1>2. c \in Children /\ c.at = "failed" /\ c.private = child[r].private /\ c.cwd = child[r].cwd
    BY <1>1 DEF Children, ChildPcs
  <1>3. Past(c) /\ (Stacked(child[r]) => Stacked(c))
    BY <1>2 DEF Past, Stacked
  <1> HIDE DEF c
  <1> QED BY <1>2, <1>3, ChildSound DEF hostVars, deletion, c

(* Every step of the child keeps the invariant.                            *)
LEMMA ChildStepSound ==
    ASSUME Sound, NEW r \in Runs, ChildStep(r)
    PROVE  Sound'
  <1>1. child[r] \in Children /\ Past(child[r]) /\ MountInv(r)
    BY DEF Sound, ContainerTypeOK, ContainerInv
  <1>2. ASSUME SetLimits(r) PROVE Sound'
    <2> DEFINE c == [child[r] EXCEPT !.at = "unshare", !.limited = TRUE]
    <2>1. child[r].at = "limits" /\ child[r].at \notin Ended /\ ~Stacked(child[r])
      BY <1>2 DEF SetLimits, ChildMoves, ChildFails, Ended, Stacked
    <2>2. c \in Children
      BY <1>1 DEF Children, ChildPcs
    <2>3. Past(c)
      BY <1>1, <2>1 DEF Past, Children
    <2>4. CASE child' = [child EXCEPT ![r] = c]
      <3> HIDE DEF c
      <3> QED BY <1>2, <2>1, <2>2, <2>3, <2>4, ChildSound DEF SetLimits, OnlyChild, hostVars, deletion
    <2>5. CASE ChildFails(r, "limits")
      BY <1>2, <2>1, <2>5, FailSound DEF SetLimits, ChildFails, ChildMoves, OnlyChild
    <2> QED BY <1>2, <2>4, <2>5 DEF SetLimits, ChildMoves
  <1>3. ASSUME Unshare(r) PROVE Sound'
    <2> DEFINE c == [child[r] EXCEPT !.at = "private", !.ns = TRUE]
    <2>1. child[r].at = "unshare" /\ child[r].at \notin Ended /\ ~Stacked(child[r])
      BY <1>3 DEF Unshare, ChildMoves, ChildFails, Ended, Stacked
    <2>2. c \in Children
      BY <1>1 DEF Children, ChildPcs
    <2>3. Past(c)
      BY <1>1, <2>1 DEF Past, Children
    <2>4. CASE child' = [child EXCEPT ![r] = c]
      <3> HIDE DEF c
      <3> QED BY <1>3, <2>1, <2>2, <2>3, <2>4, ChildSound DEF Unshare, OnlyChild, hostVars, deletion
    <2>5. CASE ChildFails(r, "unshare")
      BY <1>3, <2>1, <2>5, FailSound DEF Unshare, ChildFails, ChildMoves, OnlyChild
    <2> QED BY <1>3, <2>4, <2>5 DEF Unshare, ChildMoves
  <1>4. ASSUME EnterRoot(r) PROVE Sound'
    <2> DEFINE c == [child[r] EXCEPT !.at = "rebind", !.cwd = "root"]
    <2>1. child[r].at = "chdir" /\ child[r].at \notin Ended /\ ~Stacked(child[r])
      BY <1>4 DEF EnterRoot, ChildMoves, ChildFails, Ended, Stacked
    <2>2. c \in Children
      BY <1>1 DEF Children, ChildPcs
    <2>3. Past(c)
      BY <1>1, <2>1 DEF Past, Children
    <2>4. CASE child' = [child EXCEPT ![r] = c]
      <3> HIDE DEF c
      <3> QED BY <1>4, <2>1, <2>2, <2>3, <2>4, ChildSound DEF EnterRoot, OnlyChild, hostVars, deletion
    <2>5. CASE ChildFails(r, "chdir")
      BY <1>4, <2>1, <2>5, FailSound DEF EnterRoot, ChildFails, ChildMoves, OnlyChild
    <2> QED BY <1>4, <2>4, <2>5 DEF EnterRoot, ChildMoves
  <1>5. ASSUME ChdirSlash(r) PROVE Sound'
    <2> DEFINE c == [child[r] EXCEPT !.at = "detach", !.cwd = "root"]
    <2>1. child[r].at = "chroot" /\ child[r].at \notin Ended /\ ~Stacked(child[r])
      BY <1>5 DEF ChdirSlash, ChildMoves, ChildFails, Ended, Stacked
    <2>2. c \in Children
      BY <1>1 DEF Children, ChildPcs
    <2>3. Past(c)
      BY <1>1, <2>1 DEF Past, Children
    <2>4. CASE child' = [child EXCEPT ![r] = c]
      <3> HIDE DEF c
      <3> QED BY <1>5, <2>1, <2>2, <2>3, <2>4, ChildSound DEF ChdirSlash, OnlyChild, hostVars, deletion
    <2>5. CASE ChildFails(r, "chroot")
      BY <1>5, <2>1, <2>5, FailSound DEF ChdirSlash, ChildFails, ChildMoves, OnlyChild
    <2> QED BY <1>5, <2>4, <2>5 DEF ChdirSlash, ChildMoves
  <1>6. ASSUME DetachHost(r) PROVE Sound'
    <2> DEFINE c == [child[r] EXCEPT !.at = "seccomp", !.hostTree = FALSE]
    <2>1. child[r].at = "detach" /\ child[r].at \notin Ended /\ ~Stacked(child[r])
      BY <1>6 DEF DetachHost, ChildMoves, ChildFails, Ended, Stacked
    <2>2. c \in Children
      BY <1>1 DEF Children, ChildPcs
    <2>3. Past(c)
      BY <1>1, <2>1 DEF Past, Children
    <2>4. CASE child' = [child EXCEPT ![r] = c]
      <3> HIDE DEF c
      <3> QED BY <1>6, <2>1, <2>2, <2>3, <2>4, ChildSound DEF DetachHost, OnlyChild, hostVars, deletion
    <2>5. CASE ChildFails(r, "detach")
      BY <1>6, <2>1, <2>5, FailSound DEF DetachHost, ChildFails, ChildMoves, OnlyChild
    <2> QED BY <1>6, <2>4, <2>5 DEF DetachHost, ChildMoves
  <1>7. ASSUME LoadFilter(r) PROVE Sound'
    <2> DEFINE c == [child[r] EXCEPT !.at = "exec", !.filter = TRUE]
    <2>1. child[r].at = "seccomp" /\ child[r].at \notin Ended /\ ~Stacked(child[r])
      BY <1>7 DEF LoadFilter, ChildMoves, ChildFails, Ended, Stacked
    <2>2. c \in Children
      BY <1>1 DEF Children, ChildPcs
    <2>3. Past(c)
      BY <1>1, <2>1 DEF Past, Children
    <2>4. CASE child' = [child EXCEPT ![r] = c]
      <3> HIDE DEF c
      <3> QED BY <1>7, <2>1, <2>2, <2>3, <2>4, ChildSound DEF LoadFilter, OnlyChild, hostVars, deletion
    <2>5. CASE ChildFails(r, "seccomp")
      BY <1>7, <2>1, <2>5, FailSound DEF LoadFilter, ChildFails, ChildMoves, OnlyChild
    <2> QED BY <1>7, <2>4, <2>5 DEF LoadFilter, ChildMoves
  <1>8. ASSUME MakePrivate(r) PROVE Sound'
    <2>1. child[r].at = "private" /\ child[r].at \notin Ended /\ ~Stacked(child[r])
      BY <1>8 DEF MakePrivate, ChildMoves, Ended, Stacked
    <2>2. PICK c \in {[child[r] EXCEPT !.at = "chdir", !.private = TRUE],
                      [child[r] EXCEPT !.at = "chdir"]} : child' = [child EXCEPT ![r] = c]
      BY <1>8 DEF MakePrivate, ChildMoves
    <2>3. c \in Children /\ Past(c)
      BY <1>1, <2>1, <2>2 DEF Children, ChildPcs, Past
    <2> QED BY <1>8, <2>1, <2>2, <2>3, ChildSound DEF MakePrivate, OnlyChild, hostVars, deletion
  <1>9. ASSUME Rebind(r) PROVE Sound'
    <2> DEFINE c == [child[r] EXCEPT !.at = "pivot"]
    <2>1. child[r].at = "rebind" /\ child[r].at \notin Ended /\ ~Stacked(child[r])
      BY <1>9 DEF Rebind, ChildMoves, ChildFails, Ended, Stacked
    <2>2. c \in Children /\ Past(c) /\ (~child[r].private => Stacked(c))
      BY <1>1, <2>1 DEF Children, ChildPcs, Past, Stacked
    <2>3. CASE /\ child' = [child EXCEPT ![r] = c]
               /\ \/ rootMnt' = rootMnt
                  \/ ~child[r].private /\ rootMnt' = [rootMnt EXCEPT ![r] = @ + 1]
      <3> HIDE DEF c
      <3> QED BY <1>9, <2>1, <2>2, <2>3, ChildSound DEF Rebind, deletion
    <2>4. CASE ChildFails(r, "rebind") /\ UNCHANGED rootMnt
      BY <1>9, <2>1, <2>4, FailSound DEF Rebind, ChildFails, ChildMoves, hostVars, deletion
    <2> QED BY <1>9, <2>3, <2>4 DEF Rebind, ChildMoves
  <1>10. ASSUME Pivot(r) PROVE Sound'
    <2> DEFINE c == [child[r] EXCEPT !.at = "chroot", !.root = "image"]
    <2>1. child[r].at = "pivot" /\ child[r].at \notin Ended
      BY <1>10 DEF Pivot, ChildMoves, Ended
    <2>2. c \in Children /\ Past(c)
      BY <1>1, <2>1 DEF Children, ChildPcs, Past
    <2>3. CASE child[r].private /\ child' = [child EXCEPT ![r] = c]
      <3>1. ~Stacked(child[r])
        BY <2>3 DEF Stacked
      <3> HIDE DEF c
      <3> QED BY <1>10, <2>1, <2>2, <2>3, <3>1, ChildSound DEF Pivot, OnlyChild, hostVars, deletion
    <2>4. CASE child' = [child EXCEPT ![r] = [child[r] EXCEPT !.at = "failed"]]
      BY <1>10, <2>1, <2>4, FailSound DEF Pivot, OnlyChild, deletion
    <2> QED BY <1>10, <2>3, <2>4 DEF Pivot, ChildMoves
  <1>11. ASSUME CommandEnds(r) PROVE Sound'
    <2> DEFINE c == [child[r] EXCEPT !.at = "over"]
    <2>1. child[r].at = "exec" /\ child[r].at \notin Ended /\ ~Stacked(child[r])
      BY <1>11 DEF CommandEnds, ChildMoves, Ended, Stacked
    <2>2. c \in Children /\ Past(c)
      BY <1>1, <2>1 DEF Children, ChildPcs, Past
    <2>3. child' = [child EXCEPT ![r] = c]
      BY <1>11 DEF CommandEnds, ChildMoves
    <2> HIDE DEF c
    <2> QED BY <1>11, <2>1, <2>2, <2>3, ChildSound DEF CommandEnds, OnlyChild, hostVars, deletion
  <1> QED
    BY <1>2, <1>3, <1>4, <1>5, <1>6, <1>7, <1>8, <1>9, <1>10, <1>11 DEF ChildStep

-----------------------------------------------------------------------------
(* The invariant holds throughout.                                         *)
THEOREM AlwaysSound == ContainerSpec => []Sound
<1>1. ContainerInit => Sound
  <2> SUFFICES ASSUME ContainerInit PROVE Sound
    OBVIOUS
  <2>1. NewChild \in Children
    BY DEF NewChild, Children, ChildPcs
  <2>2. ContainerTypeOK
    BY <2>1 DEF ContainerInit, ContainerTypeOK
  <2>3. ASSUME NEW r \in Runs PROVE PhaseInv(r) /\ Past(child[r]) /\ MountInv(r)
    <3>1. at[r] = "idle" /\ child[r] = NewChild /\ ~fs[r] /\ rootMnt[r] = 0 /\ NewChild.at = "none"
      BY DEF ContainerInit, NewChild
    <3> QED BY <3>1 DEF PhaseInv, Past, MountInv
  <2> QED BY <2>2, <2>3 DEF Sound, ContainerInv
<1>2. Sound /\ [ContainerNext]_containerVars => Sound'
  <2> SUFFICES ASSUME Sound, [ContainerNext]_containerVars PROVE Sound'
    OBVIOUS
  <2>1. CASE ContainerNext
    BY <2>1, ParentSound, ChildStepSound DEF ContainerNext
  <2>2. CASE UNCHANGED containerVars
    BY <2>2 DEF containerVars, hostVars, deletion, Sound, ContainerTypeOK, ContainerInv, PhaseInv, Past,
                MountInv, Stacked
  <2> QED BY <2>1, <2>2
<1> QED
  BY <1>1, <1>2, PTL DEF ContainerSpec

(* A command never runs unless every step of its confinement succeeded.    *)
THEOREM AlwaysConfined == ContainerSpec => []Confined
<1>1. Sound => Confined
  BY DEF Sound, ContainerInv, Past, Confined
<1> QED
  BY <1>1, AlwaysSound, PTL

(* cleanup never goes through a mounted workspace with remove_dir_all.     *)
THEOREM NeverDeletes == ContainerSpec => []WorkspaceKept
<1>1. ContainerInit => WorkspaceKept
  BY DEF ContainerInit, WorkspaceKept
<1>2. Sound /\ WorkspaceKept /\ [ContainerNext]_containerVars => WorkspaceKept'
  <2> SUFFICES ASSUME Sound, WorkspaceKept, [ContainerNext]_containerVars PROVE WorkspaceKept'
    OBVIOUS
  <2>1. ASSUME NEW r \in Runs, RemoveSession(r) PROVE WorkspaceKept'
    BY <2>1 DEF RemoveSession, WorkspaceKept, Sound, ContainerInv, MountInv
  <2>2. CASE UNCHANGED wsKept
    BY <2>2 DEF WorkspaceKept
  <2> QED
    BY <2>1, <2>2 DEF ContainerNext, containerVars, deletion, ParentStep, ChildStep, ContainerStart, Pull,
       MakeDirs, MountOverlay, BindWorkspace, MakeStaging, SpawnChild, Collect, UnmountWorkspace,
       UnmountRoot, SetLimits, Unshare, MakePrivate, EnterRoot, Rebind, Pivot, ChdirSlash,
       DetachHost, LoadFilter, CommandEnds, OnlyChild, Visit, KillParent
<1> QED
  BY <1>1, <1>2, AlwaysSound, PTL DEF ContainerSpec

(* A call that got its file system leaves nothing of it mounted, where the *)
(* mounts could be made private, and no directory the host let it delete.  *)
THEOREM LeavesNothing == ContainerSpec => []NothingLeft
<1>1. Sound => NothingLeft
  <2> SUFFICES ASSUME Sound, NEW r \in Runs, at[r] = "returned", fs[r],
                      ~(rootMnt[r] = 0 /\ ~wsMnt[r] /\ (tree[r] = {} \/ r \in undeleted))
               PROVE  child[r].at = "failed" /\ ~child[r].private /\ child[r].cwd = "root"
    BY DEF NothingLeft
  <2>1. Stacked(child[r])
    BY DEF Sound, ContainerInv, MountInv
  <2>2. child[r].at \in Ended
    BY DEF Sound, ContainerInv, PhaseInv
  <2> QED BY <2>1, <2>2 DEF Stacked, Ended
<1> QED
  BY <1>1, AlwaysSound, PTL

-----------------------------------------------------------------------------
(* A step of run r that keeps the result of its call in line with where    *)
(* the call is.                                                            *)
LEMMA OneResult ==
    ASSUME ContainerTypeOK, ResultInv, NEW r \in Runs, ResultOf(r)',
           \A q \in Runs \ {r} :
               at'[q] = at[q] /\ child'[q] = child[q] /\ result'[q] = result[q]
    PROVE  ResultInv'
  <1> SUFFICES ASSUME NEW q \in Runs, q /= r PROVE ResultOf(q)'
    BY DEF ResultInv
  <1> QED BY DEF ResultInv, ResultOf

(* Every step of a call keeps its result in line with where it is, ...     *)
LEMMA ParentResult ==
    ASSUME Sound, ResultInv, NEW r \in Runs, ContainerStart(r) \/ ParentStep(r) \/ KillParent(r)
    PROVE  ResultInv' /\ (result[r] = "ok" => result'[r] = "ok")
  <1> USE DEF Go, hostVars, deletion
  <1>1. ContainerTypeOK /\ ResultOf(r)
    BY DEF Sound, ResultInv
  <1>2. ASSUME ContainerStart(r) PROVE ResultInv' /\ (result[r] = "ok" => result'[r] = "ok")
    <2>1. \A q \in Runs \ {r} :
             at'[q] = at[q] /\ child'[q] = child[q] /\ result'[q] = result[q]
      BY <1>1, <1>2 DEF ContainerStart, ContainerTypeOK
    <2>2. ResultOf(r)' /\ (result[r] = "ok" => result'[r] = "ok")
      BY <1>1, <1>2 DEF ContainerStart, ContainerTypeOK, ResultOf, ParentCalls
    <2> QED BY <1>1, <2>1, <2>2, OneResult
  <1>3. ASSUME Pull(r) PROVE ResultInv' /\ (result[r] = "ok" => result'[r] = "ok")
    <2>1. \A q \in Runs \ {r} :
             at'[q] = at[q] /\ child'[q] = child[q] /\ result'[q] = result[q]
      BY <1>1, <1>3 DEF Pull, Succeeds, Fails, GiveUp, ContainerTypeOK
    <2>2. ResultOf(r)' /\ (result[r] = "ok" => result'[r] = "ok")
      BY <1>1, <1>3 DEF Pull, Succeeds, Fails, GiveUp, ContainerTypeOK, ResultOf, ParentCalls
    <2> QED BY <1>1, <2>1, <2>2, OneResult
  <1>4. ASSUME MakeDirs(r) PROVE ResultInv' /\ (result[r] = "ok" => result'[r] = "ok")
    <2>1. \A q \in Runs \ {r} :
             at'[q] = at[q] /\ child'[q] = child[q] /\ result'[q] = result[q]
      BY <1>1, <1>4 DEF MakeDirs, Succeeds, Fails, GiveUp, ContainerTypeOK
    <2>2. ResultOf(r)' /\ (result[r] = "ok" => result'[r] = "ok")
      BY <1>1, <1>4 DEF MakeDirs, Succeeds, Fails, GiveUp, ContainerTypeOK, ResultOf, ParentCalls
    <2> QED BY <1>1, <2>1, <2>2, OneResult
  <1>5. ASSUME MountOverlay(r) PROVE ResultInv' /\ (result[r] = "ok" => result'[r] = "ok")
    <2>1. \A q \in Runs \ {r} :
             at'[q] = at[q] /\ child'[q] = child[q] /\ result'[q] = result[q]
      BY <1>1, <1>5 DEF MountOverlay, Succeeds, Fails, GiveUp, ContainerTypeOK
    <2>2. ResultOf(r)' /\ (result[r] = "ok" => result'[r] = "ok")
      BY <1>1, <1>5 DEF MountOverlay, Succeeds, Fails, GiveUp, ContainerTypeOK, ResultOf, ParentCalls
    <2> QED BY <1>1, <2>1, <2>2, OneResult
  <1>6. ASSUME BindWorkspace(r) PROVE ResultInv' /\ (result[r] = "ok" => result'[r] = "ok")
    <2>1. \A q \in Runs \ {r} :
             at'[q] = at[q] /\ child'[q] = child[q] /\ result'[q] = result[q]
      BY <1>1, <1>6 DEF BindWorkspace, Succeeds, GiveUp, ContainerTypeOK
    <2>2. ResultOf(r)' /\ (result[r] = "ok" => result'[r] = "ok")
      BY <1>1, <1>6 DEF BindWorkspace, Succeeds, GiveUp, ContainerTypeOK, ResultOf, ParentCalls
    <2> QED BY <1>1, <2>1, <2>2, OneResult
  <1>7. ASSUME MakeStaging(r) PROVE ResultInv' /\ (result[r] = "ok" => result'[r] = "ok")
    <2>1. \A q \in Runs \ {r} :
             at'[q] = at[q] /\ child'[q] = child[q] /\ result'[q] = result[q]
      BY <1>1, <1>7 DEF MakeStaging, Succeeds, Fails, GiveUp, ContainerTypeOK
    <2>2. ResultOf(r)' /\ (result[r] = "ok" => result'[r] = "ok")
      BY <1>1, <1>7 DEF MakeStaging, Succeeds, Fails, GiveUp, ContainerTypeOK, ResultOf, ParentCalls
    <2> QED BY <1>1, <2>1, <2>2, OneResult
  <1>8. ASSUME SpawnChild(r) PROVE ResultInv' /\ (result[r] = "ok" => result'[r] = "ok")
    <2>1. \A q \in Runs \ {r} :
             at'[q] = at[q] /\ child'[q] = child[q] /\ result'[q] = result[q]
      BY <1>1, <1>8 DEF SpawnChild, AfterRun, ContainerTypeOK
    <2>2. ResultOf(r)' /\ (result[r] = "ok" => result'[r] = "ok")
      BY <1>1, <1>8 DEF SpawnChild, AfterRun, ContainerTypeOK, ResultOf, ParentCalls
    <2> QED BY <1>1, <2>1, <2>2, OneResult
  <1>9. ASSUME Collect(r) PROVE ResultInv' /\ (result[r] = "ok" => result'[r] = "ok")
    <2>1. \A q \in Runs \ {r} :
             at'[q] = at[q] /\ child'[q] = child[q] /\ result'[q] = result[q]
      BY <1>1, <1>9 DEF Collect, AfterRun, ContainerTypeOK
    <2>2. ResultOf(r)' /\ (result[r] = "ok" => result'[r] = "ok")
      BY <1>1, <1>9 DEF Collect, AfterRun, ContainerTypeOK, ResultOf, ParentCalls
    <2> QED BY <1>1, <2>1, <2>2, OneResult
  <1>10. ASSUME UnmountWorkspace(r) PROVE ResultInv' /\ (result[r] = "ok" => result'[r] = "ok")
    <2>1. \A q \in Runs \ {r} :
             at'[q] = at[q] /\ child'[q] = child[q] /\ result'[q] = result[q]
      BY <1>1, <1>10 DEF UnmountWorkspace, ContainerTypeOK
    <2>2. ResultOf(r)' /\ (result[r] = "ok" => result'[r] = "ok")
      BY <1>1, <1>10 DEF UnmountWorkspace, ContainerTypeOK, ResultOf, ParentCalls
    <2> QED BY <1>1, <2>1, <2>2, OneResult
  <1>11. ASSUME UnmountRoot(r) PROVE ResultInv' /\ (result[r] = "ok" => result'[r] = "ok")
    <2>1. \A q \in Runs \ {r} :
             at'[q] = at[q] /\ child'[q] = child[q] /\ result'[q] = result[q]
      BY <1>1, <1>11 DEF UnmountRoot, ContainerTypeOK
    <2>2. ResultOf(r)' /\ (result[r] = "ok" => result'[r] = "ok")
      BY <1>1, <1>11 DEF UnmountRoot, ContainerTypeOK, ResultOf, ParentCalls
    <2> QED BY <1>1, <2>1, <2>2, OneResult
  <1>12. ASSUME RemoveSession(r) PROVE ResultInv' /\ (result[r] = "ok" => result'[r] = "ok")
    <2>1. \A q \in Runs \ {r} :
             at'[q] = at[q] /\ child'[q] = child[q] /\ result'[q] = result[q]
      BY <1>1, <1>12 DEF RemoveSession, ContainerTypeOK
    <2>2. ResultOf(r)' /\ (result[r] = "ok" => result'[r] = "ok")
      BY <1>1, <1>12 DEF RemoveSession, ContainerTypeOK, ResultOf, ParentCalls
    <2> QED BY <1>1, <2>1, <2>2, OneResult
  <1>13. ASSUME KillParent(r) PROVE ResultInv' /\ (result[r] = "ok" => result'[r] = "ok")
    <2>1. \A q \in Runs \ {r} :
             at'[q] = at[q] /\ child'[q] = child[q] /\ result'[q] = result[q]
      BY <1>1, <1>13 DEF KillParent, ContainerTypeOK
    <2>2. ResultOf(r)' /\ (result[r] = "ok" => result'[r] = "ok")
      BY <1>1, <1>13 DEF KillParent, ContainerTypeOK, ResultOf, ParentCalls
    <2> QED BY <1>1, <2>1, <2>2, OneResult
  <1> QED
    BY <1>2, <1>3, <1>4, <1>5, <1>6, <1>7, <1>8, <1>9, <1>10, <1>11, <1>12, <1>13
       DEF ParentStep

(* ... and the child only moves while there is none.                       *)
LEMMA ChildResult ==
    ASSUME Sound, ResultInv, NEW r \in Runs, ChildStep(r)
    PROVE  ResultInv' /\ UNCHANGED result
  <1>1. /\ \E c : child' = [child EXCEPT ![r] = c]
        /\ child[r].at /= "over" /\ UNCHANGED <<at, result>>
    BY DEF ChildStep, SetLimits, Unshare, MakePrivate, EnterRoot, Rebind, Pivot, ChdirSlash,
           DetachHost, LoadFilter, CommandEnds, ChildMoves, ChildFails, OnlyChild
  <1>2. ContainerTypeOK /\ ResultOf(r)
    BY DEF Sound, ResultInv
  <1>3. ResultOf(r)'
    BY <1>1, <1>2 DEF ResultOf
  <1>4. \A q \in Runs \ {r} : at'[q] = at[q] /\ child'[q] = child[q] /\ result'[q] = result[q]
    BY <1>1, <1>2 DEF ContainerTypeOK
  <1> QED BY <1>1, <1>2, <1>3, <1>4, OneResult

(* A step of any run keeps every result true, and no result of Ok is ever  *)
(* taken back.                                                             *)
LEMMA ResultStep ==
    ASSUME Sound, ResultInv, [ContainerNext]_containerVars
    PROVE  ResultInv' /\ \A q \in Runs : result[q] = "ok" => result'[q] = "ok"
  <1>1. ASSUME NEW r \in Runs, ContainerStart(r) \/ ParentStep(r) \/ KillParent(r)
        PROVE  ResultInv' /\ \A q \in Runs : result[q] = "ok" => result'[q] = "ok"
    <2>1. ResultInv' /\ (result[r] = "ok" => result'[r] = "ok")
      BY <1>1, ParentResult
    <2>2. \A q \in Runs \ {r} : result'[q] = result[q]
      BY <1>1 DEF Sound, ContainerTypeOK, ContainerStart, ParentStep, KillParent, Pull, MakeDirs,
         MountOverlay, BindWorkspace, MakeStaging, SpawnChild, Collect, UnmountWorkspace, UnmountRoot,
         RemoveSession, Succeeds, Fails, GiveUp, AfterRun
    <2> QED BY <2>1, <2>2
  <1>2. ASSUME NEW r \in Runs, ChildStep(r)
        PROVE  ResultInv' /\ \A q \in Runs : result[q] = "ok" => result'[q] = "ok"
    BY <1>2, ChildResult
  <1>3. ASSUME UNCHANGED <<at, child, result>>
        PROVE  ResultInv' /\ \A q \in Runs : result[q] = "ok" => result'[q] = "ok"
    BY <1>3 DEF ResultInv, ResultOf
  <1> QED BY <1>1, <1>2, <1>3 DEF ContainerNext, containerVars, Visit

(* execute_container says Ok only of a command that came to its end.       *)
THEOREM ResultsTrue == ContainerSpec => []ResultInv
<1>1. ContainerInit => ResultInv
  BY DEF ContainerInit, ResultInv, ResultOf, ParentCalls
<1>2. Sound /\ ResultInv /\ [ContainerNext]_containerVars => ResultInv'
  BY ResultStep
<1> QED
  BY <1>1, <1>2, AlwaysSound, PTL DEF ContainerSpec
=============================================================================
