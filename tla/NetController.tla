--------------------------- MODULE NetController ---------------------------
(***************************************************************************)
(* The network controller of net/controller.rs: one task per connection,   *)
(* two RwLocks.  Every task takes the lock of the profile before the lock  *)
(* of the partition flag, and only Reset and GetStatus hold the first      *)
(* while they wait for the second; the flag's lock is never held over an   *)
(* await.  tokio's RwLock is fair: it serves its waiters in order, and a   *)
(* reader queues behind a waiting writer.                                  *)
(***************************************************************************)
EXTENDS NetCommands, Sequences

CONSTANT NoConn

ASSUME NoConnAssumption == NoConn \notin Conns

VARIABLES
    profile,   \* *current_chaos
    cut,       \* *partition_active
    queue,     \* tasks waiting for the profile's lock
    writer,    \* the task that holds it for writing
    readers,   \* the tasks that hold it for reading
    at,        \* where each task is
    call,      \* the command it is executing
    reply,     \* the answer it is about to write
    saved      \* history: the profile before the Reset under way

vars == <<profile, cut, queue, writer, readers, at, call, reply, saved>>

TypeOK ==
    /\ profile \in Profiles
    /\ cut \in BOOLEAN
    /\ queue \in Seq(Conns)
    /\ writer \in Conns \cup {NoConn}
    /\ readers \subseteq Conns
    /\ at \in [Conns -> {"idle", "profile", "flag", "reply"}]
    /\ call \in [Conns -> Commands \cup {NoCommand}]
    /\ reply \in [Conns -> Replies]
    /\ saved \in Profiles

Init ==
    /\ profile = DefaultProfile
    /\ cut = FALSE
    /\ queue = <<>>
    /\ writer = NoConn
    /\ readers = {}
    /\ at = [c \in Conns |-> "idle"]
    /\ call = [c \in Conns |-> NoCommand]
    /\ reply = [c \in Conns |-> NoReply]
    /\ saved = DefaultProfile

(* read_line delivers a line: the task asks for the lock it needs first.   *)
Receive(c, cmd) ==
    /\ at[c] = "idle"
    /\ call' = [call EXCEPT ![c] = cmd]
    /\ at' = [at EXCEPT ![c] = IF UsesProfile(cmd) THEN "profile" ELSE "flag"]
    /\ queue' = IF UsesProfile(cmd) THEN Append(queue, c) ELSE queue
    /\ UNCHANGED <<profile, cut, writer, readers, reply, saved>>

Answer(c, r) ==
    /\ at' = [at EXCEPT ![c] = "reply"]
    /\ reply' = [reply EXCEPT ![c] = r]

(* c is next in line for the profile's lock and its holders let it in.     *)
MayRead(c) ==
    /\ at[c] = "profile"
    /\ queue /= <<>> /\ Head(queue) = c
    /\ writer = NoConn

MayWrite(c) == MayRead(c) /\ readers = {}

(* A line that is not a command: an error reply, no lock.                  *)
Invalid(c) ==
    /\ at[c] = "flag" /\ call[c].op = "invalid"
    /\ Answer(c, Refused)
    /\ UNCHANGED <<profile, cut, queue, writer, readers, call, saved>>

(* SetChaos, SetBandwidth: no await between acquiring and releasing.       *)
Change(c) ==
    /\ MayWrite(c) /\ call[c].op \in {"set_chaos", "set_bandwidth"}
    /\ profile' = Changed(profile, call[c])
    /\ queue' = Tail(queue)
    /\ Answer(c, Applied)
    /\ UNCHANGED <<cut, writer, readers, call, saved>>

SetPartition(c) ==
    /\ at[c] = "flag" /\ call[c].op = "set_partition"
    /\ cut' = call[c].blocked
    /\ Answer(c, Applied)
    /\ UNCHANGED <<profile, queue, writer, readers, call, saved>>

(* Mutant: Reset takes the two locks one after the other, not together.    *)
ResetProfileAlone(c) ==
    /\ MayWrite(c) /\ call[c].op = "reset"
    /\ profile' = DefaultProfile
    /\ queue' = Tail(queue)
    /\ at' = [at EXCEPT ![c] = "flag"]
    /\ UNCHANGED <<cut, writer, readers, call, reply, saved>>

(* Reset, up to its second await: the profile is already the default, its  *)
(* lock still held.                                                        *)
ResetProfile(c) ==
    /\ MayWrite(c) /\ call[c].op = "reset"
    /\ saved' = profile
    /\ profile' = DefaultProfile
    /\ writer' = c
    /\ queue' = Tail(queue)
    /\ at' = [at EXCEPT ![c] = "flag"]
    /\ UNCHANGED <<cut, readers, call, reply>>

ResetFlag(c) ==
    /\ at[c] = "flag" /\ call[c].op = "reset"
    /\ cut' = FALSE
    /\ writer' = NoConn
    /\ Answer(c, Applied)
    /\ UNCHANGED <<profile, queue, readers, call, saved>>

(* GetStatus, up to its second await.                                      *)
StatusProfile(c) ==
    /\ MayRead(c) /\ call[c].op = "get_status"
    /\ readers' = readers \cup {c}
    /\ queue' = Tail(queue)
    /\ at' = [at EXCEPT ![c] = "flag"]
    /\ UNCHANGED <<profile, cut, writer, call, reply, saved>>

(* Mutant: the read guard of the profile outlives the command.             *)
StatusFlagLeaks(c) ==
    /\ at[c] = "flag" /\ call[c].op = "get_status"
    /\ Answer(c, Status(profile, cut))
    /\ UNCHANGED <<profile, cut, queue, writer, readers, call, saved>>

StatusFlag(c) ==
    /\ at[c] = "flag" /\ call[c].op = "get_status"
    /\ readers' = readers \ {c}
    /\ Answer(c, Status(profile, cut))
    /\ UNCHANGED <<profile, cut, queue, writer, call, saved>>

(* write_all of the reply; its error is ignored.                           *)
WriteReply(c) ==
    /\ at[c] = "reply"
    /\ at' = [at EXCEPT ![c] = "idle"]
    /\ call' = [call EXCEPT ![c] = NoCommand]
    /\ reply' = [reply EXCEPT ![c] = NoReply]
    /\ UNCHANGED <<profile, cut, queue, writer, readers, saved>>

Handle(c) ==
    \/ Invalid(c) \/ Change(c) \/ SetPartition(c)
    \/ ResetProfile(c) \/ ResetFlag(c)
    \/ StatusProfile(c) \/ StatusFlag(c)
    \/ WriteReply(c)

Next == \E c \in Conns : Handle(c) \/ \E cmd \in Commands : Receive(c, cmd)

Spec == Init /\ [][Next]_vars

(* tokio polls every task that was woken; clients need not send anything.  *)
FairSpec == Spec /\ \A c \in Conns : WF_vars(Handle(c))

-----------------------------------------------------------------------------
(* While a Reset is between its two locks, clients still see the register  *)
(* as it was: nobody can read the half that has been reset.                *)
Register == INSTANCE NetControl
                WITH profile <- IF writer = NoConn THEN profile ELSE saved

(* A task holds the profile's lock exactly while it waits for the other    *)
(* one, a Reset for writing and a GetStatus for reading; a writer is alone and  *)
(* has reset the profile.  A command is answered before its task is idle.  *)
LockInv ==
    /\ \A c \in Conns :
          /\ writer = c <=> at[c] = "flag" /\ call[c].op = "reset"
          /\ c \in readers <=> at[c] = "flag" /\ call[c].op = "get_status"
          /\ at[c] = "idle" <=> call[c] = NoCommand
          /\ at[c] = "reply" <=> reply[c] /= NoReply
    /\ writer /= NoConn => readers = {} /\ profile = DefaultProfile

(* handle_network_command is atomic: the two locks make every interleaving *)
(* of commands look like one after the other, Reset and GetStatus included.*)
Atomic == Register!Spec

(* Every line that was read is answered: no two tasks wait for each other, *)
(* and no stream of readers keeps a writer out.                            *)
Answered == \A c \in Conns : at[c] /= "idle" ~> at[c] = "idle"
=============================================================================
