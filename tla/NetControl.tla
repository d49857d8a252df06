---------------------------- MODULE NetControl -----------------------------
(* What the network controller promises its clients: profile and partition *)
(* are one register, and every command takes effect on it at one instant   *)
(* between its line and its reply.                                         *)
EXTENDS NetCommands

VARIABLES
    profile,   \* the chaos profile in force
    cut,       \* the partition is active
    call,      \* the command each connection is executing
    reply      \* and its answer, once it has taken effect

vars == <<profile, cut, call, reply>>

Init ==
    /\ profile = DefaultProfile
    /\ cut = FALSE
    /\ call = [c \in Conns |-> NoCommand]
    /\ reply = [c \in Conns |-> NoReply]

Call(c, cmd) ==
    /\ call[c] = NoCommand
    /\ call' = [call EXCEPT ![c] = cmd]
    /\ UNCHANGED <<profile, cut, reply>>

(* The register before and after, and the answer that goes with it.        *)
Effect(cmd, new, newCut, answer) ==
    \/ /\ cmd.op \in {"set_chaos", "set_bandwidth"}
       /\ new = Changed(profile, cmd) /\ newCut = cut /\ answer = Applied
    \/ /\ cmd.op = "set_partition"
       /\ new = profile /\ newCut = cmd.blocked /\ answer = Applied
    \/ /\ cmd.op = "reset"
       /\ new = DefaultProfile /\ newCut = FALSE /\ answer = Applied
    \/ /\ cmd.op = "get_status"
       /\ new = profile /\ newCut = cut /\ answer = Status(profile, cut)
    \/ /\ cmd.op = "invalid"
       /\ new = profile /\ newCut = cut /\ answer = Refused

Do(c) ==
    /\ call[c] /= NoCommand
    /\ reply[c] = NoReply
    /\ \E r \in Replies :
          /\ Effect(call[c], profile', cut', r)
          /\ reply' = [reply EXCEPT ![c] = r]
    /\ UNCHANGED call

Return(c) ==
    /\ reply[c] /= NoReply
    /\ call' = [call EXCEPT ![c] = NoCommand]
    /\ reply' = [reply EXCEPT ![c] = NoReply]
    /\ UNCHANGED <<profile, cut>>

Next ==
    \E c \in Conns :
        \/ \E cmd \in Commands : Call(c, cmd)
        \/ Do(c)
        \/ Return(c)

Spec == Init /\ [][Next]_vars
=============================================================================
