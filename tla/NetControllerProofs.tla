------------------------ MODULE NetControllerProofs ------------------------
(* The controller is atomic for any number of connections and any values.  *)
EXTENDS NetController, TLAPS

(* Every command names itself in its op, and has the fields of that op.    *)
LEMMA CommandShape ==
    ASSUME NEW cmd \in Commands
    PROVE  /\ cmd /= NoCommand
           /\ cmd.op \in {"set_chaos", "set_partition", "set_bandwidth", "reset", "get_status", "invalid"}
           /\ cmd.op = "set_chaos" =>
                 cmd.latency \in Latencies /\ cmd.jitter \in Jitters \cup {Unset} /\ cmd.loss \in Losses
           /\ cmd.op = "set_bandwidth" => cmd.kbps \in Rates
           /\ cmd.op = "set_partition" => cmd.blocked \in BOOLEAN
  BY DEF Commands, NoCommand

(* A command leaves a profile that the controller could report.            *)
LEMMA ChangedType ==
    ASSUME NEW f \in Profiles, NEW cmd \in Commands, cmd.op \in {"set_chaos", "set_bandwidth"}
    PROVE  Changed(f, cmd) \in Profiles
  BY CommandShape, NetAssumption DEF Changed, Profiles

(* The answers are answers, and none of them is the absence of one.        *)
LEMMA ReplyShape ==
    /\ Applied \in Replies /\ Refused \in Replies /\ NoReply \in Replies
    /\ Applied /= NoReply /\ Refused /= NoReply
    /\ \A f \in Profiles, b \in BOOLEAN : Status(f, b) \in Replies /\ Status(f, b) /= NoReply
  BY DEF Applied, Refused, NoReply, Status, Replies, Profiles

(* The default profile is a profile.                                       *)
LEMMA DefaultType == DefaultProfile \in Profiles
  BY NetAssumption DEF DefaultProfile, Profiles

(* Every variable keeps its type.                                          *)
THEOREM TypeCorrect == Spec => []TypeOK
<1>1. Init => TypeOK
  <2> SUFFICES ASSUME Init PROVE TypeOK
    OBVIOUS
  <2>1. queue \in Seq(Conns)
    BY DEF Init
  <2>2. call \in [Conns -> Commands \cup {NoCommand}] /\ reply \in [Conns -> Replies]
    BY ReplyShape DEF Init
  <2> QED BY <2>1, <2>2, DefaultType DEF Init, TypeOK
<1>2. TypeOK /\ [Next]_vars => TypeOK'
  <2> SUFFICES ASSUME TypeOK, [Next]_vars PROVE TypeOK'
    OBVIOUS
  <2>1. ASSUME NEW c \in Conns, NEW cmd \in Commands, Receive(c, cmd) PROVE TypeOK'
    <3>1. queue' \in Seq(Conns)
      BY <2>1 DEF Receive, TypeOK
    <3> QED BY <2>1, <3>1 DEF Receive, TypeOK
  <2>2. ASSUME NEW c \in Conns, Invalid(c) PROVE TypeOK'
    BY <2>2, ReplyShape DEF Invalid, Answer, TypeOK
  <2>3. ASSUME NEW c \in Conns, Change(c) PROVE TypeOK'
    <3>1. call[c] \in Commands
      BY <2>3 DEF Change, TypeOK, NoCommand
    <3>2. profile' \in Profiles
      BY <2>3, <3>1, ChangedType DEF Change, TypeOK
    <3>3. queue' \in Seq(Conns)
      BY <2>3 DEF Change, MayWrite, MayRead, TypeOK
    <3> QED BY <2>3, <3>2, <3>3, ReplyShape DEF Change, Answer, TypeOK
  <2>4. ASSUME NEW c \in Conns, SetPartition(c) PROVE TypeOK'
    <3>1. call[c].blocked \in BOOLEAN
      BY <2>4, CommandShape DEF SetPartition, TypeOK, NoCommand
    <3> QED BY <2>4, <3>1, ReplyShape DEF SetPartition, Answer, TypeOK
  <2>5. ASSUME NEW c \in Conns, ResetProfile(c) PROVE TypeOK'
    BY <2>5, DefaultType DEF ResetProfile, MayWrite, MayRead, TypeOK
  <2>6. ASSUME NEW c \in Conns, ResetFlag(c) PROVE TypeOK'
    BY <2>6, ReplyShape DEF ResetFlag, Answer, TypeOK
  <2>7. ASSUME NEW c \in Conns, StatusProfile(c) PROVE TypeOK'
    BY <2>7 DEF StatusProfile, MayRead, TypeOK
  <2>8. ASSUME NEW c \in Conns, StatusFlag(c) PROVE TypeOK'
    BY <2>8, ReplyShape DEF StatusFlag, Answer, TypeOK
  <2>9. ASSUME NEW c \in Conns, WriteReply(c) PROVE TypeOK'
    BY <2>9, ReplyShape DEF WriteReply, TypeOK
  <2>10. CASE UNCHANGED vars
    BY <2>10 DEF vars, TypeOK
  <2> QED
    BY <2>1, <2>2, <2>3, <2>4, <2>5, <2>6, <2>7, <2>8, <2>9, <2>10 DEF Next, Handle
<1> QED
  BY <1>1, <1>2, PTL DEF Spec

(* The profile's lock is held as LockInv says in every reachable state.    *)
THEOREM LocksCorrect == Spec => []LockInv
<1>1. Init => LockInv
  BY NoConnAssumption DEF Init, LockInv, NoCommand, NoReply
<1>2. TypeOK /\ LockInv /\ [Next]_vars => LockInv'
  <2> SUFFICES ASSUME TypeOK, LockInv, [Next]_vars PROVE LockInv'
    OBVIOUS
  <2> USE NoConnAssumption DEF TypeOK, LockInv
  <2>1. ASSUME NEW c \in Conns, NEW cmd \in Commands, Receive(c, cmd) PROVE LockInv'
    BY <2>1, CommandShape DEF Receive, UsesProfile
  <2>2. ASSUME NEW c \in Conns, Invalid(c) PROVE LockInv'
    BY <2>2, ReplyShape DEF Invalid, Answer
  <2>3. ASSUME NEW c \in Conns, Change(c) PROVE LockInv'
    BY <2>3, ReplyShape DEF Change, MayWrite, MayRead, Answer
  <2>4. ASSUME NEW c \in Conns, SetPartition(c) PROVE LockInv'
    BY <2>4, ReplyShape DEF SetPartition, Answer
  <2>5. ASSUME NEW c \in Conns, ResetProfile(c) PROVE LockInv'
    BY <2>5 DEF ResetProfile, MayWrite, MayRead
  <2>6. ASSUME NEW c \in Conns, ResetFlag(c) PROVE LockInv'
    BY <2>6, ReplyShape DEF ResetFlag, Answer
  <2>7. ASSUME NEW c \in Conns, StatusProfile(c) PROVE LockInv'
    BY <2>7 DEF StatusProfile, MayRead
  <2>8. ASSUME NEW c \in Conns, StatusFlag(c) PROVE LockInv'
    BY <2>8, ReplyShape DEF StatusFlag, Answer
  <2>9. ASSUME NEW c \in Conns, WriteReply(c) PROVE LockInv'
    BY <2>9 DEF WriteReply
  <2>10. CASE UNCHANGED vars
    BY <2>10 DEF vars
  <2> QED
    BY <2>1, <2>2, <2>3, <2>4, <2>5, <2>6, <2>7, <2>8, <2>9, <2>10 DEF Next, Handle
<1> QED
  BY <1>1, <1>2, TypeCorrect, PTL DEF Spec

(* The profile the clients can see: see Register.                          *)
Seen == IF writer = NoConn THEN profile ELSE saved

(* The register and the controller mean the same by their common words.    *)
LEMMA SameWords ==
    /\ Register!Commands = Commands
    /\ Register!NoCommand = NoCommand
    /\ Register!DefaultProfile = DefaultProfile
    /\ Register!Replies = Replies
    /\ Register!NoReply = NoReply /\ Register!Applied = Applied /\ Register!Refused = Refused
    /\ \A f, cmd : Register!Changed(f, cmd) = Changed(f, cmd)
    /\ \A f, b : Register!Status(f, b) = Status(f, b)
<1>1. Register!NoReply = NoReply /\ Register!Applied = Applied /\ Register!Refused = Refused
  BY DEF Register!NoReply, NoReply, Register!Applied, Applied, Register!Refused, Refused
<1>2. Register!Replies = Replies
  BY <1>1 DEF Register!Replies, Replies
<1>3. Register!Commands = Commands /\ Register!NoCommand = NoCommand
  BY DEF Register!Commands, Commands, Register!NoCommand, NoCommand
<1>4. Register!DefaultProfile = DefaultProfile
  BY DEF Register!DefaultProfile, DefaultProfile
<1>5. /\ \A f, cmd : Register!Changed(f, cmd) = Changed(f, cmd)
      /\ \A f, b : Register!Status(f, b) = Status(f, b)
  BY DEF Register!Changed, Changed, Register!Status, Status
<1> QED BY <1>1, <1>2, <1>3, <1>4, <1>5

(* Every behaviour of the controller is one of the atomic register: each   *)
(* command takes effect in one step, Reset when it clears the flag.        *)
THEOREM Refinement == Spec => Atomic
<1>1. Init => Register!Init
  BY SameWords DEF Init, Register!Init
<1>2. TypeOK /\ LockInv /\ [Next]_vars => [Register!Next]_(Register!vars)
  <2> SUFFICES ASSUME TypeOK, LockInv, [Next]_vars
               PROVE  Register!Next \/ UNCHANGED <<Seen, cut, call, reply>>
    BY DEF Register!vars, Seen
  <2> USE NoConnAssumption
  <2>1. ASSUME NEW c \in Conns, NEW cmd \in Commands, Receive(c, cmd) PROVE Register!Next
    <3>1. Register!Call(c, cmd)
      BY <2>1, SameWords DEF Receive, Register!Call, LockInv
    <3> QED BY <3>1, SameWords DEF Register!Next
  <2>2. ASSUME NEW c \in Conns, Invalid(c) PROVE Register!Next
    <3>1. Register!Do(c)
      BY <2>2, ReplyShape, SameWords DEF Invalid, Answer, Register!Do, Register!Effect, LockInv, TypeOK
    <3> QED BY <3>1 DEF Register!Next
  <2>3. ASSUME NEW c \in Conns, Change(c) PROVE Register!Next
    <3>1. Register!Do(c)
      BY <2>3, ReplyShape, SameWords DEF Change, MayWrite, MayRead, Answer, Register!Do, Register!Effect, LockInv, TypeOK
    <3> QED BY <3>1 DEF Register!Next
  <2>4. ASSUME NEW c \in Conns, SetPartition(c) PROVE Register!Next
    <3>1. Register!Do(c)
      BY <2>4, ReplyShape, SameWords DEF SetPartition, Answer, Register!Do, Register!Effect, LockInv, TypeOK
    <3> QED BY <3>1 DEF Register!Next
  <2>5. ASSUME NEW c \in Conns, ResetProfile(c) PROVE UNCHANGED <<Seen, cut, call, reply>>
    BY <2>5 DEF ResetProfile, MayWrite, MayRead, Seen
  <2>6. ASSUME NEW c \in Conns, ResetFlag(c) PROVE Register!Next
    <3>1. Register!Do(c)
      BY <2>6, ReplyShape, SameWords DEF ResetFlag, Answer, Register!Do, Register!Effect, LockInv, TypeOK
    <3> QED BY <3>1 DEF Register!Next
  <2>7. ASSUME NEW c \in Conns, StatusProfile(c) PROVE UNCHANGED <<Seen, cut, call, reply>>
    BY <2>7 DEF StatusProfile, MayRead, Seen
  <2>8. ASSUME NEW c \in Conns, StatusFlag(c) PROVE Register!Next
    <3>1. Register!Do(c)
      BY <2>8, ReplyShape, SameWords DEF StatusFlag, Answer, Register!Do, Register!Effect, LockInv, TypeOK
    <3> QED BY <3>1 DEF Register!Next
  <2>9. ASSUME NEW c \in Conns, WriteReply(c) PROVE Register!Next
    <3>1. Register!Return(c)
      BY <2>9, SameWords DEF WriteReply, Register!Return, LockInv
    <3> QED BY <3>1 DEF Register!Next
  <2>10. CASE UNCHANGED vars
    BY <2>10 DEF vars, Seen
  <2> QED
    BY <2>1, <2>2, <2>3, <2>4, <2>5, <2>6, <2>7, <2>8, <2>9, <2>10 DEF Next, Handle
<1> QED
  BY <1>1, <1>2, TypeCorrect, LocksCorrect, PTL DEF Spec, Atomic, Register!Spec
=============================================================================
