------------------------- MODULE ExecContractProofs -------------------------
(***************************************************************************)
(* The execution implements ExecContract, for every set of descendants,    *)
(* every channel and pipe capacity and every combination of faults.        *)
(***************************************************************************)
EXTENDS ExecutorProofs

(* Every step keeps EndInv: after the final frame nothing is left to run,  *)
(* and a reader that never started has sent nothing.                       *)
LEMMA EndStep ==
    ASSUME TypeOK, ControlInv, PipeInv, EndInv, [Next]_vars
    PROVE  EndInv'
  <1> USE DEF TypeOK, ControlInv, PipeInv, EndInv, SettingUp, execVars, procVars, cgVars, pipeVars, netVars
  <1>1. CASE MakeCgroup
    BY <1>1 DEF MakeCgroup
  <1>2. CASE Spawn
    BY <1>2 DEF Spawn
  <1>3. CASE AssignPid
    BY <1>3 DEF AssignPid, StartReaders
  <1>4. CASE WaitChild
    BY <1>4 DEF WaitChild, AfterWait
  <1>5. CASE CgroupKill
    BY <1>5 DEF CgroupKill
  <1>6. CASE CgroupRemove
    BY <1>6 DEF CgroupRemove
  <1>7. CASE KillTree
    BY <1>7 DEF KillTree
  <1>8. CASE JoinReaders
    BY <1>8 DEF JoinReaders
  <1>9. CASE WaitError
    BY <1>9 DEF WaitError, AfterWait
  <1>10. CASE Timeout
    BY <1>10 DEF Timeout, AfterWait
  <1>11. ASSUME NEW s \in Streams, ReadPipe(s)
        PROVE  EndInv'
    BY <1>11 DEF ReadPipe
  <1>12. ASSUME NEW s \in Streams, SendChunk(s)
        PROVE  EndInv'
    BY <1>12 DEF SendChunk
  <1>13. ASSUME NEW s \in Streams, ReadEof(s)
        PROVE  EndInv'
    BY <1>13 DEF ReadEof
  <1>14. CASE Forward
    BY <1>14 DEF Forward
  <1>15. CASE ForwardFails
    BY <1>15 DEF ForwardFails
  <1>16. CASE ForwardEnds
    BY <1>16 DEF ForwardEnds
  <1>17. CASE SendFinal
    BY <1>17 DEF SendFinal
  <1>18. CASE Disconnect
    BY <1>18 DEF Disconnect
  <1>19. ASSUME NEW p \in Procs, NEW k \in Kids, Fork(p, k)
        PROVE  EndInv'
    BY <1>19 DEF Fork
  <1>20. ASSUME NEW k \in Kids, LeaveGroup(k)
        PROVE  EndInv'
    BY <1>20 DEF LeaveGroup
  <1>21. ASSUME NEW p \in Procs, NEW s \in Streams, ClosePipe(p, s)
        PROVE  EndInv'
    BY <1>21 DEF ClosePipe
  <1>22. ASSUME NEW p \in Procs, NEW s \in Streams, Write(p, s)
        PROVE  EndInv'
    BY <1>22 DEF Write
  <1>23. ASSUME NEW p \in Procs, Stop(p), proc[p] \in {"live", "dying"}
        PROVE  EndInv'
    BY <1>23 DEF Stop
  <1>24. CASE UNCHANGED vars
    BY <1>24 DEF vars
  <1>25. CASE Receive
    BY <1>25 DEF Receive
  <1> QED
    BY <1>1, <1>2, <1>3, <1>4, <1>5, <1>6, <1>7, <1>8, <1>9, <1>10, <1>11, <1>12, <1>13,
       <1>14, <1>15, <1>16, <1>17, <1>18, <1>19, <1>20, <1>21, <1>22, <1>23, <1>24, <1>25, NextCases

(* EndInv holds throughout.                                                *)
LEMMA EndSound == Spec => []EndInv
<1>1. Init => EndInv
  BY DEF Init, EndInv
<1>2. TypeOK /\ StreamInv /\ EndInv /\ [Next]_vars => EndInv'
  BY EndStep DEF StreamInv
<1> QED
  BY <1>1, <1>2, TypeCorrect, StreamSound, PTL DEF Spec

-----------------------------------------------------------------------------
(* Without a gap, what is delivered is what the frames carried.            *)
LEMMA DeliveredIsGot ==
    ASSUME TypeOK, OutputContiguous
    PROVE  Delivered = got
  BY DEF TypeOK, OutputContiguous, Delivered

(* A frame that is forwarded delivers the next units of its stream.        *)
LEMMA ForwardDelivers ==
    ASSUME TypeOK, StreamInv, EndInv, OutputContiguous, OutputContiguous', TypeOK', Forward
    PROVE  \E s \in Streams : Contract!Deliver(s)
  <1> DEFINE m == Head(chan)
  <1>1. chan /= <<>> /\ fwd = "send" /\ final = "none"
    BY DEF Forward, EndInv, TypeOK
  <1>2. /\ 1 \in 1 .. Len(chan) /\ m = chan[1]
    BY <1>1 DEF TypeOK
  <1>3. m.s \in Streams /\ m.lo \in Nat /\ m.hi \in Nat
    BY <1>2, ChannelShape DEF Chunks
  <1>4. m.lo = got[m.s]
    BY <1>1, HeadContinues DEF StreamInv
  <1>5. m.lo < m.hi /\ m.hi <= sent[m.s]
    BY <1>2 DEF StreamInv, ChunksOrdered
  <1>6. m.hi <= written[m.s]
    BY <1>3, <1>5 DEF StreamInv, PipeInv, TypeOK
  <1>7. m.hi \in got[m.s] + 1 .. written[m.s]
    BY <1>3, <1>4, <1>5, <1>6 DEF TypeOK
  <1>8. Delivered = got /\ Delivered' = got'
    BY DeliveredIsGot DEF TypeOK, OutputContiguous, Delivered
  <1>9. got' = [got EXCEPT ![m.s] = m.hi] /\ UNCHANGED <<written, final>>
    BY DEF Forward
  <1> QED
    BY <1>1, <1>3, <1>7, <1>8, <1>9 DEF Contract!Deliver

(* The final frame is one the contract allows.                             *)
LEMMA FinalAllowed ==
    ASSUME TypeOK, StreamInv, EndInv, OutputContiguous, OutputComplete', SendFinal
    PROVE  \E how \in {"exit", "error", "closed"} : Contract!Finish(how)
  <1>1. /\ final = "none" /\ final' \in {"exit", "error", "closed"}
        /\ final' = "exit" => outcome = "exit"
        /\ UNCHANGED <<written, got, gap, outcome>>
    BY DEF SendFinal, execVars
  <1>2. Delivered = got /\ Delivered' = Delivered
    BY <1>1, DeliveredIsGot DEF Delivered
  <1>3. final' \in {"exit", "error"} /\ outcome /= "setup" => got = written
    BY <1>1 DEF OutputComplete
  <1>4. outcome = "setup" => got = Contract!Nothing
    <2> SUFFICES ASSUME outcome = "setup" PROVE got = Contract!Nothing
      OBVIOUS
    <2>1. \A s \in Streams : got[s] = 0
      BY DEF EndInv, StreamInv, PipeInv, TypeOK
    <2> QED BY <2>1 DEF Contract!Nothing, TypeOK
  <1>5. Contract!Finish(final')
    BY <1>1, <1>2, <1>3, <1>4 DEF Contract!Finish
  <1> QED BY <1>1, <1>5

(* Readers, channel, forwarder and executor future implement the contract: *)
(* every step of an execution is a write, a delivery or the final frame of *)
(* it, or changes nothing that the client can see.                         *)
THEOREM Implements == Spec => KeepsContract
<1>1. Init => Contract!Init
  BY DEF Init, Contract!Init, Contract!Nothing, Delivered
<1>2. TypeOK /\ StreamInv /\ EndInv /\ OutputContiguous /\ TypeOK' /\ OutputContiguous'
        /\ OutputComplete' /\ [Next]_vars => [Contract!Next]_(Contract!vars)
  <2>0. UNCHANGED <<written, got, gap, final>> => UNCHANGED Contract!vars
    BY DEF Contract!vars, Delivered
  <2> SUFFICES ASSUME TypeOK, StreamInv, EndInv, OutputContiguous,
                      TypeOK', OutputContiguous', OutputComplete', [Next]_vars
               PROVE  Contract!Next \/ UNCHANGED <<written, got, gap, final>>
    BY <2>0
  <2>1. CASE Forward
    BY <2>1, ForwardDelivers DEF Contract!Next
  <2>2. CASE SendFinal
    BY <2>2, FinalAllowed DEF Contract!Next
  <2>3. ASSUME NEW p \in Procs, NEW s \in Streams, Write(p, s) PROVE Contract!Next
    <3>1. final = "none" /\ written' = [written EXCEPT ![s] = @ + 1]
      BY <2>3 DEF Write, EndInv
    <3>2. UNCHANGED <<Delivered, final>>
      BY <2>3 DEF Write, netVars, Delivered
    <3>3. Contract!Write(s)
      BY <3>1, <3>2 DEF Contract!Write
    <3> QED BY <3>3 DEF Contract!Next
  <2>4. ASSUME NEW s \in Streams, ReadPipe(s) \/ SendChunk(s) \/ ReadEof(s)
        PROVE  UNCHANGED <<written, got, gap, final>>
    BY <2>4 DEF ReadPipe, SendChunk, ReadEof, netVars
  <2>5. CASE MakeCgroup \/ Spawn \/ AssignPid \/ WaitChild \/ CgroupKill \/ CgroupRemove
             \/ KillTree \/ JoinReaders \/ WaitError \/ Timeout
    BY <2>5 DEF MakeCgroup, Spawn, AssignPid, WaitChild, CgroupKill, CgroupRemove, KillTree,
                JoinReaders, WaitError, Timeout, netVars
  <2>6. CASE Receive \/ ForwardFails \/ ForwardEnds \/ Disconnect
    BY <2>6 DEF Receive, ForwardFails, ForwardEnds, Disconnect
  <2>7. ASSUME NEW p \in Procs, NEW k \in Kids, Fork(p, k)
        PROVE  UNCHANGED <<written, got, gap, final>>
    BY <2>7 DEF Fork, netVars
  <2>8. ASSUME NEW k \in Kids, LeaveGroup(k) PROVE UNCHANGED <<written, got, gap, final>>
    BY <2>8 DEF LeaveGroup, netVars
  <2>9. ASSUME NEW p \in Procs, NEW s \in Streams, ClosePipe(p, s)
        PROVE  UNCHANGED <<written, got, gap, final>>
    BY <2>9 DEF ClosePipe, netVars
  <2>10. ASSUME NEW p \in Procs, Stop(p) PROVE UNCHANGED <<written, got, gap, final>>
    BY <2>10 DEF Stop, netVars
  <2>11. CASE UNCHANGED vars
    BY <2>11 DEF vars, netVars
  <2> QED
    BY <2>1, <2>2, <2>3, <2>4, <2>5, <2>6, <2>7, <2>8, <2>9, <2>10, <2>11, NextCases
<1> QED
  BY <1>1, <1>2, TypeCorrect, StreamSound, EndSound, Contiguous, Complete, PTL
     DEF Spec, KeepsContract, Contract!Spec
=============================================================================
