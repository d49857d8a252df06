--------------------------- MODULE ExecutorProofs ---------------------------
(***************************************************************************)
(* Proofs about one sandboxed execution, for every set of descendants,     *)
(* every channel and pipe capacity and every combination of faults.        *)
(***************************************************************************)
EXTENDS Executor, SequenceTheorems, TLAPS

(* What every proof about a step starts from: Next is one of these.        *)
LEMMA NextCases ==
    ASSUME Next
    PROVE  \/ MakeCgroup \/ Spawn \/ AssignPid \/ WaitChild \/ CgroupKill
           \/ CgroupRemove \/ KillTree \/ JoinReaders \/ WaitError \/ Timeout
           \/ \E s \in Streams : ReadPipe(s) \/ SendChunk(s) \/ ReadEof(s)
           \/ Receive \/ Forward \/ ForwardFails \/ ForwardEnds \/ SendFinal \/ Disconnect
           \/ \E p \in Procs, k \in Kids : Fork(p, k)
           \/ \E k \in Kids : LeaveGroup(k)
           \/ \E p \in Procs, s \in Streams : ClosePipe(p, s) \/ Write(p, s)
           \/ \E p \in Procs : Stop(p) /\ proc[p] \in {"live", "dying"}
           \/ UNCHANGED vars
  BY DEF Next, ExecStep, ReaderStep, ForwarderStep, ProcStep, Finished, Exit, Die

(* Every variable keeps its type: in particular the channel only ever      *)
(* holds chunks, and every process state is one the kernel has.            *)
THEOREM TypeCorrect == Spec => []TypeOK
<1>1. Init => TypeOK
  <2> SUFFICES ASSUME Init PROVE TypeOK
    OBVIOUS
  <2>1. chan \in Seq(Chunks)
    BY DEF Init
  <2>2. /\ written \in [Streams -> Nat] /\ taken \in [Streams -> Nat]
        /\ sent \in [Streams -> Nat] /\ got \in [Streams -> Nat]
        /\ gap \subseteq Streams
    BY DEF Init
  <2> QED
    BY <2>1, <2>2, ExecutorAssumption DEF Init, TypeOK, ExecPcs, Outcomes, Procs
<1>2. TypeOK /\ [Next]_vars => TypeOK'
  <2> SUFFICES ASSUME TypeOK, [Next]_vars PROVE TypeOK'
    OBVIOUS
  <2> USE ExecutorAssumption DEF TypeOK, ExecPcs, Outcomes, execVars, procVars, cgVars, pipeVars, netVars
  <2>1. CASE MakeCgroup
    <3>1. pc' \in ExecPcs /\ outcome' \in Outcomes /\ cgDir' \in BOOLEAN
      BY <2>1 DEF MakeCgroup
    <3>2. UNCHANGED <<peak, procVars, cgProcs, written, pipeVars, chan, netVars>>
      BY <2>1 DEF MakeCgroup
    <3> QED BY <3>1, <3>2
  <2>2. CASE Spawn
    BY <2>2 DEF Spawn, Procs
  <2>3. CASE AssignPid
    BY <2>3 DEF AssignPid, StartReaders, Killed, Procs
  <2>4. CASE WaitChild
    BY <2>4 DEF WaitChild, AfterWait
  <2>5. CASE CgroupKill
    BY <2>5 DEF CgroupKill, Killed
  <2>6. CASE CgroupRemove
    BY <2>6 DEF CgroupRemove
  <2>7. CASE KillTree
    BY <2>7 DEF KillTree, Killed
  <2>8. CASE JoinReaders
    BY <2>8 DEF JoinReaders, PeakSource, Killed
  <2>9. CASE WaitError
    BY <2>9 DEF WaitError, AfterWait
  <2>10. CASE Timeout
    BY <2>10 DEF Timeout, AfterWait
  <2>11. ASSUME NEW s \in Streams, ReadPipe(s) PROVE TypeOK'
    BY <2>11 DEF ReadPipe
  <2>12. ASSUME NEW s \in Streams, SendChunk(s) PROVE TypeOK'
    <3>1. [s |-> s, lo |-> sent[s], hi |-> taken[s]] \in Chunks
      BY <2>12 DEF Chunks
    <3>2. chan' \in Seq(Chunks) /\ chan' /= <<>>
      BY <2>12, <3>1 DEF SendChunk
    <3> QED BY <2>12, <3>2 DEF SendChunk
  <2>13. ASSUME NEW s \in Streams, ReadEof(s) PROVE TypeOK'
    BY <2>13 DEF ReadEof
  <2>14. CASE Forward
    <3>1. Head(chan) \in Chunks /\ chan' \in Seq(Chunks)
      BY <2>14 DEF Forward
    <3>2. Head(chan).s \in Streams /\ Head(chan).hi \in Nat
      BY <3>1 DEF Chunks
    <3>3. got' \in [Streams -> Nat] /\ gap' \subseteq Streams
      BY <2>14, <3>2 DEF Forward
    <3> QED BY <2>14, <3>1, <3>3 DEF Forward
  <2>15. CASE ForwardFails
    BY <2>15 DEF ForwardFails
  <2>16. CASE ForwardEnds
    BY <2>16 DEF ForwardEnds
  <2>17. CASE SendFinal
    BY <2>17 DEF SendFinal
  <2>18. CASE Disconnect
    BY <2>18 DEF Disconnect
  <2>19. ASSUME NEW p \in Procs, NEW k \in Kids, Fork(p, k) PROVE TypeOK'
    BY <2>19 DEF Fork, Procs
  <2>20. ASSUME NEW k \in Kids, LeaveGroup(k) PROVE TypeOK'
    BY <2>20 DEF LeaveGroup
  <2>21. ASSUME NEW p \in Procs, NEW s \in Streams, ClosePipe(p, s) PROVE TypeOK'
    BY <2>21 DEF ClosePipe
  <2>22. ASSUME NEW p \in Procs, NEW s \in Streams, Write(p, s) PROVE TypeOK'
    BY <2>22 DEF Write
  <2>23. ASSUME NEW p \in Procs, Stop(p) PROVE TypeOK'
    BY <2>23 DEF Stop
  <2>24. CASE UNCHANGED vars
    BY <2>24 DEF vars
  <2>25. CASE Receive
    BY <2>25 DEF Receive
  <2> QED
    BY <2>1, <2>2, <2>3, <2>4, <2>5, <2>6, <2>7, <2>8, <2>9, <2>10, <2>11, <2>12, <2>13,
       <2>14, <2>15, <2>16, <2>17, <2>18, <2>19, <2>20, <2>21, <2>22, <2>23, <2>24, <2>25, NextCases
<1> QED
  BY <1>1, <1>2, PTL DEF Spec

-----------------------------------------------------------------------------
(* A chunk is only ever in the hands of a reader that still runs.          *)
LEMMA SendingReaderRuns ==
    ASSUME TypeOK, PipeInv, NEW s \in Streams, taken[s] > sent[s]
    PROVE  reader[s] = "run"
  <1>1. sent[s] \in Nat /\ taken[s] \in Nat /\ written[s] \in Nat
    BY DEF TypeOK
  <1>2. reader[s] /= "off" /\ reader[s] /= "done"
    BY <1>1 DEF PipeInv
  <1> QED BY <1>2 DEF TypeOK

(* Every step keeps the control of an execution consistent.                *)
LEMMA ControlStep ==
    ASSUME TypeOK, PipeInv, ControlInv, [Next]_vars
    PROVE  ControlInv'
  <1> USE DEF TypeOK, ControlInv, SettingUp, SendersDropped, execVars, procVars, cgVars, pipeVars, netVars
  <1>1. CASE MakeCgroup
    BY <1>1 DEF MakeCgroup
  <1>2. CASE Spawn
    BY <1>2 DEF Spawn
  <1>3. CASE AssignPid
    BY <1>3 DEF AssignPid, StartReaders
  <1>4. CASE WaitChild
    BY <1>4 DEF WaitChild, AfterWait
  <1>5. CASE CgroupKill
    BY <1>5 DEF CgroupKill
  <1>6. CASE CgroupRemove
    BY <1>6 DEF CgroupRemove
  <1>7. CASE KillTree
    BY <1>7 DEF KillTree
  <1>8. CASE JoinReaders
    BY <1>8 DEF JoinReaders
  <1>9. CASE WaitError
    BY <1>9 DEF WaitError, AfterWait
  <1>10. CASE Timeout
    BY <1>10 DEF Timeout, AfterWait
  <1>11. ASSUME NEW s \in Streams, ReadPipe(s)
        PROVE  ControlInv'
    BY <1>11 DEF ReadPipe
  <1>12. ASSUME NEW s \in Streams, SendChunk(s)
        PROVE  ControlInv'
    <2>1. reader[s] = "run"
      BY <1>12, SendingReaderRuns DEF SendChunk
    <2>2. fwd /= "ok"
      BY <2>1
    <2> QED BY <1>12, <2>2 DEF SendChunk
  <1>13. ASSUME NEW s \in Streams, ReadEof(s)
        PROVE  ControlInv'
    BY <1>13 DEF ReadEof
  <1>14. CASE Forward
    <2>1. fwd = "send" /\ fwd' = "run" /\ UNCHANGED <<pc, outcome, reader, final>>
      BY <1>14 DEF Forward
    <2> QED BY <2>1
  <1>15. CASE ForwardFails
    <2>1. fwd = "send" /\ fwd' = "failed" /\ UNCHANGED <<pc, outcome, reader, final>>
      BY <1>15 DEF ForwardFails
    <2> QED BY <2>1
  <1>16. CASE ForwardEnds
    BY <1>16 DEF ForwardEnds
  <1>17. CASE SendFinal
    BY <1>17 DEF SendFinal
  <1>18. CASE Disconnect
    BY <1>18 DEF Disconnect
  <1>19. ASSUME NEW p \in Procs, NEW k \in Kids, Fork(p, k)
        PROVE  ControlInv'
    BY <1>19 DEF Fork
  <1>20. ASSUME NEW k \in Kids, LeaveGroup(k)
        PROVE  ControlInv'
    BY <1>20 DEF LeaveGroup
  <1>21. ASSUME NEW p \in Procs, NEW s \in Streams, ClosePipe(p, s)
        PROVE  ControlInv'
    BY <1>21 DEF ClosePipe
  <1>22. ASSUME NEW p \in Procs, NEW s \in Streams, Write(p, s)
        PROVE  ControlInv'
    BY <1>22 DEF Write
  <1>23. ASSUME NEW p \in Procs, Stop(p), proc[p] \in {"live", "dying"}
        PROVE  ControlInv'
    BY <1>23 DEF Stop
  <1>24. CASE UNCHANGED vars
    BY <1>24 DEF vars
  <1>25. CASE Receive
    BY <1>25 DEF Receive
  <1> QED
    BY <1>1, <1>2, <1>3, <1>4, <1>5, <1>6, <1>7, <1>8, <1>9, <1>10, <1>11, <1>12, <1>13,
       <1>14, <1>15, <1>16, <1>17, <1>18, <1>19, <1>20, <1>21, <1>22, <1>23, <1>24, <1>25, NextCases

(* Every step keeps the counters of each stream in order, and finds a      *)
(* finished reader with an empty pipe that nobody can write to.            *)
LEMMA PipeStep ==
    ASSUME TypeOK, ControlInv, ChunksOrdered, PipeInv, [Next]_vars
    PROVE  PipeInv'
  <1> USE DEF TypeOK, PipeInv, execVars, procVars, cgVars, pipeVars, netVars
  <1>1. CASE MakeCgroup
    BY <1>1 DEF MakeCgroup
  <1>2. CASE Spawn
    BY <1>2 DEF Spawn, ControlInv, SettingUp
  <1>3. CASE AssignPid
    BY <1>3 DEF AssignPid, StartReaders, ControlInv, SettingUp
  <1>4. CASE WaitChild
    BY <1>4 DEF WaitChild, AfterWait
  <1>5. CASE CgroupKill
    BY <1>5 DEF CgroupKill
  <1>6. CASE CgroupRemove
    BY <1>6 DEF CgroupRemove
  <1>7. CASE KillTree
    BY <1>7 DEF KillTree
  <1>8. CASE JoinReaders
    BY <1>8 DEF JoinReaders
  <1>9. CASE WaitError
    BY <1>9 DEF WaitError, AfterWait
  <1>10. CASE Timeout
    BY <1>10 DEF Timeout, AfterWait
  <1>11. ASSUME NEW s \in Streams, ReadPipe(s)
        PROVE  PipeInv'
    BY <1>11 DEF ReadPipe
  <1>12. ASSUME NEW s \in Streams, SendChunk(s)
        PROVE  PipeInv'
    BY <1>12 DEF SendChunk
  <1>13. ASSUME NEW s \in Streams, ReadEof(s)
        PROVE  PipeInv'
    BY <1>13 DEF ReadEof
  <1>14. CASE Forward
    <2>1. chan \in Seq(Chunks) /\ 1 \in 1 .. Len(chan) /\ Head(chan) = chan[1]
      BY <1>14 DEF Forward
    <2>2. chan[1] \in Chunks
      BY <2>1
    <2>3. chan[1].hi <= sent[chan[1].s]
      BY <2>1 DEF ChunksOrdered
    <2> QED BY <1>14, <2>1, <2>2, <2>3 DEF Forward, Chunks
  <1>15. CASE ForwardFails
    BY <1>15 DEF ForwardFails
  <1>16. CASE ForwardEnds
    BY <1>16 DEF ForwardEnds
  <1>17. CASE SendFinal
    BY <1>17 DEF SendFinal
  <1>18. CASE Disconnect
    BY <1>18 DEF Disconnect
  <1>19. ASSUME NEW p \in Procs, NEW k \in Kids, Fork(p, k)
        PROVE  PipeInv'
    BY <1>19 DEF Fork
  <1>20. ASSUME NEW k \in Kids, LeaveGroup(k)
        PROVE  PipeInv'
    BY <1>20 DEF LeaveGroup
  <1>21. ASSUME NEW p \in Procs, NEW s \in Streams, ClosePipe(p, s)
        PROVE  PipeInv'
    BY <1>21 DEF ClosePipe
  <1>22. ASSUME NEW p \in Procs, NEW s \in Streams, Write(p, s)
        PROVE  PipeInv'
    BY <1>22 DEF Write
  <1>23. ASSUME NEW p \in Procs, Stop(p), proc[p] \in {"live", "dying"}
        PROVE  PipeInv'
    BY <1>23 DEF Stop
  <1>24. CASE UNCHANGED vars
    BY <1>24 DEF vars
  <1>25. CASE Receive
    BY <1>25 DEF Receive
  <1> QED
    BY <1>1, <1>2, <1>3, <1>4, <1>5, <1>6, <1>7, <1>8, <1>9, <1>10, <1>11, <1>12, <1>13,
       <1>14, <1>15, <1>16, <1>17, <1>18, <1>19, <1>20, <1>21, <1>22, <1>23, <1>24, <1>25, NextCases

-----------------------------------------------------------------------------
(* Only three steps touch the channel and what surrounds it.               *)
LEMMA QueueCases ==
    ASSUME [Next]_vars
    PROVE  \/ \E s \in Streams : SendChunk(s)
           \/ Forward
           \/ ForwardFails
           \/ /\ UNCHANGED <<chan, sent, got, gap>>
              /\ fwd' = "failed" <=> fwd = "failed"
  BY NextCases DEF MakeCgroup, Spawn, AssignPid, WaitChild, CgroupKill, CgroupRemove, KillTree,
     JoinReaders, WaitError, Timeout, ReadPipe, ReadEof, Receive, ForwardEnds, SendFinal, Disconnect, Fork,
     LeaveGroup, ClosePipe, Write, Stop, execVars, procVars, cgVars, pipeVars, netVars, vars

(* The element behind each index after a chunk was appended or removed.    *)
LEMMA ChannelShape ==
    ASSUME TypeOK
    PROVE  /\ \A i \in 1 .. Len(chan) : chan[i] \in Chunks
           /\ \A s \in Streams : SendChunk(s) =>
                 /\ Len(chan') = Len(chan) + 1
                 /\ \A i \in 1 .. Len(chan) : chan'[i] = chan[i]
                 /\ chan'[Len(chan) + 1] = [s |-> s, lo |-> sent[s], hi |-> taken[s]]
           /\ Forward \/ ForwardFails =>
                 /\ Len(chan) \in Nat \ {0}
                 /\ Len(chan') = Len(chan) - 1
                 /\ \A i \in 1 .. Len(chan') : chan'[i] = chan[i + 1]
                 /\ Head(chan) = chan[1]
  <1>1. chan \in Seq(Chunks)
    BY DEF TypeOK
  <1>2. \A i \in 1 .. Len(chan) : chan[i] \in Chunks
    BY <1>1
  <1>3. ASSUME NEW s \in Streams, SendChunk(s)
        PROVE  /\ Len(chan') = Len(chan) + 1
               /\ \A i \in 1 .. Len(chan) : chan'[i] = chan[i]
               /\ chan'[Len(chan) + 1] = [s |-> s, lo |-> sent[s], hi |-> taken[s]]
    <2>1. [s |-> s, lo |-> sent[s], hi |-> taken[s]] \in Chunks
      BY DEF TypeOK, Chunks
    <2> QED BY <1>1, <1>3, <2>1, AppendProperties DEF SendChunk
  <1>4. ASSUME Forward \/ ForwardFails
        PROVE  /\ Len(chan) \in Nat \ {0}
               /\ Len(chan') = Len(chan) - 1
               /\ \A i \in 1 .. Len(chan') : chan'[i] = chan[i + 1]
               /\ Head(chan) = chan[1]
    <2>1. chan /= <<>> /\ chan' = Tail(chan)
      BY <1>4 DEF Forward, ForwardFails, TypeOK
    <2> QED BY <1>1, <2>1
  <1> QED BY <1>2, <1>3, <1>4

(* A chunk leaves the reader with exactly the units that follow the ones   *)
(* it sent before, and leaves the channel from its head: the channel stays *)
(* ordered.                                                                *)
LEMMA OrderStep ==
    ASSUME TypeOK, PipeInv, ChunksOrdered, [Next]_vars
    PROVE  ChunksOrdered'
  <1>0. \A i \in 1 .. Len(chan) : chan[i] \in Chunks
    BY ChannelShape
  <1>1. ASSUME NEW s \in Streams, SendChunk(s) PROVE ChunksOrdered'
    <2>1. /\ Len(chan') = Len(chan) + 1 /\ Len(chan) \in Nat
          /\ \A i \in 1 .. Len(chan) : chan'[i] = chan[i]
          /\ chan'[Len(chan) + 1] = [s |-> s, lo |-> sent[s], hi |-> taken[s]]
      BY <1>1, ChannelShape DEF TypeOK
    <2>2. /\ got' = got /\ sent' = [sent EXCEPT ![s] = taken[s]] /\ sent[s] < taken[s]
          /\ sent \in [Streams -> Nat] /\ taken \in [Streams -> Nat] /\ got \in [Streams -> Nat]
          /\ got[s] <= sent[s]
      BY <1>1 DEF SendChunk, netVars, TypeOK, PipeInv
    <2>3. \A i \in 1 .. Len(chan) :
             /\ chan[i].s \in Streams /\ chan[i].lo \in Nat /\ chan[i].hi \in Nat
             /\ got[chan[i].s] <= chan[i].lo /\ chan[i].lo < chan[i].hi
             /\ chan[i].hi <= sent[chan[i].s]
      BY <1>0 DEF ChunksOrdered, Chunks
    <2>4. \A i \in 1 .. Len(chan') :
             /\ got'[chan'[i].s] <= chan'[i].lo
             /\ chan'[i].lo < chan'[i].hi
             /\ chan'[i].hi <= sent'[chan'[i].s]
      <3> SUFFICES ASSUME NEW i \in 1 .. Len(chan')
                   PROVE  /\ got'[chan'[i].s] <= chan'[i].lo
                          /\ chan'[i].lo < chan'[i].hi
                          /\ chan'[i].hi <= sent'[chan'[i].s]
        OBVIOUS
      <3>1. CASE i = Len(chan) + 1
        BY <3>1, <2>1, <2>2
      <3>2. \A t \in Streams : sent[t] \in Nat /\ sent'[t] \in Nat /\ sent[t] <= sent'[t]
        BY <2>2
      <3>3. CASE i \in 1 .. Len(chan)
        <4>1. chan'[i] = chan[i]
          BY <3>3, <2>1
        <4>2. /\ chan[i].s \in Streams /\ chan[i].lo \in Nat /\ chan[i].hi \in Nat
              /\ got[chan[i].s] <= chan[i].lo /\ chan[i].lo < chan[i].hi
              /\ chan[i].hi <= sent[chan[i].s]
          BY <3>3, <2>3
        <4>3. chan[i].hi <= sent'[chan[i].s]
          BY <4>2, <3>2
        <4> QED BY <4>1, <4>2, <4>3, <2>2
      <3> QED BY <3>1, <3>3, <2>1
    <2>5. \A i, j \in 1 .. Len(chan') :
             i < j /\ chan'[i].s = chan'[j].s => chan'[i].hi <= chan'[j].lo
      <3> SUFFICES ASSUME NEW i \in 1 .. Len(chan'), NEW j \in 1 .. Len(chan'),
                          i < j, chan'[i].s = chan'[j].s
                   PROVE  chan'[i].hi <= chan'[j].lo
        OBVIOUS
      <3>1. i \in 1 .. Len(chan)
        BY <2>1
      <3>2. CASE j = Len(chan) + 1
        BY <3>1, <3>2, <2>1, <2>3
      <3>3. CASE j \in 1 .. Len(chan)
        BY <3>1, <3>3, <2>1 DEF ChunksOrdered
      <3> QED BY <3>2, <3>3, <2>1
    <2> QED BY <2>4, <2>5 DEF ChunksOrdered
  <1>2. CASE Forward \/ ForwardFails
    <2>1. /\ Len(chan) \in Nat \ {0} /\ Len(chan') = Len(chan) - 1
          /\ \A i \in 1 .. Len(chan') : chan'[i] = chan[i + 1]
          /\ Head(chan) = chan[1]
      BY <1>2, ChannelShape
    <2>2. /\ sent' = sent /\ got \in [Streams -> Nat]
          /\ got' = got \/ got' = [got EXCEPT ![chan[1].s] = chan[1].hi]
      BY <1>2, <2>1 DEF Forward, ForwardFails, pipeVars, TypeOK
    <2>3. \A i \in 1 .. Len(chan) : chan[i].s \in Streams /\ chan[i].lo \in Nat /\ chan[i].hi \in Nat
      BY <1>0 DEF Chunks
    <2>4. \A i \in 1 .. Len(chan') :
             /\ got'[chan'[i].s] <= chan'[i].lo
             /\ chan'[i].lo < chan'[i].hi
             /\ chan'[i].hi <= sent'[chan'[i].s]
      <3> SUFFICES ASSUME NEW i \in 1 .. Len(chan')
                   PROVE  /\ got'[chan'[i].s] <= chan'[i].lo
                          /\ chan'[i].lo < chan'[i].hi
                          /\ chan'[i].hi <= sent'[chan'[i].s]
        OBVIOUS
      <3>1. i + 1 \in 1 .. Len(chan) /\ 1 \in 1 .. Len(chan) /\ 1 < i + 1 /\ chan'[i] = chan[i + 1]
        BY <2>1
      <3>2. /\ got[chan[i + 1].s] <= chan[i + 1].lo
            /\ chan[i + 1].lo < chan[i + 1].hi /\ chan[i + 1].hi <= sent[chan[i + 1].s]
            /\ chan[1].s = chan[i + 1].s => chan[1].hi <= chan[i + 1].lo
        BY <3>1 DEF ChunksOrdered
      <3> QED BY <3>1, <3>2, <2>2, <2>3
    <2>5. \A i, j \in 1 .. Len(chan') :
             i < j /\ chan'[i].s = chan'[j].s => chan'[i].hi <= chan'[j].lo
      <3> SUFFICES ASSUME NEW i \in 1 .. Len(chan'), NEW j \in 1 .. Len(chan'),
                          i < j, chan'[i].s = chan'[j].s
                   PROVE  chan'[i].hi <= chan'[j].lo
        OBVIOUS
      <3>1. /\ i + 1 \in 1 .. Len(chan) /\ j + 1 \in 1 .. Len(chan) /\ i + 1 < j + 1
            /\ chan'[i] = chan[i + 1] /\ chan'[j] = chan[j + 1]
        BY <2>1
      <3> QED BY <3>1 DEF ChunksOrdered
    <2> QED BY <2>4, <2>5 DEF ChunksOrdered
  <1>3. CASE UNCHANGED <<chan, sent, got>>
    BY <1>3 DEF ChunksOrdered
  <1> QED BY <1>1, <1>2, <1>3, QueueCases

(* Nothing that was sent and is not delivered leaves the channel, except   *)
(* at its head and to the client.                                          *)
LEMMA CoverStep ==
    ASSUME TypeOK, PipeInv, ChunksOrdered, ChunksCover, [Next]_vars
    PROVE  ChunksCover'
  <1>0. \A i \in 1 .. Len(chan) : chan[i].s \in Streams /\ chan[i].lo \in Nat /\ chan[i].hi \in Nat
    BY ChannelShape DEF Chunks
  <1>1. ASSUME NEW t \in Streams, SendChunk(t) PROVE ChunksCover'
    <2> SUFFICES ASSUME fwd' /= "failed", NEW s \in Streams, NEW u \in got'[s] + 1 .. sent'[s]
                 PROVE  \E i \in 1 .. Len(chan') :
                           chan'[i].s = s /\ chan'[i].lo < u /\ u <= chan'[i].hi
      BY DEF ChunksCover
    <2>1. /\ Len(chan') = Len(chan) + 1 /\ Len(chan) \in Nat
          /\ \A i \in 1 .. Len(chan) : chan'[i] = chan[i]
          /\ chan'[Len(chan) + 1] = [s |-> t, lo |-> sent[t], hi |-> taken[t]]
      BY <1>1, ChannelShape DEF TypeOK
    <2>2. /\ fwd /= "failed" /\ got' = got /\ sent' = [sent EXCEPT ![t] = taken[t]]
          /\ sent[s] \in Nat /\ taken[s] \in Nat /\ got[s] \in Nat /\ sent \in [Streams -> Nat]
      BY <1>1 DEF SendChunk, netVars, TypeOK
    <2>3. CASE u <= sent[s]
      <3>1. u \in got[s] + 1 .. sent[s]
        BY <2>2, <2>3
      <3>2. PICK i \in 1 .. Len(chan) : chan[i].s = s /\ chan[i].lo < u /\ u <= chan[i].hi
        BY <2>2, <3>1 DEF ChunksCover
      <3> QED BY <3>2, <2>1
    <2>4. CASE s = t /\ sent[s] < u
      <3>1. u <= taken[t]
        BY <2>2, <2>4
      <3>2. Len(chan) + 1 \in 1 .. Len(chan')
        BY <2>1
      <3> QED BY <3>1, <3>2, <2>1, <2>4
    <2> QED BY <2>2, <2>3, <2>4
  <1>2. CASE Forward
    <2> SUFFICES ASSUME fwd' /= "failed", NEW s \in Streams, NEW u \in got'[s] + 1 .. sent'[s]
                 PROVE  \E i \in 1 .. Len(chan') :
                           chan'[i].s = s /\ chan'[i].lo < u /\ u <= chan'[i].hi
      BY DEF ChunksCover
    <2>1. /\ Len(chan) \in Nat \ {0} /\ Len(chan') = Len(chan) - 1
          /\ \A i \in 1 .. Len(chan') : chan'[i] = chan[i + 1]
          /\ Head(chan) = chan[1]
      BY <1>2, ChannelShape
    <2>2. /\ fwd /= "failed" /\ sent' = sent /\ got' = [got EXCEPT ![chan[1].s] = chan[1].hi]
          /\ got \in [Streams -> Nat] /\ sent \in [Streams -> Nat]
      BY <1>2, <2>1 DEF Forward, pipeVars, TypeOK
    <2>3. /\ 1 \in 1 .. Len(chan) /\ chan[1].s \in Streams /\ chan[1].lo \in Nat /\ chan[1].hi \in Nat
          /\ got[chan[1].s] <= chan[1].lo /\ chan[1].lo < chan[1].hi
      BY <1>0, <2>1 DEF ChunksOrdered
    <2>4. u \in got[s] + 1 .. sent[s] /\ (s = chan[1].s => chan[1].hi < u)
      BY <2>2, <2>3
    <2>5. PICK i \in 1 .. Len(chan) : chan[i].s = s /\ chan[i].lo < u /\ u <= chan[i].hi
      BY <2>2, <2>4 DEF ChunksCover
    <2>6. i /= 1
      BY <2>4, <2>5, <2>3
    <2>7. i - 1 \in 1 .. Len(chan') /\ chan'[i - 1] = chan[i]
      BY <2>1, <2>6
    <2> QED BY <2>5, <2>7
  <1>3. CASE ForwardFails
    BY <1>3 DEF ForwardFails, ChunksCover
  <1>4. CASE UNCHANGED <<chan, sent, got>> /\ (fwd' = "failed" <=> fwd = "failed")
    BY <1>4 DEF ChunksCover
  <1> QED BY <1>1, <1>2, <1>3, <1>4, QueueCases

(* The head of the channel continues its stream exactly where the client   *)
(* stands: the unit after the last one delivered is in some chunk, and     *)
(* that chunk cannot be behind another one of its stream.                  *)
LEMMA HeadContinues ==
    ASSUME TypeOK, ChunksOrdered, ChunksCover, fwd /= "failed", chan /= <<>>
    PROVE  Head(chan).lo = got[Head(chan).s]
  <1>1. /\ 1 \in 1 .. Len(chan) /\ Head(chan) = chan[1]
    BY DEF TypeOK
  <1>2. \A i \in 1 .. Len(chan) : chan[i].s \in Streams /\ chan[i].lo \in Nat /\ chan[i].hi \in Nat
    BY ChannelShape DEF Chunks
  <1> DEFINE s == chan[1].s
  <1>3. /\ s \in Streams /\ got[s] \in Nat /\ sent[s] \in Nat
        /\ got[s] <= chan[1].lo /\ chan[1].lo < chan[1].hi /\ chan[1].hi <= sent[s]
    BY <1>1, <1>2 DEF ChunksOrdered, TypeOK
  <1>4. got[s] + 1 \in got[s] + 1 .. sent[s]
    BY <1>1, <1>2, <1>3
  <1>5. PICK i \in 1 .. Len(chan) :
           chan[i].s = s /\ chan[i].lo < got[s] + 1 /\ got[s] + 1 <= chan[i].hi
    BY <1>3, <1>4 DEF ChunksCover
  <1>6. i = 1
    <2> SUFFICES ASSUME i /= 1 PROVE FALSE
      OBVIOUS
    <2>1. 1 < i
      OBVIOUS
    <2>2. chan[1].hi <= chan[i].lo
      BY <1>1, <1>5, <2>1 DEF ChunksOrdered
    <2> QED BY <1>1, <1>2, <1>3, <1>5, <2>2
  <1> QED BY <1>1, <1>2, <1>3, <1>5, <1>6

-----------------------------------------------------------------------------
(* The four facts about the way of the output, together inductive.         *)
StreamInv == ControlInv /\ PipeInv /\ ChunksOrdered /\ ChunksCover

(* The way of the output is sound in every reachable state.                *)
LEMMA StreamSound == Spec => []StreamInv
<1>1. Init => StreamInv
  <2> SUFFICES ASSUME Init PROVE StreamInv
    OBVIOUS
  <2>1. ControlInv
    BY DEF Init, ControlInv, SettingUp, SendersDropped
  <2>2. PipeInv
    BY DEF Init, PipeInv
  <2>3. chan = <<>> /\ Len(chan) = 0
    BY DEF Init
  <2>4. ChunksOrdered
    BY <2>3 DEF ChunksOrdered
  <2>5. ChunksCover
    BY DEF Init, ChunksCover
  <2> QED BY <2>1, <2>2, <2>4, <2>5 DEF StreamInv
<1>2. TypeOK /\ StreamInv /\ [Next]_vars => StreamInv'
  BY ControlStep, PipeStep, OrderStep, CoverStep DEF StreamInv
<1> QED
  BY <1>1, <1>2, TypeCorrect, PTL DEF Spec

(* For every channel and pipe capacity, every set of processes and every   *)
(* fault: no frame of a stream skips, repeats or overtakes output.         *)
THEOREM Contiguous == Spec => []OutputContiguous
<1>1. Init => OutputContiguous
  BY DEF Init, OutputContiguous
<1>2. TypeOK /\ StreamInv /\ OutputContiguous /\ [Next]_vars => OutputContiguous'
  <2> SUFFICES ASSUME TypeOK, StreamInv, OutputContiguous, [Next]_vars PROVE OutputContiguous'
    OBVIOUS
  <2>1. CASE Forward
    <3>1. fwd /= "failed" /\ chan /= <<>>
      BY <2>1 DEF Forward, TypeOK
    <3>2. Head(chan).lo = got[Head(chan).s]
      BY <3>1, HeadContinues DEF StreamInv
    <3> QED BY <2>1, <3>2 DEF Forward, OutputContiguous
  <2>2. CASE gap' = gap
    BY <2>2 DEF OutputContiguous
  <2>3. ASSUME NEW s \in Streams, SendChunk(s) PROVE gap' = gap
    BY <2>3 DEF SendChunk, netVars
  <2>4. ForwardFails => gap' = gap
    BY DEF ForwardFails
  <2> QED BY <2>1, <2>2, <2>3, <2>4, QueueCases
<1> QED
  BY <1>1, <1>2, TypeCorrect, StreamSound, PTL DEF Spec

(* The final frame of an execution that ran comes after all of its output. *)
THEOREM Complete == Spec => []OutputComplete
<1>1. TypeOK /\ StreamInv => OutputComplete
  <2> SUFFICES ASSUME TypeOK, StreamInv, final \in {"exit", "error"}, outcome /= "setup"
               PROVE  got = written
    BY DEF OutputComplete
  <2>1. fwd = "ok" /\ pc = "done" /\ chan = <<>> /\ SendersDropped
    BY DEF StreamInv, ControlInv
  <2>2. outcome \in {"exit", "timeout", "waiterr"}
    BY <2>1 DEF StreamInv, ControlInv, SettingUp, TypeOK, Outcomes
  <2>3. \A s \in Streams : reader[s] = "done"
    BY <2>1, <2>2 DEF StreamInv, ControlInv, SendersDropped
  <2>4. ASSUME NEW s \in Streams PROVE got[s] = written[s]
    <3>1. sent[s] = written[s] /\ got[s] <= sent[s]
      BY <2>3 DEF StreamInv, PipeInv
    <3>2. got[s] \in Nat /\ sent[s] \in Nat
      BY DEF TypeOK
    <3>3. Len(chan) = 0
      BY <2>1
    <3>4. ~(sent[s] \in got[s] + 1 .. sent[s])
      BY <2>1, <3>3 DEF StreamInv, ChunksCover
    <3> QED BY <3>1, <3>2, <3>4
  <2> QED BY <2>4 DEF TypeOK
<1> QED
  BY <1>1, TypeCorrect, StreamSound, PTL

-----------------------------------------------------------------------------
(* Only these steps touch the counters of a stream or the channel, and the *)
(* forwarder never starts again.                                           *)
LEMMA CounterCases ==
    ASSUME TypeOK, [Next]_vars
    PROVE  \/ \E s \in Streams : ReadPipe(s)
           \/ \E s \in Streams : SendChunk(s)
           \/ \E p \in Procs, s \in Streams : Write(p, s)
           \/ Forward
           \/ ForwardFails
           \/ /\ UNCHANGED <<chan, sent, got, taken, written>>
              /\ fwd' \in {"run", "send"} => fwd \in {"run", "send"}
              /\ fwd = "send" => fwd' = "send"
  BY NextCases DEF MakeCgroup, Spawn, AssignPid, WaitChild, CgroupKill, CgroupRemove, KillTree,
     JoinReaders, WaitError, Timeout, ReadEof, Receive, ForwardEnds, SendFinal, Disconnect, Fork,
     LeaveGroup, ClosePipe, Stop, execVars, procVars, cgVars, pipeVars, netVars, vars

(* A write waits for room in the pipe, a read takes what is there, and a   *)
(* chunk waits for a slot: no step overfills anything.                     *)
LEMMA RoomStep ==
    ASSUME TypeOK, PipeInv, RoomInv, [Next]_vars
    PROVE  RoomInv'
  <1>0. /\ \A s \in Streams : taken[s] \in Nat /\ sent[s] \in Nat /\ written[s] \in Nat
        /\ taken \in [Streams -> Nat] /\ sent \in [Streams -> Nat] /\ written \in [Streams -> Nat]
        /\ Len(chan) \in Nat /\ ChanCap \in Nat /\ PipeCap \in Nat
    BY ExecutorAssumption DEF TypeOK
  <1>1. ASSUME NEW s \in Streams, ReadPipe(s) PROVE RoomInv'
    <2>1. PICK n \in taken[s] + 1 .. written[s] : taken' = [taken EXCEPT ![s] = n]
      BY <1>1 DEF ReadPipe
    <2>2. taken[s] = sent[s] /\ UNCHANGED <<chan, fwd, sent, written>>
      BY <1>1 DEF ReadPipe, netVars
    <2>3. n \in Nat /\ taken[s] < n /\ n <= written[s]
      BY <1>0, <2>1
    <2> QED BY <1>0, <2>1, <2>2, <2>3 DEF RoomInv, InChannel
  <1>2. ASSUME NEW s \in Streams, SendChunk(s) PROVE RoomInv'
    <2>1. Len(chan') = Len(chan) + 1
      BY <1>2, ChannelShape
    <2>2. /\ InChannel < ChanCap /\ sent' = [sent EXCEPT ![s] = taken[s]]
          /\ UNCHANGED <<fwd, taken, written>>
      BY <1>2 DEF SendChunk, netVars
    <2> QED BY <1>0, <2>1, <2>2 DEF RoomInv, InChannel
  <1>3. ASSUME NEW p \in Procs, NEW s \in Streams, Write(p, s) PROVE RoomInv'
    <2>1. /\ written[s] - taken[s] < PipeCap /\ written' = [written EXCEPT ![s] = @ + 1]
          /\ UNCHANGED <<chan, fwd, taken, sent>>
      BY <1>3 DEF Write, pipeVars, netVars
    <2> QED BY <1>0, <2>1 DEF RoomInv, InChannel
  <1>4. CASE Forward \/ ForwardFails
    <2>1. Len(chan') = Len(chan) - 1
      BY <1>4, ChannelShape
    <2>2. fwd = "send" /\ fwd' /= "send" /\ UNCHANGED <<taken, written, sent>>
      BY <1>4 DEF Forward, ForwardFails, pipeVars
    <2> QED BY <1>0, <2>1, <2>2 DEF RoomInv, InChannel
  <1>5. CASE UNCHANGED <<chan, sent, got, taken, written>> /\ (fwd = "send" => fwd' = "send")
    BY <1>0, <1>5 DEF RoomInv, InChannel
  <1> QED BY <1>1, <1>2, <1>3, <1>4, <1>5, CounterCases

(* One more full read is one more pipe capacity.                           *)
LEMMA OneMore ==
    ASSUME NEW k \in Nat, NEW c \in Nat
    PROVE  (k + 1) * c = k * c + c /\ k * c \in Nat
  OBVIOUS

(* A chunk that is sent adds one total at the end, a full read at most     *)
(* above the last; a chunk that is forwarded takes the first away.         *)
LEMMA TotalsStep ==
    ASSUME TypeOK, StreamInv, RoomInv, TotalsInv, [Next]_vars
    PROVE  TotalsInv'
  <1> SUFFICES ASSUME fwd' \in {"run", "send"} PROVE \E t \in [0 .. Len(chan') -> Nat] : Totals(t)'
    BY DEF TotalsInv
  <1> DEFINE n == Len(chan)
  <1>0. /\ taken \in [Streams -> Nat] /\ sent \in [Streams -> Nat] /\ got \in [Streams -> Nat]
        /\ n \in Nat /\ PipeCap \in Nat
    BY ExecutorAssumption DEF TypeOK
  <1>1. ASSUME NEW s \in Streams, SendChunk(s)
        PROVE  \E t \in [0 .. Len(chan') -> Nat] : Totals(t)'
    <2>1. /\ Len(chan') = n + 1
          /\ \A i \in 1 .. n : chan'[i] = chan[i]
          /\ chan'[n + 1] = [s |-> s, lo |-> sent[s], hi |-> taken[s]]
      BY <1>1, ChannelShape
    <2>2. /\ got' = got /\ fwd' = fwd /\ sent[s] < taken[s]
          /\ sent' = [sent EXCEPT ![s] = taken[s]]
      BY <1>1 DEF SendChunk, netVars
    <2>3. PICK t \in [0 .. n -> Nat] : Totals(t)
      BY <2>2 DEF TotalsInv
    <2> DEFINE d == taken[s] - sent[s]
    <2>4. d \in Nat /\ d <= PipeCap /\ chan'[n + 1].hi - chan'[n + 1].lo = d
      BY <1>0, <2>1, <2>2 DEF RoomInv
    <2> HIDE DEF d
    <2>5. PICK u \in [0 .. n + 1 -> Nat] :
             /\ \A i \in 0 .. n : u[i] = t[i] /\ t[i] \in Nat
             /\ u[n + 1] = t[n] + d /\ t[n] \in Nat
      <3> DEFINE v == [i \in 0 .. n + 1 |-> IF i <= n THEN t[i] ELSE t[n] + d]
      <3>0. n \in 0 .. n
        BY <1>0
      <3>1. t[n] \in Nat /\ t[n] + d \in Nat
        <4>1. t[n] \in Nat
          BY <3>0
        <4> QED BY <4>1, <2>4
      <3>2. v \in [0 .. n + 1 -> Nat]
        <4> SUFFICES ASSUME NEW i \in 0 .. n + 1
                     PROVE  (IF i <= n THEN t[i] ELSE t[n] + d) \in Nat
          OBVIOUS
        <4>1. i <= n => i \in 0 .. n
          BY <1>0
        <4> QED BY <3>1, <4>1
      <3>3. \A i \in 0 .. n : v[i] = t[i] /\ t[i] \in Nat
        BY <1>0
      <3>4. v[n + 1] = t[n] + d
        BY <1>0
      <3> HIDE DEF v
      <3> QED BY <3>1, <3>2, <3>3, <3>4
    <2>6. u[0] = got'["out"] + got'["err"]
      BY <1>0, <2>2, <2>3, <2>5 DEF Totals
    <2>7. u[n + 1] = sent'["out"] + sent'["err"]
      <3>1. t[n] = sent["out"] + sent["err"]
        BY <2>3 DEF Totals
      <3> QED BY <1>0, <2>2, <2>5, <3>1 DEF Streams, d
    <2>8. \A i \in 1 .. n + 1 : u[i] = u[i - 1] + (chan'[i].hi - chan'[i].lo)
      <3> SUFFICES ASSUME NEW i \in 1 .. n + 1
                   PROVE  u[i] = u[i - 1] + (chan'[i].hi - chan'[i].lo)
        OBVIOUS
      <3>1. CASE i = n + 1
        <4>1. i - 1 = n /\ n \in 0 .. n
          BY <1>0, <3>1
        <4> QED BY <2>4, <2>5, <3>1, <4>1
      <3>2. CASE i \in 1 .. n
        <4>1. i - 1 \in 0 .. n /\ i \in 0 .. n
          BY <1>0, <3>2
        <4>2. t[i] = t[i - 1] + (chan[i].hi - chan[i].lo)
          BY <2>3, <3>2 DEF Totals
        <4> QED BY <2>1, <2>5, <3>2, <4>1, <4>2
      <3> QED BY <1>0, <3>1, <3>2
    <2>9. \A i \in 0 .. n + 1 : u[n + 1] <= u[i] + ((n + 1) - i) * PipeCap
      <3> SUFFICES ASSUME NEW i \in 0 .. n + 1
                   PROVE  u[n + 1] <= u[i] + ((n + 1) - i) * PipeCap
        OBVIOUS
      <3>1. CASE i = n + 1
        <4>1. ((n + 1) - i) * PipeCap = 0
          BY <1>0, <3>1
        <4>2. u[n + 1] \in Nat
          BY <2>4, <2>5
        <4> QED BY <3>1, <4>1, <4>2
      <3>2. CASE i \in 0 .. n
        <4>1. n - i \in Nat /\ (n + 1) - i = (n - i) + 1
          BY <1>0, <3>2
        <4>2. ((n + 1) - i) * PipeCap = (n - i) * PipeCap + PipeCap /\ (n - i) * PipeCap \in Nat
          BY <1>0, <4>1, OneMore
        <4>3. t[n] <= t[i] + (n - i) * PipeCap
          BY <2>3, <3>2 DEF Totals
        <4>4. u[i] = t[i] /\ t[i] \in Nat
          BY <2>5, <3>2
        <4> QED BY <1>0, <2>4, <2>5, <4>2, <4>3, <4>4
      <3> QED BY <1>0, <3>1, <3>2
    <2>10. Totals(u)'
      <3> QED BY <2>1, <2>6, <2>7, <2>8, <2>9 DEF Totals
    <2> QED BY <2>1, <2>5, <2>10
  <1>2. CASE Forward
    <2>1. /\ n \in Nat \ {0} /\ Len(chan') = n - 1
          /\ \A i \in 1 .. n - 1 : chan'[i] = chan[i + 1]
          /\ Head(chan) = chan[1]
      BY <1>2, ChannelShape
    <2>2. /\ fwd = "send" /\ chan /= <<>> /\ sent' = sent
          /\ got' = [got EXCEPT ![chan[1].s] = chan[1].hi]
      BY <1>2, <2>1 DEF Forward, pipeVars, TypeOK
    <2>3. /\ chan[1].s \in Streams /\ chan[1].hi \in Nat /\ chan[1].lo = got[chan[1].s]
          /\ chan[1].lo \in Nat
      <3>1. chan[1] \in Chunks
        BY <2>1, ChannelShape
      <3>2. chan[1].lo = got[chan[1].s]
        BY <2>1, <2>2, HeadContinues DEF StreamInv
      <3> QED BY <3>1, <3>2 DEF Chunks
    <2>4. PICK t \in [0 .. n -> Nat] : Totals(t)
      BY <2>2 DEF TotalsInv
    <2>5. PICK u \in [0 .. n - 1 -> Nat] :
             \A i \in 0 .. n - 1 : u[i] = t[i + 1] /\ t[i + 1] \in Nat
      <3> DEFINE v == [i \in 0 .. n - 1 |-> t[i + 1]]
      <3>1. v \in [0 .. n - 1 -> Nat] /\ \A i \in 0 .. n - 1 : v[i] = t[i + 1] /\ t[i + 1] \in Nat
        BY <2>1
      <3> QED BY <3>1
    <2>6. u[0] = got'["out"] + got'["err"]
      <3>1. t[1] = t[0] + (chan[1].hi - chan[1].lo) /\ t[0] = got["out"] + got["err"]
        <4>1. 1 \in 1 .. n /\ 1 - 1 = 0
          BY <2>1
        <4> QED BY <2>4, <4>1 DEF Totals
      <3>2. u[0] = t[1]
        BY <2>1, <2>5
      <3>3. got'["out"] + got'["err"] = (got["out"] + got["err"]) + (chan[1].hi - chan[1].lo)
        <4>1. DOMAIN got = {"out", "err"} /\ got["out"] \in Nat /\ got["err"] \in Nat
          BY DEF TypeOK, Streams
        <4>2. CASE chan[1].s = "out"
          <5>1. got'["out"] = chan[1].hi /\ got'["err"] = got["err"]
            BY <2>2, <4>1, <4>2
          <5> QED BY <2>3, <4>1, <4>2, <5>1
        <4>3. CASE chan[1].s = "err"
          <5>1. got'["err"] = chan[1].hi /\ got'["out"] = got["out"]
            BY <2>2, <4>1, <4>3
          <5> QED BY <2>3, <4>1, <4>3, <5>1
        <4> QED BY <2>3, <4>2, <4>3 DEF Streams
      <3> QED BY <3>1, <3>2, <3>3
    <2>7. u[n - 1] = sent'["out"] + sent'["err"]
      <3>1. u[n - 1] = t[n]
        BY <2>1, <2>5
      <3> QED BY <2>2, <2>4, <3>1 DEF Totals
    <2>8. \A i \in 1 .. n - 1 : u[i] = u[i - 1] + (chan'[i].hi - chan'[i].lo)
      <3> SUFFICES ASSUME NEW i \in 1 .. n - 1
                   PROVE  u[i] = u[i - 1] + (chan'[i].hi - chan'[i].lo)
        OBVIOUS
      <3>1. /\ i \in 0 .. n - 1 /\ i - 1 \in 0 .. n - 1 /\ (i - 1) + 1 = i /\ i + 1 \in 1 .. n
            /\ (i + 1) - 1 = i
        BY <2>1
      <3>2. t[i + 1] = t[i] + (chan[i + 1].hi - chan[i + 1].lo)
        BY <2>4, <3>1 DEF Totals
      <3>3. u[i] = t[i + 1] /\ u[i - 1] = t[i]
        BY <2>5, <3>1
      <3> QED BY <2>1, <3>2, <3>3
    <2>9. \A i \in 0 .. n - 1 : u[n - 1] <= u[i] + ((n - 1) - i) * PipeCap
      <3> SUFFICES ASSUME NEW i \in 0 .. n - 1
                   PROVE  u[n - 1] <= u[i] + ((n - 1) - i) * PipeCap
        OBVIOUS
      <3>1. i + 1 \in 0 .. n /\ n - (i + 1) = (n - 1) - i
        BY <2>1
      <3>2. t[n] <= t[i + 1] + (n - (i + 1)) * PipeCap
        BY <2>4, <3>1 DEF Totals
      <3>3. u[n - 1] = t[n] /\ u[i] = t[i + 1]
        BY <2>1, <2>5
      <3> QED BY <3>1, <3>2, <3>3
    <2>10. Totals(u)'
      <3> QED BY <2>1, <2>6, <2>7, <2>8, <2>9 DEF Totals
    <2> QED BY <2>1, <2>5, <2>10
  <1>3. CASE ForwardFails
    BY <1>3 DEF ForwardFails
  <1>4. CASE UNCHANGED <<chan, sent, got>> /\ fwd \in {"run", "send"}
    <2>1. PICK t \in [0 .. n -> Nat] : Totals(t)
      BY <1>4 DEF TotalsInv
    <2>2. Totals(t)'
      BY <1>4, <2>1 DEF Totals
    <2> QED BY <1>4, <2>1, <2>2
  <1>5. (\E s \in Streams : ReadPipe(s)) \/ (\E p \in Procs, s \in Streams : Write(p, s))
          => UNCHANGED <<chan, sent, got>> /\ fwd \in {"run", "send"}
    BY DEF ReadPipe, Write, pipeVars, netVars
  <1> QED BY <1>1, <1>2, <1>3, <1>4, <1>5, CounterCases

(* What was taken and not delivered sits in the readers' hands or, with no *)
(* more than a, in the channel.                                            *)
LEMMA HeldSum ==
    ASSUME NEW t1 \in Nat, NEW t2 \in Nat, NEW s1 \in Nat, NEW s2 \in Nat,
           NEW g1 \in Nat, NEW g2 \in Nat, NEW a \in Nat, NEW b \in Nat, NEW c \in Nat,
           t1 - s1 <= c, t2 - s2 <= c, s1 + s2 <= (g1 + g2) + a, a <= b
    PROVE  (t1 - g1) + (t2 - g2) <= b + c + c
  OBVIOUS

(* For every channel and pipe capacity, whatever the sandbox writes and    *)
(* however slowly the client reads: the daemon holds no more output of an  *)
(* execution than a full channel, one full read in each reader's hands and *)
(* one in the forwarder's.                                                 *)
THEOREM Backpressure == Spec => []BufferBound
<1>1. Init => RoomInv /\ TotalsInv
  <2> SUFFICES ASSUME Init PROVE RoomInv /\ TotalsInv
    OBVIOUS
  <2>1. chan = <<>> /\ Len(chan) = 0
    BY DEF Init
  <2>2. RoomInv
    BY <2>1, ExecutorAssumption DEF Init, RoomInv, InChannel
  <2> DEFINE t == [i \in 0 .. 0 |-> 0]
  <2>3. t \in [0 .. Len(chan) -> Nat] /\ t[0] = 0
    BY <2>1
  <2>4. Totals(t)
    <3>1. \A i \in 0 .. 0 : t[0] <= t[i] + (0 - i) * PipeCap
      BY ExecutorAssumption
    <3>2. /\ got["out"] + got["err"] = 0 /\ sent["out"] + sent["err"] = 0
      BY DEF Init, Streams
    <3> HIDE DEF t
    <3> QED BY <2>1, <2>3, <3>1, <3>2 DEF Totals
  <2> QED BY <2>2, <2>3, <2>4 DEF TotalsInv
<1>2. TypeOK /\ StreamInv /\ RoomInv /\ TotalsInv /\ [Next]_vars => (RoomInv /\ TotalsInv)'
  BY RoomStep, TotalsStep DEF StreamInv
<1>3. TypeOK /\ StreamInv /\ RoomInv /\ TotalsInv => BufferBound
  <2> SUFFICES ASSUME TypeOK, RoomInv, TotalsInv, fwd \in {"run", "send"}
               PROVE  (taken["out"] - got["out"]) + (taken["err"] - got["err"])
                        <= (ChanCap + 3) * PipeCap
    BY DEF BufferBound
  <2> DEFINE n == Len(chan)
  <2>1. PICK t \in [0 .. n -> Nat] : Totals(t)
    BY DEF TotalsInv
  <2>2. n \in Nat /\ n <= ChanCap + 1 /\ ChanCap \in Nat /\ PipeCap \in Nat
    BY ExecutorAssumption DEF TypeOK, RoomInv, InChannel
  <2>3. sent["out"] + sent["err"] <= (got["out"] + got["err"]) + n * PipeCap
    <3>1. 0 \in 0 .. n /\ n - 0 = n
      BY <2>2
    <3> QED BY <2>1, <3>1 DEF Totals
  <2>4. /\ n * PipeCap <= (ChanCap + 1) * PipeCap
        /\ n * PipeCap \in Nat /\ (ChanCap + 1) * PipeCap \in Nat
    BY <2>2
  <2>5. (ChanCap + 3) * PipeCap = (ChanCap + 1) * PipeCap + PipeCap + PipeCap
    BY <2>2
  <2>6. taken["out"] - sent["out"] <= PipeCap /\ taken["err"] - sent["err"] <= PipeCap
    BY DEF RoomInv, Streams
  <2>7. /\ taken["out"] \in Nat /\ taken["err"] \in Nat /\ sent["out"] \in Nat
        /\ sent["err"] \in Nat /\ got["out"] \in Nat /\ got["err"] \in Nat
    BY DEF TypeOK, Streams
  <2>8. PICK a \in Nat : a = n * PipeCap
    BY <2>4
  <2>9. PICK b \in Nat : b = (ChanCap + 1) * PipeCap
    BY <2>4
  <2>10. (taken["out"] - got["out"]) + (taken["err"] - got["err"]) <= b + PipeCap + PipeCap
    <3>1. sent["out"] + sent["err"] <= (got["out"] + got["err"]) + a /\ a <= b
      BY <2>3, <2>4, <2>8, <2>9
    <3> QED BY <2>2, <2>6, <2>7, <2>8, <2>9, <3>1, HeldSum
  <2> QED BY <2>5, <2>9, <2>10
<1> QED
  BY <1>1, <1>2, <1>3, TypeCorrect, StreamSound, PTL DEF Spec

-----------------------------------------------------------------------------
(* Only the wait reaps the child, and nobody is in a group or in the cgroup *)
(* before it is forked.                                                    *)
LEMMA ReapStep ==
    ASSUME TypeOK, ControlInv, ProcInv, [Next]_vars
    PROVE  ProcInv'
  <1> USE ExecutorAssumption DEF TypeOK, ControlInv, ProcInv, SettingUp, Procs, execVars, procVars, cgVars, pipeVars, netVars
  <1>1. CASE MakeCgroup
    BY <1>1 DEF MakeCgroup
  <1>2. CASE Spawn
    BY <1>2 DEF Spawn
  <1>3. CASE AssignPid
    BY <1>3 DEF AssignPid, StartReaders, Killed
  <1>4. CASE WaitChild
    BY <1>4 DEF WaitChild, AfterWait
  <1>5. CASE CgroupKill
    BY <1>5 DEF CgroupKill, Killed
  <1>6. CASE CgroupRemove
    BY <1>6 DEF CgroupRemove
  <1>7. CASE KillTree
    BY <1>7 DEF KillTree, Killed
  <1>8. CASE JoinReaders
    BY <1>8 DEF JoinReaders, Killed
  <1>9. CASE WaitError
    BY <1>9 DEF WaitError, AfterWait
  <1>10. CASE Timeout
    BY <1>10 DEF Timeout, AfterWait
  <1>11. ASSUME NEW s \in Streams, ReadPipe(s)
        PROVE  ProcInv'
    BY <1>11 DEF ReadPipe
  <1>12. ASSUME NEW s \in Streams, SendChunk(s)
        PROVE  ProcInv'
    BY <1>12 DEF SendChunk
  <1>13. ASSUME NEW s \in Streams, ReadEof(s)
        PROVE  ProcInv'
    BY <1>13 DEF ReadEof
  <1>14. CASE Forward
    BY <1>14 DEF Forward
  <1>15. CASE ForwardFails
    BY <1>15 DEF ForwardFails
  <1>16. CASE ForwardEnds
    BY <1>16 DEF ForwardEnds
  <1>17. CASE SendFinal
    BY <1>17 DEF SendFinal
  <1>18. CASE Disconnect
    BY <1>18 DEF Disconnect
  <1>19. ASSUME NEW p \in Procs, NEW k \in Kids, Fork(p, k)
        PROVE  ProcInv'
    BY <1>19 DEF Fork
  <1>20. ASSUME NEW k \in Kids, LeaveGroup(k)
        PROVE  ProcInv'
    BY <1>20 DEF LeaveGroup
  <1>21. ASSUME NEW p \in Procs, NEW s \in Streams, ClosePipe(p, s)
        PROVE  ProcInv'
    BY <1>21 DEF ClosePipe
  <1>22. ASSUME NEW p \in Procs, NEW s \in Streams, Write(p, s)
        PROVE  ProcInv'
    BY <1>22 DEF Write
  <1>23. ASSUME NEW p \in Procs, Stop(p), proc[p] \in {"live", "dying"}
        PROVE  ProcInv'
    BY <1>23 DEF Stop
  <1>24. CASE UNCHANGED vars
    BY <1>24 DEF vars
  <1>25. CASE Receive
    BY <1>25 DEF Receive
  <1> QED
    BY <1>1, <1>2, <1>3, <1>4, <1>5, <1>6, <1>7, <1>8, <1>9, <1>10, <1>11, <1>12, <1>13,
       <1>14, <1>15, <1>16, <1>17, <1>18, <1>19, <1>20, <1>21, <1>22, <1>23, <1>24, <1>25, NextCases

(* After the kill a member of the group is dying or dead, so that the group *)
(* cannot grow again.                                                      *)
LEMMA GroupStep ==
    ASSUME TypeOK, ControlInv, ProcInv, GroupKilled, [Next]_vars
    PROVE  GroupKilled'
  <1> USE ExecutorAssumption DEF TypeOK, ControlInv, ProcInv, GroupKilled, SettingUp, execVars, procVars, cgVars, pipeVars, netVars
  <1>1. CASE MakeCgroup
    BY <1>1 DEF MakeCgroup
  <1>2. CASE Spawn
    BY <1>2 DEF Spawn
  <1>3. CASE AssignPid
    BY <1>3 DEF AssignPid, StartReaders, Killed
  <1>4. CASE WaitChild
    BY <1>4 DEF WaitChild, AfterWait
  <1>5. CASE CgroupKill
    BY <1>5 DEF CgroupKill, Killed
  <1>6. CASE CgroupRemove
    BY <1>6 DEF CgroupRemove
  <1>7. CASE KillTree
    BY <1>7 DEF KillTree, Killed
  <1>8. CASE JoinReaders
    BY <1>8 DEF JoinReaders, Killed
  <1>9. CASE WaitError
    BY <1>9 DEF WaitError, AfterWait
  <1>10. CASE Timeout
    BY <1>10 DEF Timeout, AfterWait
  <1>11. ASSUME NEW s \in Streams, ReadPipe(s)
        PROVE  GroupKilled'
    BY <1>11 DEF ReadPipe
  <1>12. ASSUME NEW s \in Streams, SendChunk(s)
        PROVE  GroupKilled'
    BY <1>12 DEF SendChunk
  <1>13. ASSUME NEW s \in Streams, ReadEof(s)
        PROVE  GroupKilled'
    BY <1>13 DEF ReadEof
  <1>14. CASE Forward
    BY <1>14 DEF Forward
  <1>15. CASE ForwardFails
    BY <1>15 DEF ForwardFails
  <1>16. CASE ForwardEnds
    BY <1>16 DEF ForwardEnds
  <1>17. CASE SendFinal
    BY <1>17 DEF SendFinal
  <1>18. CASE Disconnect
    BY <1>18 DEF Disconnect
  <1>19. ASSUME NEW p \in Procs, NEW k \in Kids, Fork(p, k)
        PROVE  GroupKilled'
    BY <1>19 DEF Fork
  <1>20. ASSUME NEW k \in Kids, LeaveGroup(k)
        PROVE  GroupKilled'
    BY <1>20 DEF LeaveGroup
  <1>21. ASSUME NEW p \in Procs, NEW s \in Streams, ClosePipe(p, s)
        PROVE  GroupKilled'
    BY <1>21 DEF ClosePipe
  <1>22. ASSUME NEW p \in Procs, NEW s \in Streams, Write(p, s)
        PROVE  GroupKilled'
    BY <1>22 DEF Write
  <1>23. ASSUME NEW p \in Procs, Stop(p), proc[p] \in {"live", "dying"}
        PROVE  GroupKilled'
    BY <1>23 DEF Stop
  <1>24. CASE UNCHANGED vars
    BY <1>24 DEF vars
  <1>25. CASE Receive
    BY <1>25 DEF Receive
  <1> QED
    BY <1>1, <1>2, <1>3, <1>4, <1>5, <1>6, <1>7, <1>8, <1>9, <1>10, <1>11, <1>12, <1>13,
       <1>14, <1>15, <1>16, <1>17, <1>18, <1>19, <1>20, <1>21, <1>22, <1>23, <1>24, <1>25, NextCases

(* The same for the members of the cgroup once cgroup.kill is written.      *)
LEMMA CgroupStep ==
    ASSUME TypeOK, ControlInv, ProcInv, CgroupKilled, [Next]_vars
    PROVE  CgroupKilled'
  <1> USE ExecutorAssumption DEF TypeOK, ControlInv, ProcInv, CgroupKilled, SettingUp, execVars, procVars, cgVars, pipeVars, netVars
  <1>1. CASE MakeCgroup
    BY <1>1 DEF MakeCgroup
  <1>2. CASE Spawn
    BY <1>2 DEF Spawn
  <1>3. CASE AssignPid
    BY <1>3 DEF AssignPid, StartReaders, Killed
  <1>4. CASE WaitChild
    BY <1>4 DEF WaitChild, AfterWait
  <1>5. CASE CgroupKill
    BY <1>5 DEF CgroupKill, Killed
  <1>6. CASE CgroupRemove
    BY <1>6 DEF CgroupRemove
  <1>7. CASE KillTree
    BY <1>7 DEF KillTree, Killed
  <1>8. CASE JoinReaders
    BY <1>8 DEF JoinReaders, Killed
  <1>9. CASE WaitError
    BY <1>9 DEF WaitError, AfterWait
  <1>10. CASE Timeout
    BY <1>10 DEF Timeout, AfterWait
  <1>11. ASSUME NEW s \in Streams, ReadPipe(s)
        PROVE  CgroupKilled'
    BY <1>11 DEF ReadPipe
  <1>12. ASSUME NEW s \in Streams, SendChunk(s)
        PROVE  CgroupKilled'
    BY <1>12 DEF SendChunk
  <1>13. ASSUME NEW s \in Streams, ReadEof(s)
        PROVE  CgroupKilled'
    BY <1>13 DEF ReadEof
  <1>14. CASE Forward
    BY <1>14 DEF Forward
  <1>15. CASE ForwardFails
    BY <1>15 DEF ForwardFails
  <1>16. CASE ForwardEnds
    BY <1>16 DEF ForwardEnds
  <1>17. CASE SendFinal
    BY <1>17 DEF SendFinal
  <1>18. CASE Disconnect
    BY <1>18 DEF Disconnect
  <1>19. ASSUME NEW p \in Procs, NEW k \in Kids, Fork(p, k)
        PROVE  CgroupKilled'
    BY <1>19 DEF Fork
  <1>20. ASSUME NEW k \in Kids, LeaveGroup(k)
        PROVE  CgroupKilled'
    BY <1>20 DEF LeaveGroup
  <1>21. ASSUME NEW p \in Procs, NEW s \in Streams, ClosePipe(p, s)
        PROVE  CgroupKilled'
    BY <1>21 DEF ClosePipe
  <1>22. ASSUME NEW p \in Procs, NEW s \in Streams, Write(p, s)
        PROVE  CgroupKilled'
    BY <1>22 DEF Write
  <1>23. ASSUME NEW p \in Procs, Stop(p), proc[p] \in {"live", "dying"}
        PROVE  CgroupKilled'
    BY <1>23 DEF Stop
  <1>24. CASE UNCHANGED vars
    BY <1>24 DEF vars
  <1>25. CASE Receive
    BY <1>25 DEF Receive
  <1> QED
    BY <1>1, <1>2, <1>3, <1>4, <1>5, <1>6, <1>7, <1>8, <1>9, <1>10, <1>11, <1>12, <1>13,
       <1>14, <1>15, <1>16, <1>17, <1>18, <1>19, <1>20, <1>21, <1>22, <1>23, <1>24, <1>25, NextCases

(* ProcInv holds throughout: the form the next theorems use.               *)
LEMMA ProcSound == Spec => []ProcInv
<1>1. Init => ProcInv
  BY ExecutorAssumption DEF Init, ProcInv, Procs
<1>2. TypeOK /\ StreamInv /\ ProcInv /\ [Next]_vars => ProcInv'
  BY ReapStep DEF StreamInv
<1> QED
  BY <1>1, <1>2, TypeCorrect, StreamSound, PTL DEF Spec

(* kill(-pid) and kill(pid) never reach a pid that has been reaped.        *)
THEOREM KillsOwnChild == Spec => []NoStrayKill
<1>1. StreamInv /\ ProcInv => NoStrayKill
  BY DEF StreamInv, ControlInv, ProcInv, NoStrayKill
<1> QED
  BY <1>1, StreamSound, ProcSound, PTL

(* After a timeout no member of the child's process group runs, however    *)
(* many there were and whenever they were forked.                          *)
THEOREM TimeoutKillsGroup == Spec => []GroupKilled
<1>1. Init => GroupKilled
  BY DEF Init, GroupKilled
<1>2. TypeOK /\ StreamInv /\ ProcInv /\ GroupKilled /\ [Next]_vars => GroupKilled'
  BY GroupStep DEF StreamInv
<1> QED
  BY <1>1, <1>2, TypeCorrect, StreamSound, ProcSound, PTL DEF Spec

(* After cleanup_cgroup no process of the cgroup runs.                     *)
THEOREM CleanupKillsCgroup == Spec => []CgroupKilled
<1>1. Init => CgroupKilled
  BY DEF Init, CgroupKilled
<1>2. TypeOK /\ StreamInv /\ ProcInv /\ CgroupKilled /\ [Next]_vars => CgroupKilled'
  BY CgroupStep DEF StreamInv
<1> QED
  BY <1>1, <1>2, TypeCorrect, StreamSound, ProcSound, PTL DEF Spec
=============================================================================
