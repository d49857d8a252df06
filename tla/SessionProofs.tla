--------------------------- MODULE SessionProofs ---------------------------
(***************************************************************************)
(* Proofs about a connection of the binary protocol, for any number of     *)
(* calls, workspaces and output frames, and any socket buffer.             *)
(***************************************************************************)
EXTENDS Session, SequenceTheorems, TLAPS

(* One case per action.                                                    *)
LEMMA NextCases ==
    ASSUME [Next]_vars
    PROVE  \/ \E op \in {"exec", "get"}, ws \in Workspaces, bad, fd \in BOOLEAN :
                 Call(op, ws, bad, fd)
           \/ ExecEvent \/ FetchReply \/ FetchEof \/ ServerGone \/ Hangup
           \/ NextRequest \/ RefuseExec \/ ExecOutput \/ \E type \in {"exit", "error"} : ExecOver(type)
           \/ RefuseGet \/ HandFile \/ SendEof \/ ClientGone
           \/ UNCHANGED vars
  BY DEF Next, ClientStep, ServerStep, Finished

(***************************************************************************)
(* What the actions do to the sequences.                                   *)
(***************************************************************************)
LEMMA RequestShape ==
    ASSUME TypeOK
    PROVE  /\ request /= NoRequest <=> request \in Requests
           /\ request /= NoRequest => request.call \in 1 .. MaxCalls
  BY DEF TypeOK, Requests, NoRequest

(* A call appends to the log and to the socket.                            *)
LEMMA CallAppends ==
    ASSUME TypeOK, OrderInv,
           NEW op \in {"exec", "get"}, NEW ws \in Workspaces, NEW bad \in BOOLEAN,
           NEW fd \in BOOLEAN, Call(op, ws, bad, fd)
    PROVE  /\ log' \in Seq(Calls) /\ Len(log') = Len(log) + 1
           /\ log'[Len(log) + 1] = [op |-> op, ws |-> ws, bad |-> bad, fd |-> fd]
           /\ \A n \in 1 .. Len(log) : log'[n] = log[n]
           /\ toServer' \in Seq(Requests) /\ Len(toServer') = Len(toServer) + 1
           /\ \A n : n = Len(log) + 1 => toServer'[Len(toServer) + 1] = RequestOf(n)'
           /\ \A i \in 1 .. Len(toServer) : toServer'[i] = toServer[i]
           /\ Taken' = Taken /\ Handled' = Handled
  <1> DEFINE c == [op |-> op, ws |-> ws, bad |-> bad, fd |-> fd]
             r == [call |-> Len(log) + 1, op |-> op, ws |-> ws, bad |-> bad, fd |-> fd]
  <1>1. /\ log \in Seq(Calls) /\ toServer \in Seq(Requests) /\ Len(log) \in Nat /\ Len(toServer) \in Nat
        /\ log' = Append(log, c) /\ toServer' = Append(toServer, r) /\ request' = request
        /\ Len(log) < MaxCalls
    BY DEF Call, TypeOK, ThisCall, serverVars
  <1>2. c \in Calls /\ r \in Requests
    BY <1>1, SessionAssumption DEF Calls, Requests
  <1>3. c.op = op /\ c.ws = ws /\ c.bad = bad /\ c.fd = fd
    OBVIOUS
  <1> HIDE DEF c
  <1>4. /\ log' \in Seq(Calls) /\ Len(log') = Len(log) + 1
        /\ log'[Len(log) + 1] = c
        /\ \A n \in 1 .. Len(log) : log'[n] = log[n]
    BY <1>1, <1>2, AppendProperties
  <1>5. r = [call |-> Len(log) + 1, op |-> c.op, ws |-> c.ws, bad |-> c.bad, fd |-> c.fd]
    BY <1>3
  <1> HIDE DEF r
  <1>6. /\ toServer' \in Seq(Requests) /\ Len(toServer') = Len(toServer) + 1
        /\ toServer'[Len(toServer) + 1] = r
        /\ \A i \in 1 .. Len(toServer) : toServer'[i] = toServer[i]
    BY <1>1, <1>2, AppendProperties
  <1>7. Taken' = Taken /\ Handled' = Handled
    BY <1>1, <1>4, <1>6 DEF Taken, Handled
  <1> QED BY <1>4, <1>5, <1>6, <1>7 DEF c, RequestOf

(* How many requests the server has taken and how many it has done with    *)
(* are numbers.                                                            *)
LEMMA TakenType ==
    ASSUME TypeOK
    PROVE  Taken \in Int /\ Len(log) \in Nat /\ Len(toServer) \in Nat /\ Handled \in Int
  <1>1. Len(log) \in Nat /\ Len(toServer) \in Nat
    BY DEF TypeOK
  <1>2. Taken \in Int
    BY <1>1 DEF Taken
  <1> QED BY <1>1, <1>2 DEF Handled

(* The server takes the request of the next call.                          *)
LEMMA TakesRequest ==
    ASSUME TypeOK, OrderInv, NextRequest
    PROVE  /\ request = NoRequest /\ request' \in Requests /\ request' /= NoRequest
           /\ request' = Head(toServer) /\ request' = RequestOf(Taken + 1)
           /\ toServer' \in Seq(Requests) /\ Len(toServer') = Len(toServer) - 1
           /\ Len(toServer) \in Nat \ {0}
           /\ \A i \in 1 .. Len(toServer') : toServer'[i] = toServer[i + 1]
           /\ Taken' = Taken + 1 /\ Handled' = Handled /\ log' = log
           /\ Taken + 1 \in 1 .. Len(log) /\ Handled = Taken
  <1>1. /\ toServer \in Seq(Requests) /\ toServer /= <<>> /\ request = NoRequest
        /\ request' = Head(toServer) /\ toServer' = Tail(toServer) /\ log' = log
        /\ Len(log) \in Nat
    BY DEF NextRequest, TypeOK, historyVars
  <1>2. /\ toServer' \in Seq(Requests) /\ Len(toServer') = Len(toServer) - 1
        /\ \A i \in 1 .. Len(toServer') : toServer'[i] = toServer[i + 1]
        /\ request' \in Requests
    BY <1>1, HeadTailProperties
  <1>3. Len(toServer) \in Nat \ {0} /\ request' = toServer[1] /\ 1 \in 1 .. Len(toServer)
    BY <1>1, EmptySeq
  <1>4. request' /= NoRequest
    BY <1>2 DEF Requests, NoRequest
  <1>5. request' = RequestOf(Taken + 1)
    BY <1>3 DEF OrderInv
  <1>6. Taken \in Int /\ Taken' = Taken + 1
    BY <1>1, <1>2, <1>3 DEF Taken
  <1>7. Handled' = Handled /\ Handled = Taken
    BY <1>1, <1>4, <1>6 DEF Handled
  <1>8. Taken + 1 \in 1 .. Len(log)
    BY <1>1, <1>3 DEF Taken, OrderInv
  <1> QED BY <1>1, <1>2, <1>3, <1>4, <1>5, <1>6, <1>7, <1>8

(* Requests are taken in the order of the calls.                           *)
LEMMA OrderStep ==
    ASSUME TypeOK, OrderInv, [Next]_vars
    PROVE  OrderInv'
  <1>a. ASSUME UNCHANGED <<log, toServer>>, request' \in {request, NoRequest}
        PROVE  OrderInv'
    <2>1. Taken' = Taken /\ \A n : RequestOf(n)' = RequestOf(n)
      BY <1>a DEF Taken, RequestOf
    <2> QED BY <1>a, <2>1 DEF OrderInv
  <1> USE DEF serverVars, historyVars, Take, EndCall, Send
  <1>1. ASSUME NEW op \in {"exec", "get"}, NEW ws \in Workspaces, NEW bad \in BOOLEAN,
               NEW fd \in BOOLEAN, Call(op, ws, bad, fd)
        PROVE  OrderInv'
    <2>1. PICK N \in Nat : N = Len(log)
      BY DEF TypeOK
    <2>2. PICK q \in Nat : q = Len(toServer)
      BY DEF TypeOK
    <2>3. /\ Len(log') = N + 1 /\ Len(toServer') = q + 1 /\ Taken' = Taken /\ Taken = N - q
          /\ \A n \in 1 .. N : log'[n] = log[n]
          /\ \A i \in 1 .. q : toServer'[i] = toServer[i]
          /\ log'[N + 1] = [op |-> op, ws |-> ws, bad |-> bad, fd |-> fd]
          /\ toServer'[q + 1] = RequestOf(N + 1)'
      BY <1>1, <2>1, <2>2, CallAppends DEF Taken
    <2>4. /\ N < MaxCalls /\ q <= N /\ request' = request
          /\ bad \/ fd => op = "exec"
      BY <1>1, <2>1, <2>2 DEF Call, ThisCall, OrderInv
    <2>5. \A n \in 1 .. N : RequestOf(n)' = RequestOf(n)
      BY <2>3 DEF RequestOf
    <2>6. N + 1 <= MaxCalls /\ q + 1 <= N + 1
      BY <2>4, SessionAssumption
    <2>7. ASSUME NEW i \in 1 .. q + 1 PROVE toServer'[i] = RequestOf(N - q + i)'
      <3>1. CASE i = q + 1
        <4>1. N - q + i = N + 1
          BY <3>1
        <4> QED BY <2>3, <3>1, <4>1
      <3>2. CASE i \in 1 .. q
        <4>1. N - q + i \in 1 .. N
          BY <2>4, <3>2
        <4>2. toServer[i] = RequestOf(N - q + i)
          BY <2>1, <2>2, <2>3, <3>2 DEF OrderInv
        <4> QED BY <2>3, <2>5, <3>2, <4>1, <4>2
      <3> QED BY <3>1, <3>2
    <2>8. request' /= NoRequest => Taken' >= 1 /\ request' = RequestOf(N - q)'
      <3> SUFFICES ASSUME request /= NoRequest
                   PROVE  Taken >= 1 /\ request = RequestOf(N - q)'
        BY <2>3, <2>4
      <3>1. Taken >= 1 /\ request = RequestOf(N - q)
        BY <2>3 DEF OrderInv
      <3>2. N - q \in 1 .. N
        BY <2>3, <3>1
      <3> QED BY <2>5, <3>1, <3>2
    <2>9. \A n \in 1 .. N + 1 : log'[n].bad \/ log'[n].fd => log'[n].op = "exec"
      <3> SUFFICES ASSUME NEW n \in 1 .. N + 1 PROVE log'[n].bad \/ log'[n].fd => log'[n].op = "exec"
        OBVIOUS
      <3>1. CASE n = N + 1
        BY <2>3, <2>4, <3>1
      <3>2. CASE n \in 1 .. N
        BY <2>1, <2>3, <3>2 DEF OrderInv
      <3> QED BY <3>1, <3>2
    <2>10. Taken' = N - q
      BY <2>3
    <2>11. \A i \in 1 .. q + 1 : toServer'[i] = RequestOf(Taken + i)'
      BY <2>7, <2>10 DEF RequestOf
    <2>12. request' /= NoRequest => Taken' >= 1 /\ request' = RequestOf(Taken)'
      BY <2>8, <2>10 DEF RequestOf
    <2> QED BY <2>3, <2>6, <2>9, <2>11, <2>12 DEF OrderInv
  <1>2. CASE ExecEvent
    BY <1>2, <1>a DEF ExecEvent
  <1>3. CASE FetchReply
    BY <1>3, <1>a DEF FetchReply
  <1>4. CASE FetchEof
    BY <1>4, <1>a DEF FetchEof
  <1>5. CASE ServerGone
    BY <1>5, <1>a DEF ServerGone
  <1>6. CASE Hangup
    BY <1>6, <1>a DEF Hangup
  <1>7. CASE NextRequest
    <2>1. PICK T \in Int : T = Taken
      BY TakenType
    <2>2. /\ request' = RequestOf(T + 1) /\ Len(toServer') = Len(toServer) - 1 /\ log' = log
          /\ Len(toServer) \in Nat \ {0}
          /\ \A i \in 1 .. Len(toServer') : toServer'[i] = toServer[i + 1]
          /\ Taken' = T + 1 /\ T + 1 \in 1 .. Len(log) /\ Len(log) \in Nat
      BY <1>7, <2>1, TakesRequest DEF TypeOK
    <2>3. \A n : RequestOf(n)' = RequestOf(n)
      BY <2>2 DEF RequestOf
    <2>4. \A i \in 1 .. Len(toServer') : toServer'[i] = RequestOf(T + 1 + i)
      <3> SUFFICES ASSUME NEW i \in 1 .. Len(toServer') PROVE toServer'[i] = RequestOf(T + 1 + i)
        OBVIOUS
      <3>1. i + 1 \in 1 .. Len(toServer) /\ T + (i + 1) = T + 1 + i
        BY <2>1, <2>2
      <3>2. toServer[i + 1] = RequestOf(T + (i + 1))
        BY <2>1, <3>1 DEF OrderInv
      <3> QED BY <2>2, <3>1, <3>2
    <2>5. \A i \in 1 .. Len(toServer') : toServer'[i] = RequestOf(Taken + i)'
      BY <2>2, <2>4 DEF RequestOf
    <2>6. Taken' >= 1 /\ request' = RequestOf(Taken)'
      BY <2>2, <2>3 DEF RequestOf
    <2>7. Len(log') <= MaxCalls /\ Len(toServer') <= Len(log')
      BY <2>2 DEF OrderInv
    <2>8. \A n \in 1 .. Len(log') : log'[n].bad \/ log'[n].fd => log'[n].op = "exec"
      BY <2>2 DEF OrderInv
    <2> QED BY <2>5, <2>6, <2>7, <2>8 DEF OrderInv
  <1>8. CASE RefuseExec
    BY <1>8, <1>a DEF RefuseExec
  <1>9. CASE ExecOutput
    BY <1>9, <1>a DEF ExecOutput
  <1>10. ASSUME NEW type \in {"exit", "error"}, ExecOver(type)
        PROVE  OrderInv'
    BY <1>10, <1>a DEF ExecOver
  <1>11. CASE RefuseGet
    BY <1>11, <1>a DEF RefuseGet
  <1>12. CASE HandFile
    BY <1>12, <1>a DEF HandFile
  <1>13. CASE SendEof
    BY <1>13, <1>a DEF SendEof
  <1>14. CASE ClientGone
    BY <1>14, <1>a DEF ClientGone
  <1>15. CASE UNCHANGED vars
    BY <1>15, <1>a DEF vars
  <1> QED
    BY <1>1, <1>2, <1>3, <1>4, <1>5, <1>6, <1>7, <1>8, <1>9, <1>10,
       <1>11, <1>12, <1>13, <1>14, <1>15, NextCases

(***************************************************************************)
(* Types, and what each end is doing.                                      *)
(***************************************************************************)
LEMMA FrameType ==
    ASSUME TypeOK, request /= NoRequest, NEW type \in FrameTypes
    PROVE  /\ [type |-> type, call |-> request.call] \in [type : FrameTypes, call : 1 .. MaxCalls]
           /\ Append(toClient, [type |-> type, call |-> request.call])
                 \in Seq([type : FrameTypes, call : 1 .. MaxCalls])
  <1>1. [type |-> type, call |-> request.call] \in [type : FrameTypes, call : 1 .. MaxCalls]
    BY RequestShape
  <1> QED BY <1>1, AppendProperties DEF TypeOK

(* Every step keeps the types.                                             *)
LEMMA TypeStep ==
    ASSUME TypeOK, OrderInv, RoleInv, [Next]_vars
    PROVE  TypeOK'
  <1>a. Active => ThisCall \in 1 .. MaxCalls
    BY DEF RoleInv, OrderInv, ThisCall, TypeOK
  <1>b. toClient /= <<>> => Tail(toClient) \in Seq([type : FrameTypes, call : 1 .. MaxCalls])
    BY HeadTailProperties DEF TypeOK
  <1>c. ASSUME request /= NoRequest, NEW type \in FrameTypes, NEW next, Send(type, next)
        PROVE  toClient' \in Seq([type : FrameTypes, call : 1 .. MaxCalls])
               /\ server' \in {next, "closed"}
    BY <1>c, FrameType DEF Send, TypeOK
  <1> USE DEF serverVars, historyVars
  <1>1. ASSUME NEW op \in {"exec", "get"}, NEW ws \in Workspaces, NEW bad \in BOOLEAN,
               NEW fd \in BOOLEAN, Call(op, ws, bad, fd)
        PROVE  TypeOK'
    BY <1>1, CallAppends DEF Call, TypeOK
  <1>2. CASE ExecEvent
    BY <1>2, <1>a, <1>b DEF ExecEvent, Take, EndCall, Active, TypeOK
  <1>3. CASE FetchReply
    BY <1>3, <1>a, <1>b DEF FetchReply, Take, EndCall, Active, TypeOK
  <1>4. CASE FetchEof
    BY <1>4, <1>a, <1>b DEF FetchEof, Take, EndCall, Active, TypeOK
  <1>5. CASE ServerGone
    BY <1>5 DEF ServerGone, TypeOK
  <1>6. CASE Hangup
    BY <1>6 DEF Hangup, TypeOK
  <1>7. CASE NextRequest
    <2>1. request' \in Requests /\ toServer' \in Seq(Requests) /\ request' = Head(toServer)
      BY <1>7, TakesRequest
    <2>2. Head(toServer).call \in 1 .. MaxCalls
      BY <2>1 DEF Requests
    <2>3. 0 \in 0 .. MaxChunks
      BY SessionAssumption
    <2>4. stdins' \subseteq 1 .. MaxCalls
      BY <1>7, <2>2 DEF NextRequest, TypeOK
    <2> QED BY <1>7, <2>1, <2>3, <2>4 DEF NextRequest, TypeOK
  <1>8. CASE RefuseExec
    BY <1>8, <1>c DEF RefuseExec, FrameTypes, TypeOK
  <1>9. CASE ExecOutput
    <2>1. chunks' \in 0 .. MaxChunks
      BY <1>9, SessionAssumption DEF ExecOutput, TypeOK
    <2> QED BY <1>9, <1>c, <2>1 DEF ExecOutput, FrameTypes, RoleInv, TypeOK
  <1>10. ASSUME NEW type \in {"exit", "error"}, ExecOver(type)
        PROVE  TypeOK'
    <2>1. session' \in (Accepted \cap Resolvable) \cup {NoWs}
      BY <1>10 DEF ExecOver, Remember, RoleInv, TypeOK
    <2>2. stdins' \subseteq 1 .. MaxCalls
      BY <1>10 DEF ExecOver, StdinClosed, TypeOK
    <2>3. /\ toClient' \in Seq([type : FrameTypes, call : 1 .. MaxCalls])
          /\ server' \in {"recv", "closed"}
      BY <1>10, <1>c DEF ExecOver, FrameTypes, RoleInv
    <2> QED BY <1>10, <2>1, <2>2, <2>3 DEF ExecOver, TypeOK
  <1>11. CASE RefuseGet
    BY <1>11, <1>c DEF RefuseGet, FrameTypes, TypeOK
  <1>12. CASE HandFile
    <2>1. request /= NoRequest /\ request.call \in 1 .. MaxCalls /\ request.ws \in Workspaces
      BY <1>12, RequestShape DEF HandFile, Requests
    <2>2. handed' \subseteq [call : 1 .. MaxCalls, ws : Workspaces]
      BY <1>12, <2>1 DEF HandFile, TypeOK
    <2>3. toClient' \in Seq([type : FrameTypes, call : 1 .. MaxCalls])
      BY <1>12, <2>1, FrameType DEF HandFile, FrameTypes, TypeOK
    <2> QED BY <1>12, <2>2, <2>3 DEF HandFile, TypeOK
  <1>13. CASE SendEof
    BY <1>13, <1>c DEF SendEof, FrameTypes, RoleInv, TypeOK
  <1>14. CASE ClientGone
    BY <1>14 DEF ClientGone, TypeOK
  <1>15. CASE UNCHANGED vars
    BY <1>15 DEF vars, TypeOK
  <1> QED
    BY <1>1, <1>2, <1>3, <1>4, <1>5, <1>6, <1>7, <1>8, <1>9, <1>10,
       <1>11, <1>12, <1>13, <1>14, <1>15, NextCases

(* Every step keeps what each end is doing in line with its request.       *)
LEMMA RoleStep ==
    ASSUME TypeOK, OrderInv, RoleInv, [Next]_vars
    PROVE  RoleInv'
  <1>a. Active => ThisCall \in 1 .. MaxCalls
    BY DEF RoleInv, OrderInv, ThisCall, TypeOK
  <1>b. ASSUME Active, UNCHANGED <<server, request, log>>, client' \in {"idle", "closed"},
               NEW r, answer' = [answer EXCEPT ![ThisCall] = r]
        PROVE  RoleInv'
    <2>1. \A n \in Len(log) + 1 .. MaxCalls : n /= ThisCall /\ n \in 1 .. MaxCalls
      BY TakenType DEF ThisCall
    <2>2. \A n \in Len(log) + 1 .. MaxCalls : answer'[n] = answer[n]
      BY <1>b, <2>1 DEF TypeOK
    <2>3. ~Active'
      BY <1>b DEF Active
    <2> QED BY <1>b, <2>2, <2>3 DEF RoleInv, ThisCall
  <1>c. ASSUME UNCHANGED <<server, request, log, answer>>,
               client' = client \/ (client' = "eof" /\ client = "fetch")
        PROVE  RoleInv'
    BY <1>c DEF RoleInv, Active, ThisCall
  <1>d. ASSUME NEW s, EndCall(s)
        PROVE  \E r : answer' = [answer EXCEPT ![ThisCall] = r] /\ client' \in {"idle", "closed"}
    BY <1>d DEF EndCall
  <1> USE DEF serverVars, historyVars, RoleInv
  <1>1. ASSUME NEW op \in {"exec", "get"}, NEW ws \in Workspaces, NEW bad \in BOOLEAN,
               NEW fd \in BOOLEAN, Call(op, ws, bad, fd)
        PROVE  RoleInv'
    <2>1. PICK N \in Nat : N = Len(log)
      BY TakenType
    <2>2. /\ Len(log') = N + 1 /\ log'[N + 1].op = op
          /\ N < MaxCalls /\ client' = IF op = "exec" THEN "exec" ELSE "fetch"
          /\ UNCHANGED <<server, request, answer>>
      BY <1>1, <2>1, CallAppends DEF Call, ThisCall
    <2>3. answer[N + 1] = "none" /\ N + 1 >= 1
      BY <2>1, <2>2, SessionAssumption
    <2>4. \A n \in N + 1 + 1 .. MaxCalls : answer[n] = "none"
      BY <2>1
    <2>5. ThisCall' = N + 1
      BY <2>2 DEF ThisCall
    <2> QED BY <2>2, <2>3, <2>4, <2>5 DEF Active
  <1>2. CASE ExecEvent
    <2>1. Active /\ UNCHANGED <<server, request, log>>
      BY <1>2 DEF ExecEvent, Active
    <2>2. \/ \E r : answer' = [answer EXCEPT ![ThisCall] = r] /\ client' \in {"idle", "closed"}
          \/ UNCHANGED answer /\ (client' = client \/ (client' = "eof" /\ client = "fetch"))
      <3>1. PICK type : type = Head(toClient).type
        OBVIOUS
      <3>2. UNCHANGED <<client, answer>> \/ EndCall(type) \/ EndCall("err")
        BY <1>2, <3>1 DEF ExecEvent
      <3>3. CASE EndCall(type)
        BY <3>3 DEF EndCall
      <3>4. CASE EndCall("err")
        BY <3>4 DEF EndCall
      <3>5. CASE UNCHANGED <<client, answer>>
        BY <3>5
      <3> QED BY <3>2, <3>3, <3>4, <3>5
    <2> QED BY <1>b, <1>c, <2>1, <2>2
  <1>3. CASE FetchReply
    <2>1. Active /\ UNCHANGED <<server, request, log>>
      BY <1>3 DEF FetchReply, Active
    <2>2. \/ \E r : answer' = [answer EXCEPT ![ThisCall] = r] /\ client' \in {"idle", "closed"}
          \/ UNCHANGED answer /\ (client' = client \/ (client' = "eof" /\ client = "fetch"))
      BY <1>3, <1>d DEF FetchReply
    <2> QED BY <1>b, <1>c, <2>1, <2>2
  <1>4. CASE FetchEof
    <2>1. Active /\ UNCHANGED <<server, request, log>>
      BY <1>4 DEF FetchEof, Active
    <2>2. \/ \E r : answer' = [answer EXCEPT ![ThisCall] = r] /\ client' \in {"idle", "closed"}
          \/ UNCHANGED answer /\ (client' = client \/ (client' = "eof" /\ client = "fetch"))
      BY <1>4, <1>d DEF FetchEof
    <2> QED BY <1>b, <1>c, <2>1, <2>2
  <1>5. CASE ServerGone
    BY <1>5, <1>a, TakenType DEF ServerGone, Active, ThisCall, TypeOK
  <1>6. CASE Hangup
    BY <1>6 DEF Hangup, Active, ThisCall
  <1>7. CASE NextRequest
    <2>1. request' = Head(toServer) /\ request' /= NoRequest
      BY <1>7, TakesRequest
    <2> QED BY <1>7, <2>1 DEF NextRequest, Active, ThisCall
  <1>8. CASE RefuseExec
    BY <1>8 DEF RefuseExec, Send, Active, ThisCall
  <1>9. CASE ExecOutput
    BY <1>9 DEF ExecOutput, Send, Active, ThisCall
  <1>10. ASSUME NEW type \in {"exit", "error"}, ExecOver(type)
        PROVE  RoleInv'
    BY <1>10 DEF ExecOver, Send, Active, ThisCall
  <1>11. CASE RefuseGet
    BY <1>11 DEF RefuseGet, Send, Active, ThisCall
  <1>12. CASE HandFile
    BY <1>12 DEF HandFile, Send, Active, ThisCall
  <1>13. CASE SendEof
    BY <1>13 DEF SendEof, Send, Active, ThisCall
  <1>14. CASE ClientGone
    BY <1>14 DEF ClientGone, Send, Active, ThisCall
  <1>15. CASE UNCHANGED vars
    BY <1>15 DEF vars, Send, Active, ThisCall
  <1> QED
    BY <1>1, <1>2, <1>3, <1>4, <1>5, <1>6, <1>7, <1>8, <1>9, <1>10,
       <1>11, <1>12, <1>13, <1>14, <1>15, NextCases

(***************************************************************************)
(* Files come from the latest workspace.                                   *)
(***************************************************************************)

(* The calls before n do not change when the log grows.                    *)
LEMMA LatestKept ==
    ASSUME NEW n \in Int, NEW ws, Len(log) \in Nat, n <= Len(log) + 1,
           \A m \in 1 .. Len(log) : log'[m] = log[m], LatestExec(n, ws)
    PROVE  LatestExec(n, ws)'
  <1>1. PICK m \in 1 .. n - 1 :
            /\ log[m].op = "exec" /\ log[m].ws = ws /\ ws \in Usable
            /\ \A k \in m + 1 .. n - 1 : log[k].op = "exec" /\ log[k].ws \in Usable => log[k].ws = ws
    BY DEF LatestExec
  <1>2. \A k \in m .. n - 1 : log'[k] = log[k]
    OBVIOUS
  <1>3. log'[m] = log[m] /\ \A k \in m + 1 .. n - 1 : log'[k] = log[k]
    BY <1>2
  <1>4. Usable' = Usable
    BY DEF Usable
  <1> QED BY <1>1, <1>3, <1>4 DEF LatestExec

(* A call that is no usable exec request leaves the latest one the latest. *)
LEMMA LatestStays ==
    ASSUME NEW n \in Nat \ {0}, NEW ws, LatestExec(n, ws),
           ~(log[n].op = "exec" /\ log[n].ws \in Usable)
    PROVE  LatestExec(n + 1, ws)
  <1>1. PICK m \in 1 .. n - 1 :
            /\ log[m].op = "exec" /\ log[m].ws = ws /\ ws \in Usable
            /\ \A k \in m + 1 .. n - 1 : log[k].op = "exec" /\ log[k].ws \in Usable => log[k].ws = ws
    BY DEF LatestExec
  <1>2. m \in 1 .. (n + 1) - 1
    OBVIOUS
  <1>3. ASSUME NEW k \in m + 1 .. (n + 1) - 1, log[k].op = "exec", log[k].ws \in Usable
        PROVE  log[k].ws = ws
    <2>1. k /= n
      BY <1>3
    <2>2. k \in m + 1 .. n - 1
      BY <2>1
    <2> QED BY <1>1, <1>3, <2>2
  <1> QED BY <1>1, <1>2, <1>3 DEF LatestExec

(* The request in the server's hands is the one after those it has done    *)
(* with, as the client made it.                                            *)
LEMMA HandledType ==
    ASSUME TypeOK, OrderInv
    PROVE  /\ Handled \in Nat /\ Handled <= Len(log)
           /\ request /= NoRequest => /\ Taken \in 1 .. Len(log) /\ Taken = Handled + 1
                                      /\ request.call = Taken
                                      /\ request.op = log[Taken].op /\ request.ws = log[Taken].ws
                                      /\ request.fd = log[Taken].fd /\ request.bad = log[Taken].bad
  <1>1. Taken \in Int /\ Taken <= Len(log) /\ Taken >= 0
    BY TakenType DEF Taken, OrderInv
  <1>2. request /= NoRequest => Taken >= 1 /\ request = RequestOf(Taken)
    BY DEF OrderInv
  <1> QED BY <1>1, <1>2, TakenType DEF Handled, RequestOf

(* The server is done with a request that was no usable exec.              *)
LEMMA FileDone ==
    ASSUME TypeOK, OrderInv, FileInv, request /= NoRequest, server /= "closed",
           ~(request.op = "exec" /\ request.ws \in Usable),
           UNCHANGED <<log, toServer, session, handed>>, request' = NoRequest
    PROVE  FileInv'
  <1>1. PICK n \in Nat \ {0} : n = Taken
    BY HandledType, TakenType
  <1>2. /\ Handled = n - 1 /\ Handled' = n /\ Handled \in Nat
        /\ ~(log[n].op = "exec" /\ log[n].ws \in Usable)
    BY <1>1, HandledType DEF Handled, Taken
  <1>3. Usable' = Usable /\ \A k, ws : LatestExec(k, ws)' <=> LatestExec(k, ws)
    BY DEF Usable, LatestExec
  <1>4. CASE session = NoWs
    <2>1. \A m \in 1 .. n - 1 : ~(log[m].op = "exec" /\ log[m].ws \in Usable)
      BY <1>2, <1>4 DEF FileInv
    <2>2. \A m \in 1 .. n : ~(log[m].op = "exec" /\ log[m].ws \in Usable)
      BY <1>2, <2>1
    <2> QED BY <1>2, <1>3, <1>4, <2>2 DEF FileInv
  <1>5. CASE session /= NoWs
    <2>1. LatestExec(n, session)
      BY <1>2, <1>5 DEF FileInv
    <2>2. LatestExec(n + 1, session)
      BY <1>2, <2>1, LatestStays
    <2>3. LatestExec(n + 1, session)'
      BY <2>2 DEF LatestExec, Usable
    <2>4. LatestExec(Handled + 1, session)'
      BY <1>2, <2>3 DEF LatestExec
    <2> QED BY <1>5, <2>4 DEF FileInv
  <1> QED BY <1>4, <1>5

(* Every step keeps the workspace the server remembers the latest one.     *)
LEMMA FileStep ==
    ASSUME TypeOK, OrderInv, RoleInv, FileInv, FileFromLatest, [Next]_vars
    PROVE  FileInv' /\ FileFromLatest'
  <1>a. ASSUME UNCHANGED <<log, handed>> PROVE FileFromLatest'
    BY <1>a DEF FileFromLatest, LatestExec, Usable
  <1>b. ASSUME UNCHANGED <<log, handed, session>>, Handled' = Handled,
               server' /= "closed" => server /= "closed"
        PROVE  FileInv' /\ FileFromLatest'
    <2>1. Usable' = Usable /\ \A k, ws : LatestExec(k, ws)' <=> LatestExec(k, ws)
      BY <1>b DEF Usable, LatestExec
    <2>2. LatestExec(Handled + 1, session)' <=> LatestExec(Handled + 1, session)
      BY <1>b DEF Usable, LatestExec
    <2> QED BY <1>a, <1>b, <2>1, <2>2 DEF FileInv
  <1>c. ASSUME UNCHANGED <<log, handed, session, server, request, toServer>>
        PROVE  FileInv' /\ FileFromLatest'
    BY <1>b, <1>c DEF Handled, Taken
  <1>d. ASSUME NEW type, NEW next, Send(type, next), next /= "closed"
        PROVE  server' /= "closed" => client /= "closed"
    BY <1>d DEF Send
  <1> USE DEF serverVars, historyVars
  <1>1. ASSUME NEW op \in {"exec", "get"}, NEW ws \in Workspaces, NEW bad \in BOOLEAN,
               NEW fd \in BOOLEAN, Call(op, ws, bad, fd)
        PROVE  FileInv' /\ FileFromLatest'
    <2>1. PICK N \in Nat : N = Len(log)
      BY TakenType
    <2>2. /\ \A n \in 1 .. N : log'[n] = log[n]
          /\ Handled' = Handled /\ Len(log') = N + 1
          /\ UNCHANGED <<handed, session, server>>
      BY <1>1, <2>1, CallAppends DEF Call
    <2>3. ASSUME NEW n \in Int, NEW ws1, n <= N + 1, LatestExec(n, ws1)
          PROVE  LatestExec(n, ws1)'
      BY <2>1, <2>2, <2>3, LatestKept
    <2>4. FileFromLatest'
      <3> SUFFICES ASSUME NEW h \in handed PROVE LatestExec(h.call, h.ws)'
        BY <2>2 DEF FileFromLatest
      <3>1. h.call \in Int /\ h.call <= N + 1
        BY <2>1 DEF FileInv
      <3>2. LatestExec(h.call, h.ws)
        BY DEF FileFromLatest
      <3> QED BY <2>3, <3>1, <3>2
    <2>5. \A h \in handed' : h.call \in 1 .. Len(log')
      BY <2>1, <2>2 DEF FileInv
    <2>6. PICK H \in Nat : H = Handled /\ H <= N
      BY <2>1, HandledType
    <2>7. CASE server /= "closed" /\ session = NoWs
      <3>1. \A m \in 1 .. H : ~(log[m].op = "exec" /\ log[m].ws \in Usable)
        BY <2>6, <2>7 DEF FileInv
      <3>2. \A m \in 1 .. H : ~(log'[m].op = "exec" /\ log'[m].ws \in Usable')
        BY <2>2, <2>6, <3>1 DEF Usable
      <3> QED BY <2>2, <2>4, <2>5, <2>6, <2>7, <3>2 DEF FileInv
    <2>8. CASE server /= "closed" /\ session /= NoWs
      <3>1. LatestExec(H + 1, session)
        BY <2>6, <2>8 DEF FileInv
      <3>2. PICK w : w = session
        OBVIOUS
      <3>3. LatestExec(H + 1, w)'
        BY <2>3, <2>6, <3>1, <3>2
      <3>4. LatestExec(Handled + 1, session)'
        BY <2>2, <2>6, <3>2, <3>3 DEF LatestExec
      <3> QED BY <2>2, <2>4, <2>5, <2>8, <3>4 DEF FileInv
    <2>9. CASE server = "closed"
      BY <2>2, <2>4, <2>5, <2>9 DEF FileInv
    <2> QED BY <2>7, <2>8, <2>9
  <1>2. CASE ExecEvent
    BY <1>2, <1>c DEF ExecEvent
  <1>3. CASE FetchReply
    BY <1>3, <1>c DEF FetchReply
  <1>4. CASE FetchEof
    BY <1>4, <1>c DEF FetchEof
  <1>5. CASE ServerGone
    BY <1>5, <1>c DEF ServerGone
  <1>6. CASE Hangup
    BY <1>6, <1>c DEF Hangup
  <1>7. CASE NextRequest
    <2>1. Handled' = Handled
      BY <1>7, TakesRequest
    <2> QED BY <1>7, <1>b, <2>1 DEF NextRequest
  <1>8. CASE RefuseExec
    <2>1. /\ request /= NoRequest /\ server /= "closed"
          /\ ~(request.op = "exec" /\ request.ws \in Usable)
          /\ UNCHANGED <<log, toServer, session, handed>> /\ request' = NoRequest
      BY <1>8 DEF RefuseExec, RoleInv, Usable
    <2> QED BY <1>a, <2>1, FileDone
  <1>9. CASE ExecOutput
    <2>1. UNCHANGED <<log, handed, session, request, toServer>> /\ server = "exec"
      BY <1>9 DEF ExecOutput
    <2> QED BY <1>b, <2>1 DEF Handled, Taken
  <1>10. ASSUME NEW type \in {"exit", "error"}, ExecOver(type)
        PROVE  FileInv' /\ FileFromLatest'
    <2>1. /\ request /= NoRequest /\ server = "exec" /\ request.op = "exec" /\ request.ws \in Accepted
          /\ UNCHANGED <<log, toServer, handed>> /\ request' = NoRequest
          /\ session' = IF client /= "closed" THEN Remember ELSE session
          /\ server' /= "closed" => client /= "closed"
      BY <1>10, <1>d DEF ExecOver, RoleInv
    <2>2. CASE request.ws \notin Resolvable
      BY <1>a, <2>1, <2>2, FileDone DEF Remember, Usable
    <2>3. CASE server' = "closed"
      BY <1>a, <2>1, <2>3 DEF FileInv
    <2>4. CASE server' /= "closed" /\ request.ws \in Resolvable
      <3>1. PICK n \in Nat \ {0} : n = Taken
        BY <2>1, HandledType, TakenType
      <3>2. /\ Handled' = n /\ log[n].op = "exec" /\ log[n].ws = request.ws /\ request.ws \in Usable
            /\ session' = request.ws
        BY <2>1, <2>4, <3>1, HandledType DEF Handled, Taken, Usable, Remember
      <3>3. n \in 1 .. (n + 1) - 1 /\ \A k \in n + 1 .. (n + 1) - 1 : FALSE
        OBVIOUS
      <3>4. LatestExec(Handled + 1, session)'
        BY <2>1, <3>2, <3>3 DEF LatestExec, Usable
      <3>5. session' /= NoWs
        BY <3>2, SessionAssumption DEF Usable
      <3> QED BY <1>a, <2>1, <3>4, <3>5 DEF FileInv
    <2> QED BY <2>2, <2>3, <2>4
  <1>11. CASE RefuseGet
    <2>1. /\ request /= NoRequest /\ server /= "closed"
          /\ ~(request.op = "exec" /\ request.ws \in Usable)
          /\ UNCHANGED <<log, toServer, session, handed>> /\ request' = NoRequest
      BY <1>11 DEF RefuseGet, Usable
    <2> QED BY <1>a, <2>1, FileDone
  <1>12. CASE HandFile
    <2>1. /\ request /= NoRequest /\ server = "recv" /\ request.ws = session /\ request.ws \in Workspaces
          /\ UNCHANGED <<log, toServer, session, request>>
          /\ handed' \in {handed, handed \cup {[call |-> request.call, ws |-> request.ws]}}
      BY <1>12, RequestShape DEF HandFile, Requests
    <2>2. session /= NoWs
      BY <2>1, SessionAssumption
    <2>3. request.call = Handled + 1 /\ request.call \in 1 .. Len(log)
      BY <2>1, HandledType
    <2>4. LatestExec(request.call, request.ws)
      BY <2>1, <2>2, <2>3 DEF FileInv
    <2>5. Handled' = Handled /\ \A k, ws : LatestExec(k, ws)' <=> LatestExec(k, ws)
      BY <2>1 DEF Handled, Taken, LatestExec, Usable
    <2>6. LatestExec(Handled + 1, session)'
      BY <2>1, <2>3, <2>4, <2>5 DEF LatestExec, Usable
    <2>7. FileInv'
      BY <2>1, <2>2, <2>3, <2>6 DEF FileInv
    <2>8. \A h \in handed' : LatestExec(h.call, h.ws)
      BY <2>1, <2>4 DEF FileFromLatest
    <2>9. FileFromLatest'
      BY <2>5, <2>8 DEF FileFromLatest
    <2> QED BY <2>7, <2>9
  <1>13. CASE SendEof
    <2>1. /\ request /= NoRequest /\ server /= "closed"
          /\ ~(request.op = "exec" /\ request.ws \in Usable)
          /\ UNCHANGED <<log, toServer, session, handed>> /\ request' = NoRequest
      BY <1>13 DEF SendEof, RoleInv
    <2> QED BY <1>a, <2>1, FileDone
  <1>14. CASE ClientGone
    BY <1>14, <1>b DEF ClientGone, Handled, Taken
  <1>15. CASE UNCHANGED vars
    BY <1>15, <1>c DEF vars
  <1> QED
    BY <1>1, <1>2, <1>3, <1>4, <1>5, <1>6, <1>7, <1>8, <1>9, <1>10,
       <1>11, <1>12, <1>13, <1>14, <1>15, NextCases

(***************************************************************************)
(* Descriptors do not pile up.                                             *)
(***************************************************************************)

(* The server is done with its request, or stays with it.                  *)
LEMMA StdinKeeps ==
    ASSUME StdinInv, NoStdinLeft, UNCHANGED <<log, toServer>>, stdins' \subseteq stdins,
           \/ UNCHANGED request /\ (server' = server \/ server \notin {"exec", "recv"})
           \/ \A n \in stdins' : request /= NoRequest /\ request.call = n
                                   => log[n].bad \/ log[n].ws \notin Accepted
    PROVE  StdinInv' /\ NoStdinLeft'
  <1>1. StdinInv'
    BY DEF StdinInv, Taken
  <1>2. ASSUME NEW n \in stdins' PROVE \/ log[n].bad \/ log[n].ws \notin Accepted
                                      \/ /\ server' \in {"exec", "recv"} /\ request' /= NoRequest
                                         /\ request'.call = n
    <2>1. n \in stdins
      BY <1>2
    <2>2. \/ log[n].bad \/ log[n].ws \notin Accepted
          \/ server \in {"exec", "recv"} /\ request /= NoRequest /\ request.call = n
      BY <2>1 DEF NoStdinLeft
    <2>3. CASE log[n].bad \/ log[n].ws \notin Accepted
      BY <2>3
    <2>4. CASE /\ server \in {"exec", "recv"} /\ request /= NoRequest /\ request.call = n
               /\ ~(log[n].bad \/ log[n].ws \notin Accepted)
      <3>1. UNCHANGED request /\ server' = server
        BY <1>2, <2>4
      <3> QED BY <2>4, <3>1
    <2> QED BY <2>2, <2>3, <2>4
  <1> QED BY <1>1, <1>2 DEF NoStdinLeft

(* Every step keeps track of the descriptors.                              *)
LEMMA StdinStep ==
    ASSUME TypeOK, OrderInv, RoleInv, StdinInv, NoStdinLeft, [Next]_vars
    PROVE  StdinInv' /\ NoStdinLeft'
  <1> USE DEF serverVars, historyVars
  <1>1. ASSUME NEW op \in {"exec", "get"}, NEW ws \in Workspaces, NEW bad \in BOOLEAN,
               NEW fd \in BOOLEAN, Call(op, ws, bad, fd)
        PROVE  StdinInv' /\ NoStdinLeft'
    <2>1. PICK N \in Nat : N = Len(log)
      BY TakenType
    <2>2. /\ \A n \in 1 .. N : log'[n] = log[n]
          /\ Taken' = Taken /\ Taken <= N
          /\ UNCHANGED <<stdins, server, request>>
      BY <1>1, <2>1, CallAppends, TakenType DEF Call, Taken
    <2>3. \A n \in stdins : n \in 1 .. N /\ n \in 1 .. Taken
      BY <2>1, <2>2, TakenType DEF StdinInv
    <2>4. \A n \in stdins : log'[n] = log[n]
      BY <2>2, <2>3
    <2> QED BY <2>2, <2>3, <2>4 DEF StdinInv, NoStdinLeft
  <1>2. CASE ExecEvent
    BY <1>2, StdinKeeps DEF ExecEvent
  <1>3. CASE FetchReply
    BY <1>3, StdinKeeps DEF FetchReply
  <1>4. CASE FetchEof
    BY <1>4, StdinKeeps DEF FetchEof
  <1>5. CASE ServerGone
    BY <1>5, StdinKeeps DEF ServerGone
  <1>6. CASE Hangup
    BY <1>6, StdinKeeps DEF Hangup
  <1>7. CASE NextRequest
    <2>1. /\ request = NoRequest /\ request' /= NoRequest /\ request' = RequestOf(Taken + 1)
          /\ Taken' = Taken + 1 /\ log' = log /\ Taken + 1 \in 1 .. Len(log)
          /\ request' = Head(toServer)
      BY <1>7, TakesRequest
    <2>2. PICK k \in Nat : k = Taken + 1
      BY <2>1, TakenType
    <2>3. /\ request'.call = k /\ request'.fd = log[k].fd /\ request'.bad = log[k].bad
          /\ k \in 1 .. Taken' /\ k \in 1 .. Len(log)
      BY <2>1, <2>2 DEF RequestOf
    <2>4. /\ stdins' \subseteq stdins \cup {k}
          /\ k \in stdins' => k \in stdins \/ log[k].fd
          /\ server' = "closed" => log[k].bad
          /\ server' \in {"closed", "exec", "recv"}
      BY <1>7, <2>1, <2>3 DEF NextRequest
    <2>5. k \notin stdins
      BY <2>2, TakenType DEF StdinInv
    <2>6. k \in stdins' => log[k].op = "exec"
      BY <2>3, <2>4, <2>5 DEF OrderInv
    <2>7. \A n \in stdins : n \in 1 .. Taken' /\ (log[n].bad \/ log[n].ws \notin Accepted)
      BY <2>1, TakenType DEF StdinInv, NoStdinLeft
    <2> QED BY <2>1, <2>3, <2>4, <2>6, <2>7 DEF StdinInv, NoStdinLeft
  <1>8. CASE RefuseExec
    <2>1. /\ request /= NoRequest /\ request.ws \notin Accepted
          /\ UNCHANGED <<log, toServer, stdins>>
      BY <1>8 DEF RefuseExec, RoleInv
    <2> QED BY <2>1, StdinKeeps, HandledType
  <1>9. CASE ExecOutput
    <2>1. UNCHANGED <<log, toServer, stdins, request, server>>
      BY <1>9 DEF ExecOutput, Send
    <2> QED BY <2>1, StdinKeeps
  <1>10. ASSUME NEW type \in {"exit", "error"}, ExecOver(type)
        PROVE  StdinInv' /\ NoStdinLeft'
    <2>1. UNCHANGED <<log, toServer>> /\ stdins' = stdins \ {request.call}
      BY <1>10 DEF ExecOver, StdinClosed
    <2> QED BY <2>1, StdinKeeps
  <1>11. CASE RefuseGet
    <2>1. request /= NoRequest /\ request.op = "get" /\ UNCHANGED <<log, toServer, stdins>>
      BY <1>11 DEF RefuseGet
    <2>2. request.call \notin stdins
      BY <2>1, HandledType DEF StdinInv
    <2> QED BY <2>1, <2>2, StdinKeeps
  <1>12. CASE HandFile
    <2>1. request /= NoRequest /\ request.op = "get" /\ UNCHANGED <<log, toServer, stdins>>
      BY <1>12 DEF HandFile
    <2>2. request.call \notin stdins
      BY <2>1, HandledType DEF StdinInv
    <2> QED BY <2>1, <2>2, StdinKeeps
  <1>13. CASE SendEof
    <2>1. /\ server = "eof" /\ UNCHANGED <<log, toServer, stdins>> /\ request.op = "get"
          /\ request /= NoRequest
      BY <1>13 DEF SendEof, RoleInv
    <2>2. request.call \notin stdins
      BY <2>1, HandledType DEF StdinInv
    <2> QED BY <2>1, <2>2, StdinKeeps
  <1>14. CASE ClientGone
    <2>1. UNCHANGED <<log, toServer, stdins>> /\ request = NoRequest
      BY <1>14 DEF ClientGone
    <2> QED BY <2>1, StdinKeeps
  <1>15. CASE UNCHANGED vars
    BY <1>15, StdinKeeps DEF vars
  <1> QED
    BY <1>1, <1>2, <1>3, <1>4, <1>5, <1>6, <1>7, <1>8, <1>9, <1>10,
       <1>11, <1>12, <1>13, <1>14, <1>15, NextCases

(***************************************************************************)
(* Frames reach the call they were sent for.                               *)
(***************************************************************************)

(* The calls made so far do not change, and an answer that was an error    *)
(* stays one.                                                              *)
LEMMA PastKept ==
    ASSUME TypeOK, OrderInv, RoleInv, [Next]_vars
    PROVE  /\ Len(log') \in Nat /\ Len(log) <= Len(log')
           /\ \A m \in 1 .. Len(log) : log'[m] = log[m] /\ (answer[m] = "err" => answer'[m] = "err")
  <1> DEFINE Goal == /\ Len(log') \in Nat /\ Len(log) <= Len(log')
                     /\ \A m \in 1 .. Len(log) :
                           log'[m] = log[m] /\ (answer[m] = "err" => answer'[m] = "err")
  <1>a. Len(log) \in Nat /\ Len(log) <= MaxCalls /\ MaxCalls \in Nat
    BY TakenType, SessionAssumption DEF OrderInv
  <1>b. ASSUME UNCHANGED <<log, answer>> PROVE Goal
    BY <1>a, <1>b
  <1>c. ASSUME UNCHANGED log, Active, NEW r, answer' = [answer EXCEPT ![ThisCall] = r] PROVE Goal
    <2>1. answer[ThisCall] = "none"
      BY <1>c DEF RoleInv
    <2>2. \A m \in 1 .. Len(log) : m \in 1 .. MaxCalls
      BY <1>a
    <2>3. \A m \in 1 .. Len(log) : answer[m] = "err" => answer'[m] = "err"
      BY <1>c, <2>1, <2>2 DEF TypeOK
    <2> QED BY <1>a, <1>c, <2>3
  <1> HIDE DEF Goal
  <1> USE DEF serverVars, historyVars
  <1>1. ASSUME NEW op \in {"exec", "get"}, NEW ws \in Workspaces, NEW bad \in BOOLEAN,
               NEW fd \in BOOLEAN, Call(op, ws, bad, fd)
        PROVE  Goal
    <2>1. PICK N \in Nat : N = Len(log)
      BY TakenType
    <2>2. Len(log') = N + 1 /\ (\A n \in 1 .. N : log'[n] = log[n]) /\ UNCHANGED answer
      BY <1>1, <2>1, CallAppends DEF Call
    <2> QED BY <2>1, <2>2 DEF Goal
  <1>2. CASE ExecEvent
    <2>1. Active /\ UNCHANGED log
      BY <1>2 DEF ExecEvent, Active
    <2>2. UNCHANGED answer \/ \E r : answer' = [answer EXCEPT ![ThisCall] = r]
      BY <1>2 DEF ExecEvent, EndCall
    <2>3. CASE UNCHANGED answer
      BY <1>b, <2>1, <2>3 DEF Goal
    <2>4. CASE \E r : answer' = [answer EXCEPT ![ThisCall] = r]
      <3>1. PICK r : answer' = [answer EXCEPT ![ThisCall] = r]
        BY <2>4
      <3> QED BY <1>c, <2>1, <3>1 DEF Goal
    <2> QED BY <2>2, <2>3, <2>4
  <1>3. CASE FetchReply
    <2>1. Active /\ UNCHANGED log
      BY <1>3 DEF FetchReply, Active
    <2>2. UNCHANGED answer \/ \E r : answer' = [answer EXCEPT ![ThisCall] = r]
      BY <1>3 DEF FetchReply, EndCall
    <2>3. CASE UNCHANGED answer
      BY <1>b, <2>1, <2>3 DEF Goal
    <2>4. CASE \E r : answer' = [answer EXCEPT ![ThisCall] = r]
      <3>1. PICK r : answer' = [answer EXCEPT ![ThisCall] = r]
        BY <2>4
      <3> QED BY <1>c, <2>1, <3>1 DEF Goal
    <2> QED BY <2>2, <2>3, <2>4
  <1>4. CASE FetchEof
    <2>1. Active /\ UNCHANGED log
      BY <1>4 DEF FetchEof, Active
    <2>2. UNCHANGED answer \/ \E r : answer' = [answer EXCEPT ![ThisCall] = r]
      BY <1>4 DEF FetchEof, EndCall
    <2>3. CASE UNCHANGED answer
      BY <1>b, <2>1, <2>3 DEF Goal
    <2>4. CASE \E r : answer' = [answer EXCEPT ![ThisCall] = r]
      <3>1. PICK r : answer' = [answer EXCEPT ![ThisCall] = r]
        BY <2>4
      <3> QED BY <1>c, <2>1, <3>1 DEF Goal
    <2> QED BY <2>2, <2>3, <2>4
  <1>5. CASE ServerGone
    <2>1. Active /\ UNCHANGED log
      BY <1>5 DEF ServerGone, Active
    <2>2. UNCHANGED answer \/ \E r : answer' = [answer EXCEPT ![ThisCall] = r]
      BY <1>5 DEF ServerGone, EndCall
    <2>3. CASE UNCHANGED answer
      BY <1>b, <2>1, <2>3 DEF Goal
    <2>4. CASE \E r : answer' = [answer EXCEPT ![ThisCall] = r]
      <3>1. PICK r : answer' = [answer EXCEPT ![ThisCall] = r]
        BY <2>4
      <3> QED BY <1>c, <2>1, <3>1 DEF Goal
    <2> QED BY <2>2, <2>3, <2>4
  <1>6. CASE Hangup
    BY <1>6, <1>b DEF Hangup
  <1>7. CASE NextRequest
    BY <1>7, <1>b DEF NextRequest
  <1>8. CASE RefuseExec
    BY <1>8, <1>b DEF RefuseExec
  <1>9. CASE ExecOutput
    BY <1>9, <1>b DEF ExecOutput
  <1>10. ASSUME NEW type \in {"exit", "error"}, ExecOver(type)
        PROVE  Goal
    BY <1>10, <1>b DEF ExecOver
  <1>11. CASE RefuseGet
    BY <1>11, <1>b DEF RefuseGet
  <1>12. CASE HandFile
    BY <1>12, <1>b DEF HandFile
  <1>13. CASE SendEof
    BY <1>13, <1>b DEF SendEof
  <1>14. CASE ClientGone
    BY <1>14, <1>b DEF ClientGone
  <1>15. CASE UNCHANGED vars
    BY <1>15, <1>b DEF vars
  <1> QED
    BY <1>1, <1>2, <1>3, <1>4, <1>5, <1>6, <1>7, <1>8, <1>9, <1>10,
       <1>11, <1>12, <1>13, <1>14, <1>15, NextCases DEF Goal

(* A fetch_file that has failed has failed for good.                       *)
LEMMA CleanBefore ==
    ASSUME TypeOK, OrderInv, RoleInv, [Next]_vars, Clean'
    PROVE  Clean
  <1>1. PICK N \in Nat : N = Len(log)
    BY TakenType
  <1>2. PICK M \in Nat : M = Len(log')
    BY PastKept
  <1>3. N <= M /\ \A m \in 1 .. N : log'[m] = log[m] /\ (answer[m] = "err" => answer'[m] = "err")
    BY <1>1, <1>2, PastKept
  <1>4. \A m \in 1 .. M : ~(log'[m].op = "get" /\ answer'[m] = "err")
    BY <1>2 DEF Clean
  <1>5. \A m \in 1 .. N : ~(log[m].op = "get" /\ answer[m] = "err")
    BY <1>3, <1>4
  <1> QED BY <1>1, <1>5 DEF Clean

(* A call that is handed a frame of another comes after a failed fetch.    *)
LEMMA TakeMixes ==
    ASSUME TypeOK, OrderInv, RoleInv, PhaseInv, Active, Take
    PROVE  /\ mixed' \subseteq mixed \cup {ThisCall}
           /\ ThisCall \in mixed' =>
                 \/ ThisCall \in mixed
                 \/ \E m \in 1 .. ThisCall - 1 : log[m].op = "get" /\ answer[m] = "err"
  <1>1. mixed' \subseteq mixed \cup {ThisCall}
    BY DEF Take
  <1>2. PICK N \in Nat : N = Len(log) /\ N = ThisCall /\ answer[N] = "none"
    BY TakenType DEF ThisCall, RoleInv
  <1>3. toClient /= <<>> /\ toClient \in Seq([type : FrameTypes, call : 1 .. MaxCalls])
    BY DEF Take, TypeOK
  <1>4. Head(toClient) = toClient[1] /\ 1 \in 1 .. Len(toClient)
    BY <1>3
  <1>5. ASSUME ThisCall \in mixed', ThisCall \notin mixed
        PROVE  \E m \in 1 .. ThisCall - 1 : log[m].op = "get" /\ answer[m] = "err"
    <2>1. toClient[1].call /= ThisCall
      BY <1>4, <1>5 DEF Take
    <2>2. ~Own
      BY <1>4, <2>1 DEF Own
    <2>3. client /= "closed"
      BY DEF Active
    <2>4. ~Clean
      BY <2>2, <2>3 DEF PhaseInv
    <2>5. PICK m \in 1 .. N : log[m].op = "get" /\ answer[m] = "err"
      BY <1>2, <2>4 DEF Clean
    <2>6. m /= N
      BY <1>2, <2>5
    <2>7. m \in 1 .. N - 1
      BY <2>6
    <2> QED BY <1>2, <2>5, <2>7
  <1> QED BY <1>1, <1>5

(* Every step leaves only such calls with frames of another.               *)
LEMMA MixedStep ==
    ASSUME TypeOK, OrderInv, RoleInv, PhaseInv, FramesOwn, [Next]_vars
    PROVE  mixed' \subseteq 1 .. Len(log') /\ FramesOwn'
  <1>1. PICK N \in Nat : N = Len(log)
    BY TakenType
  <1>2. PICK M \in Nat : M = Len(log') /\ N <= M
    BY <1>1, PastKept
  <1>3. \A m \in 1 .. N : log'[m] = log[m] /\ (answer[m] = "err" => answer'[m] = "err")
    BY <1>1, PastKept
  <1>4. \/ UNCHANGED mixed
        \/ Active /\ Take
    BY NextCases DEF Call, ExecEvent, FetchReply, FetchEof, ServerGone, Hangup, NextRequest, RefuseExec,
                     ExecOutput, ExecOver, RefuseGet, HandFile, SendEof, ClientGone, vars, historyVars, Active
  <1>5. ThisCall = N /\ (Active => N >= 1) /\ mixed \subseteq 1 .. N
    BY <1>1 DEF ThisCall, RoleInv, PhaseInv
  <1>6. \A n \in mixed' :
           n \in 1 .. N /\ \E m \in 1 .. n - 1 : log[m].op = "get" /\ answer[m] = "err"
    <2>1. CASE UNCHANGED mixed
      BY <1>5, <2>1 DEF FramesOwn
    <2>2. CASE Active /\ Take
      <3>1. /\ mixed' \subseteq mixed \cup {N}
            /\ N \in mixed' => \/ N \in mixed
                              \/ \E m \in 1 .. N - 1 : log[m].op = "get" /\ answer[m] = "err"
        BY <1>5, <2>2, TakeMixes
      <3>2. N \in 1 .. N
        BY <1>5, <2>2
      <3>3. \A n \in mixed : \E m \in 1 .. n - 1 : log[m].op = "get" /\ answer[m] = "err"
        BY DEF FramesOwn
      <3> QED BY <1>5, <3>1, <3>2, <3>3
    <2> QED BY <1>4, <2>1, <2>2
  <1>7. mixed' \subseteq 1 .. Len(log')
    BY <1>2, <1>6
  <1>8. ASSUME NEW n \in mixed'
        PROVE  \E m \in 1 .. n - 1 : log'[m].op = "get" /\ answer'[m] = "err"
    <2>1. n \in 1 .. N
      BY <1>6
    <2>2. PICK m \in 1 .. n - 1 : log[m].op = "get" /\ answer[m] = "err"
      BY <1>6
    <2>3. m \in 1 .. N
      BY <2>1
    <2> QED BY <1>3, <2>2, <2>3
  <1> QED BY <1>7, <1>8 DEF FramesOwn

(* A frame is sent after those on the socket.                              *)
LEMMA Sends ==
    ASSUME TypeOK, request /= NoRequest, NEW type \in FrameTypes,
           toClient' = Append(toClient, [type |-> type, call |-> request.call])
    PROVE  /\ Len(toClient) \in Nat /\ Len(toClient') = Len(toClient) + 1
           /\ \A i \in 1 .. Len(toClient) : toClient'[i] = toClient[i]
           /\ toClient'[Len(toClient) + 1].type = type
           /\ toClient'[Len(toClient) + 1].call = request.call
           /\ toClient' /= <<>>
  <1> DEFINE f == [type |-> type, call |-> request.call]
             F == [type : FrameTypes, call : 1 .. MaxCalls]
  <1>1. toClient \in Seq(F) /\ f \in F
    BY FrameType DEF TypeOK
  <1>2. f.type = type /\ f.call = request.call
    OBVIOUS
  <1>3. toClient' = Append(toClient, f)
    OBVIOUS
  <1> HIDE DEF f, F
  <1>4. /\ Len(toClient) \in Nat /\ Len(toClient') = Len(toClient) + 1
        /\ \A i \in 1 .. Len(toClient) : toClient'[i] = toClient[i]
        /\ toClient'[Len(toClient) + 1] = f
    BY <1>1, <1>3, AppendProperties
  <1>5. toClient' /= <<>>
    BY <1>4
  <1> QED BY <1>2, <1>4, <1>5

(* The first frame is taken.                                               *)
LEMMA Takes ==
    ASSUME TypeOK, Take
    PROVE  /\ Len(toClient) \in Nat \ {0} /\ Len(toClient') = Len(toClient) - 1
           /\ \A i \in 1 .. Len(toClient') : toClient'[i] = toClient[i + 1]
           /\ Head(toClient) = toClient[1]
           /\ toClient' = <<>> <=> Len(toClient) = 1
  <1> DEFINE F == [type : FrameTypes, call : 1 .. MaxCalls]
  <1>1. toClient \in Seq(F) /\ toClient /= <<>> /\ toClient' = Tail(toClient)
    BY DEF Take, TypeOK
  <1> HIDE DEF F
  <1>2. /\ toClient' \in Seq(F) /\ Len(toClient) \in Nat \ {0} /\ Len(toClient') = Len(toClient) - 1
        /\ \A i \in 1 .. Len(toClient') : toClient'[i] = toClient[i + 1]
        /\ Head(toClient) = toClient[1]
    BY <1>1, HeadTailProperties
  <1>3. toClient' = <<>> <=> Len(toClient') = 0
    BY <1>2, EmptySeq
  <1> QED BY <1>2, <1>3

(* With nothing left on the socket, the request is that of the latest call.*)
LEMMA RequestIsCall ==
    ASSUME TypeOK, OrderInv, request /= NoRequest, toServer = <<>>
    PROVE  request.call = ThisCall /\ request.op = log[ThisCall].op
  <1>1. Taken = ThisCall
    BY TakenType DEF Taken, ThisCall
  <1> QED BY <1>1, HandledType

(* Every step leaves the call under way in one of its phases.              *)
LEMMA PhaseStep ==
    ASSUME TypeOK, OrderInv, RoleInv, PhaseInv, [Next]_vars, client' /= "closed", Clean'
    PROVE  Own' /\ InPhase'
  <1>a. client /= "closed"
    BY NextCases DEF Call, ExecEvent, FetchReply, FetchEof, ServerGone, Hangup, NextRequest, RefuseExec,
                     ExecOutput, ExecOver, RefuseGet, HandFile, SendEof, ClientGone, vars
  <1>b. Own /\ InPhase
    BY <1>a, CleanBefore DEF PhaseInv
  <1>c. ASSUME NEW type, NEW next, Send(type, next)
        PROVE  /\ server' = next
               /\ toClient' = Append(toClient, [type |-> type, call |-> request.call])
    BY <1>a, <1>c DEF Send
  <1>d. ASSUME request /= NoRequest, toServer = <<>>, NEW type \in FrameTypes, UNCHANGED log,
               toClient' = Append(toClient, [type |-> type, call |-> request.call])
        PROVE  Own'
    <2>1. PICK k \in Nat : k = Len(toClient)
      BY <1>d, Sends
    <2>2. /\ Len(toClient') = k + 1 /\ toClient'[k + 1].call = ThisCall
          /\ \A i \in 1 .. k : toClient'[i] = toClient[i]
      BY <1>d, <2>1, Sends, RequestIsCall
    <2>3. \A i \in 1 .. k : toClient'[i].call = ThisCall
      BY <1>b, <2>1, <2>2 DEF Own
    <2>4. \A i \in 1 .. k + 1 : toClient'[i].call = ThisCall
      BY <2>2, <2>3
    <2> QED BY <1>d, <2>2, <2>4 DEF Own, ThisCall
  <1>e. ASSUME Take, UNCHANGED log PROVE Own'
    <2>1. PICK k \in Nat : k = Len(toClient')
      BY <1>e, Takes
    <2>2. /\ Len(toClient) = k + 1
          /\ \A i \in 1 .. k : toClient'[i] = toClient[i + 1]
      BY <1>e, <2>1, Takes
    <2>3. \A i \in 1 .. k : toClient[i + 1].call = ThisCall
      BY <1>b, <2>2 DEF Own
    <2> QED BY <1>e, <2>1, <2>2, <2>3 DEF Own, ThisCall
  <1>f. ASSUME NEW s, EndCall(s), UNCHANGED <<log>>, Active
        PROVE  client' = "idle" /\ (log[ThisCall].op = "get" => s /= "err")
    <2>1. client' = "idle"
      BY <1>f DEF EndCall
    <2>2. PICK N \in Nat : N = ThisCall /\ N = Len(log) /\ N \in 1 .. N /\ N \in 1 .. MaxCalls
      BY <1>f, TakenType, SessionAssumption DEF RoleInv, OrderInv, ThisCall
    <2>3. answer'[N] = s
      BY <1>f, <2>2 DEF EndCall, TypeOK
    <2>4. ~(log[N].op = "get" /\ answer'[N] = "err")
      BY <1>f, <2>2 DEF Clean
    <2> QED BY <2>1, <2>2, <2>3, <2>4
  <1>g. ASSUME toClient = <<>>, UNCHANGED toClient PROVE Own'
    BY <1>g DEF Own
  <1> USE DEF serverVars, historyVars
  <1>1. ASSUME NEW op \in {"exec", "get"}, NEW ws \in Workspaces, NEW bad \in BOOLEAN,
               NEW fd \in BOOLEAN, Call(op, ws, bad, fd)
        PROVE  Own' /\ InPhase'
    <2>1. client = "idle" /\ UNCHANGED <<server, request, toClient>>
      BY <1>1 DEF Call
    <2>2. Between
      BY <1>b, <2>1 DEF InPhase, Asked, Waiting, Running, Ran, Handing, Got
    <2>3. Len(toServer') = 1
      <3>1. Len(toServer') = Len(toServer) + 1
        BY <1>1, CallAppends
      <3> QED BY <2>2, <3>1 DEF Between
    <2>4. client' \in {"exec", "fetch"}
      BY <1>1 DEF Call
    <2>5. Asked'
      BY <2>1, <2>2, <2>3, <2>4 DEF Between, Asked, Waiting, Quiet
    <2>6. Own'
      BY <1>g, <2>1, <2>2 DEF Between
    <2> QED BY <2>5, <2>6 DEF InPhase
  <1>2. CASE ExecEvent
    <2>1. /\ client = "exec" /\ Take /\ UNCHANGED <<server, request, toServer, log>> /\ Active
          /\ toClient /= <<>>
      BY <1>2 DEF ExecEvent, Take, Active
    <2>2. PICK k \in Nat : /\ k = Len(toClient') /\ Len(toClient) = k + 1
                           /\ \A i \in 1 .. k : toClient'[i] = toClient[i + 1]
                           /\ Head(toClient) = toClient[1]
                           /\ toClient' = <<>> <=> k = 0
      BY <2>1, Takes
    <2>3. Own'
      BY <1>e, <2>1
    <2>4. toClient[1].type = "chunk" => client' = "exec"
      BY <1>2, <2>2 DEF ExecEvent
    <2>5. toClient[1].type \in {"exit", "error"} => client' = "idle"
      <3>1. PICK type : type = toClient[1].type
        OBVIOUS
      <3>2. CASE type \in {"exit", "error"}
        <4>1. EndCall(type)
          BY <1>2, <2>2, <3>1, <3>2 DEF ExecEvent
        <4> QED BY <4>1 DEF EndCall
      <3> QED BY <3>1, <3>2
    <2>6. Running \/ Ran
      BY <1>b, <2>1 DEF InPhase, Between, Asked, Waiting, Handing, Got
    <2>7. CASE Running
      <3>1. \A i \in 1 .. k + 1 : toClient[i].type = "chunk"
        BY <2>2, <2>7 DEF Running
      <3>2. 1 \in 1 .. k + 1 /\ \A i \in 1 .. k : i + 1 \in 1 .. k + 1
        OBVIOUS
      <3>3. client' = "exec" /\ \A i \in 1 .. k : toClient'[i].type = "chunk"
        BY <2>2, <2>4, <3>1, <3>2
      <3>4. Running'
        BY <2>1, <2>2, <2>7, <3>3 DEF Running
      <3> QED BY <2>3, <3>4 DEF InPhase
    <2>8. CASE Ran
      <3>1. \A i \in 1 .. k + 1 :
               toClient[i].type \in IF i < k + 1 THEN {"chunk"} ELSE {"exit", "error"}
        BY <2>2, <2>8 DEF Ran
      <3>2. CASE k = 0
        <4>1. client' = "idle" /\ toClient' = <<>>
          BY <2>2, <2>5, <3>1, <3>2
        <4>2. Between'
          BY <2>1, <2>8, <4>1 DEF Ran, Between, Quiet
        <4> QED BY <2>3, <4>2 DEF InPhase
      <3>3. CASE k > 0
        <4>1. client' = "exec" /\ toClient' /= <<>>
          BY <2>2, <2>4, <3>1, <3>3
        <4>2. \A i \in 1 .. k :
                 toClient'[i].type \in IF i < k THEN {"chunk"} ELSE {"exit", "error"}
          <5> SUFFICES ASSUME NEW i \in 1 .. k
                       PROVE  toClient'[i].type \in IF i < k THEN {"chunk"} ELSE {"exit", "error"}
            OBVIOUS
          <5>1. i + 1 \in 1 .. k + 1 /\ (i + 1 < k + 1 <=> i < k)
            OBVIOUS
          <5>2. toClient'[i] = toClient[i + 1]
            BY <2>2
          <5> QED BY <3>1, <5>1, <5>2
        <4>3. Ran'
          BY <2>1, <2>2, <2>8, <4>1, <4>2 DEF Ran, Quiet
        <4> QED BY <2>3, <4>3 DEF InPhase
      <3> QED BY <3>2, <3>3
    <2> QED BY <2>6, <2>7, <2>8
  <1>3. CASE FetchReply
    <2>1. /\ client = "fetch" /\ Take /\ UNCHANGED <<server, request, toServer, log>> /\ Active
          /\ toClient /= <<>>
      BY <1>3 DEF FetchReply, Take, Active
    <2>2. PICK k \in Nat : /\ k = Len(toClient') /\ Len(toClient) = k + 1
                           /\ \A i \in 1 .. k : toClient'[i] = toClient[i + 1]
                           /\ Head(toClient) = toClient[1]
                           /\ toClient' = <<>> <=> k = 0
      BY <2>1, Takes
    <2>3. Own'
      BY <1>e, <2>1
    <2>4. ~EndCall("err")
      BY <1>f, <2>1 DEF RoleInv
    <2>5. toClient[1].type = "file" => client' = "eof"
      BY <1>3, <2>2, <2>4 DEF FetchReply
    <2>6. toClient[1].type = "error" => client' = "idle"
      BY <1>3, <1>f, <2>1, <2>2 DEF FetchReply
    <2>7. Handing \/ Got
      BY <1>b, <2>1 DEF InPhase, Between, Asked, Waiting, Running, Ran
    <2>8. CASE Handing
      <3>1. toServer = <<>> /\ server = "eof" /\ Len(toClient) = 1 /\ toClient[1].type = "file"
        BY <2>1, <2>8 DEF Handing
      <3>2. toClient' = <<>> /\ client' = "eof"
        <4>1. k + 1 = 1
          BY <2>2, <3>1
        <4> QED BY <2>2, <2>5, <3>1, <4>1
      <3>3. Handing'
        BY <2>1, <3>1, <3>2 DEF Handing
      <3> QED BY <2>3, <3>3 DEF InPhase
    <2>9. CASE Got
      <3>1. CASE Len(toClient) = 1 /\ toClient[1].type = "error"
        <4>1. toClient' = <<>> /\ client' = "idle"
          BY <2>2, <2>6, <3>1
        <4>2. Between'
          BY <2>1, <2>9, <4>1 DEF Got, Between, Quiet
        <4> QED BY <2>3, <4>2 DEF InPhase
      <3>2. CASE Len(toClient) = 2 /\ toClient[1].type = "file" /\ toClient[2].type = "eof"
        <4>1. Len(toClient') = 1 /\ client' = "eof" /\ toClient'[1].type = "eof"
          <5>1. k + 1 = 2
            BY <2>2, <3>2
          <5>2. 1 \in 1 .. k /\ 1 + 1 = 2
            BY <5>1
          <5>3. toClient'[1] = toClient[2]
            BY <2>2, <5>2
          <5> QED BY <2>2, <2>5, <3>2, <5>1, <5>3
        <4>2. Got'
          BY <2>1, <2>9, <4>1 DEF Got, Quiet
        <4> QED BY <2>3, <4>2 DEF InPhase
      <3> QED BY <2>1, <2>9, <3>1, <3>2 DEF Got
    <2> QED BY <2>7, <2>8, <2>9
  <1>4. CASE FetchEof
    <2>1. /\ client = "eof" /\ Take /\ UNCHANGED <<server, request, toServer, log>> /\ Active
          /\ toClient /= <<>>
      BY <1>4 DEF FetchEof, Take, Active
    <2>2. PICK k \in Nat : /\ k = Len(toClient') /\ Len(toClient) = k + 1
                           /\ toClient' = <<>> <=> k = 0
      BY <2>1, Takes
    <2>3. Own'
      BY <1>e, <2>1
    <2>4. client' = "idle"
      BY <1>4 DEF FetchEof, EndCall
    <2>5. Got /\ Len(toClient) = 1
      BY <1>b, <2>1 DEF InPhase, Between, Asked, Waiting, Running, Ran, Handing, Got
    <2>6. Between'
      BY <2>1, <2>2, <2>4, <2>5 DEF Got, Between, Quiet
    <2> QED BY <2>3, <2>6 DEF InPhase
  <1>5. CASE ServerGone
    BY <1>5 DEF ServerGone
  <1>6. CASE Hangup
    BY <1>6 DEF Hangup
  <1>7. CASE NextRequest
    <2>1. /\ server = "recv" /\ request = NoRequest /\ toServer /= <<>>
          /\ UNCHANGED <<client, toClient, log>>
      BY <1>7 DEF NextRequest
    <2>2. Waiting /\ Len(toServer) = 1
      BY <1>b, <2>1 DEF InPhase, Between, Asked, Running, Ran, Handing, Got
    <2>3. /\ request' /= NoRequest /\ toServer' = <<>>
          /\ server' \in {"closed", "recv", "exec"}
          /\ server' = "exec" => Head(toServer).op = "exec"
      BY <1>7, <2>2, TakesRequest DEF NextRequest
    <2>4. server' = "exec" => client = "exec"
      <3>1. PICK k \in Nat : k = ThisCall /\ Taken + 1 = k
        BY <2>2, TakenType DEF Taken, ThisCall
      <3>2. Head(toServer).op = log[k].op
        BY <1>7, <3>1, TakesRequest DEF RequestOf
      <3> QED BY <2>2, <2>3, <3>1, <3>2 DEF Waiting, RoleInv
    <2>5. Asked' \/ Running'
      BY <2>1, <2>2, <2>3, <2>4 DEF Waiting, Asked, Running
    <2> QED BY <1>g, <2>1, <2>2, <2>5 DEF InPhase, Waiting
  <1>8. CASE RefuseExec
    <2>1. /\ server = "recv" /\ request /= NoRequest /\ request.op = "exec"
          /\ UNCHANGED <<client, toServer, log>> /\ request' = NoRequest /\ Send("error", "recv")
      BY <1>8 DEF RefuseExec
    <2>2. Waiting /\ toServer = <<>>
      BY <1>b, <2>1 DEF InPhase, Between, Asked, Running, Ran, Handing, Got, Quiet
    <2>3. client = "exec" /\ toServer' = <<>>
      BY <2>1, <2>2, RequestIsCall DEF Waiting, RoleInv
    <2>4. server' = "recv" /\ toClient' = Append(toClient, [type |-> "error", call |-> request.call])
      BY <1>c, <2>1
    <2>5. Len(toClient') = 1 /\ toClient'[1].type = "error" /\ toClient' /= <<>>
      <3>1. Len(toClient) = 0
        BY <2>2 DEF Waiting
      <3> QED BY <2>1, <2>4, <3>1, Sends DEF FrameTypes
    <2>6. Ran'
      BY <2>1, <2>3, <2>4, <2>5 DEF Ran, Quiet
    <2> QED BY <1>d, <2>1, <2>2, <2>4, <2>6 DEF InPhase, FrameTypes
  <1>9. CASE ExecOutput
    <2>1. /\ server = "exec" /\ UNCHANGED <<client, toServer, log, request>> /\ Send("chunk", "exec")
          /\ request /= NoRequest
      BY <1>9 DEF ExecOutput, RoleInv
    <2>2. Running
      BY <1>b, <2>1 DEF InPhase, Between, Asked, Ran, Handing, Got, Quiet
    <2>3. server' = "exec" /\ toClient' = Append(toClient, [type |-> "chunk", call |-> request.call])
      BY <1>c, <2>1
    <2>4. PICK k \in Nat : /\ k = Len(toClient) /\ Len(toClient') = k + 1
                           /\ toClient'[k + 1].type = "chunk"
                           /\ \A i \in 1 .. k : toClient'[i] = toClient[i]
      BY <2>1, <2>3, Sends DEF FrameTypes
    <2>5. \A i \in 1 .. k + 1 : toClient'[i].type = "chunk"
      BY <2>2, <2>4 DEF Running
    <2>6. Running'
      BY <2>1, <2>2, <2>3, <2>4, <2>5 DEF Running
    <2> QED BY <1>d, <2>1, <2>2, <2>3, <2>6 DEF InPhase, Running, FrameTypes
  <1>10. ASSUME NEW type \in {"exit", "error"}, ExecOver(type)
        PROVE  Own' /\ InPhase'
    <2>1. /\ server = "exec" /\ UNCHANGED <<client, toServer, log>> /\ Send(type, "recv")
          /\ request /= NoRequest /\ request' = NoRequest /\ type \in FrameTypes
      BY <1>10 DEF ExecOver, RoleInv, FrameTypes
    <2>2. Running
      BY <1>b, <2>1 DEF InPhase, Between, Asked, Ran, Handing, Got, Quiet
    <2>3. server' = "recv" /\ toClient' = Append(toClient, [type |-> type, call |-> request.call])
      BY <1>c, <2>1
    <2>4. PICK k \in Nat : /\ k = Len(toClient) /\ Len(toClient') = k + 1
                           /\ toClient'[k + 1].type = type /\ toClient' /= <<>>
                           /\ \A i \in 1 .. k : toClient'[i] = toClient[i]
      BY <2>1, <2>3, Sends
    <2>5. \A i \in 1 .. k : toClient'[i].type = "chunk"
      BY <2>2, <2>4 DEF Running
    <2>6. \A i \in 1 .. k + 1 :
             toClient'[i].type \in IF i < k + 1 THEN {"chunk"} ELSE {"exit", "error"}
      BY <2>4, <2>5
    <2>7. Ran'
      BY <2>1, <2>2, <2>3, <2>4, <2>6 DEF Ran, Running, Quiet
    <2> QED BY <1>d, <2>1, <2>2, <2>3, <2>7 DEF InPhase, Running
  <1>11. CASE RefuseGet
    <2>1. /\ server = "recv" /\ request /= NoRequest /\ request.op = "get"
          /\ UNCHANGED <<client, toServer, log>> /\ request' = NoRequest /\ Send("error", "recv")
      BY <1>11 DEF RefuseGet
    <2>2. Waiting /\ toServer = <<>>
      BY <1>b, <2>1 DEF InPhase, Between, Asked, Running, Ran, Handing, Got, Quiet
    <2>3. client = "fetch" /\ toServer' = <<>>
      BY <2>1, <2>2, RequestIsCall DEF Waiting, RoleInv
    <2>4. server' = "recv" /\ toClient' = Append(toClient, [type |-> "error", call |-> request.call])
      BY <1>c, <2>1
    <2>5. Len(toClient') = 1 /\ toClient'[1].type = "error" /\ toClient' /= <<>>
      <3>1. Len(toClient) = 0
        BY <2>2 DEF Waiting
      <3> QED BY <2>1, <2>4, <3>1, Sends DEF FrameTypes
    <2>6. Got'
      BY <2>1, <2>3, <2>4, <2>5 DEF Got, Quiet
    <2> QED BY <1>d, <2>1, <2>2, <2>4, <2>6 DEF InPhase, FrameTypes
  <1>12. CASE HandFile
    <2>1. /\ server = "recv" /\ request /= NoRequest /\ request.op = "get"
          /\ UNCHANGED <<client, toServer, log, request>>
      BY <1>12 DEF HandFile
    <2>2. Waiting /\ toServer = <<>>
      BY <1>b, <2>1 DEF InPhase, Between, Asked, Running, Ran, Handing, Got, Quiet
    <2>3. client = "fetch"
      BY <2>1, <2>2, RequestIsCall DEF Waiting, RoleInv
    <2>4. Len(toClient) = 0 /\ Len(toClient) < SockCap
      BY <2>2, SessionAssumption DEF Waiting
    <2>5. server' = "eof" /\ toClient' = Append(toClient, [type |-> "file", call |-> request.call])
      BY <1>12, <1>a, <2>4 DEF HandFile
    <2>6. Len(toClient') = 1 /\ toClient'[1].type = "file"
      BY <2>1, <2>4, <2>5, Sends DEF FrameTypes
    <2>7. Handing'
      BY <2>1, <2>2, <2>3, <2>5, <2>6 DEF Handing
    <2> QED BY <1>d, <2>1, <2>2, <2>5, <2>7 DEF InPhase, FrameTypes
  <1>13. CASE SendEof
    <2>1. /\ server = "eof" /\ UNCHANGED <<client, toServer, log>> /\ Send("eof", "recv")
          /\ request /= NoRequest /\ request' = NoRequest
      BY <1>13 DEF SendEof, RoleInv
    <2>2. Handing
      BY <1>b, <2>1 DEF InPhase, Between, Asked, Running, Ran, Got, Quiet
    <2>3. server' = "recv" /\ toClient' = Append(toClient, [type |-> "eof", call |-> request.call])
      BY <1>c, <2>1
    <2>4. PICK k \in Nat : /\ k = Len(toClient) /\ Len(toClient') = k + 1
                           /\ toClient'[k + 1].type = "eof"
                           /\ \A i \in 1 .. k : toClient'[i] = toClient[i]
      BY <2>1, <2>3, Sends DEF FrameTypes
    <2>5. CASE client = "fetch" /\ k = 1 /\ toClient[1].type = "file"
      <3>1. Len(toClient') = 2 /\ toClient'[1].type = "file" /\ toClient'[2].type = "eof"
        BY <2>4, <2>5
      <3> QED BY <1>d, <2>1, <2>2, <2>3, <2>5, <3>1 DEF InPhase, Handing, Got, Quiet, FrameTypes
    <2>6. CASE client = "eof" /\ k = 0
      <3>1. Len(toClient') = 1 /\ toClient'[1].type = "eof"
        BY <2>4, <2>6
      <3> QED BY <1>d, <2>1, <2>2, <2>3, <2>6, <3>1 DEF InPhase, Handing, Got, Quiet, FrameTypes
    <2>7. client = "eof" => k = 0
      BY <2>2, <2>4 DEF Handing
    <2> QED BY <2>2, <2>4, <2>5, <2>6, <2>7 DEF Handing
  <1>14. CASE ClientGone
    BY <1>14, <1>a DEF ClientGone
  <1>15. CASE UNCHANGED vars
    <2>1. UNCHANGED <<client, server, request, toServer, toClient, log>>
      BY <1>15 DEF vars
    <2>2. Own'
      BY <1>b, <2>1 DEF Own, ThisCall
    <2> QED BY <1>b, <2>1, <2>2 DEF InPhase, Between, Asked, Waiting, Running, Ran, Handing, Got, Quiet
  <1> QED
    BY <1>1, <1>2, <1>3, <1>4, <1>5, <1>6, <1>7, <1>8, <1>9, <1>10,
       <1>11, <1>12, <1>13, <1>14, <1>15, NextCases

(***************************************************************************)
(* The invariant of the session.                                           *)
(***************************************************************************)
Safe == TypeOK /\ SessionInv /\ FramesOwn /\ FileFromLatest /\ NoStdinLeft

(* A new connection satisfies the invariant.                               *)
LEMMA InitSafe ==
    ASSUME Init
    PROVE  Safe
  <1> USE SessionAssumption DEF Init
  <1>1. Len(log) = 0 /\ Len(toServer) = 0 /\ Len(toClient) = 0 /\ Taken = 0 /\ Handled = 0
    BY DEF Taken, Handled
  <1>2. TypeOK
    BY DEF TypeOK
  <1>3. OrderInv
    BY <1>1 DEF OrderInv
  <1>4. RoleInv
    BY <1>1 DEF RoleInv, Active, ThisCall
  <1>5. FileInv /\ StdinInv
    BY <1>1 DEF FileInv, StdinInv
  <1>6. PhaseInv
    BY <1>1 DEF PhaseInv, Own, InPhase, Between, Quiet
  <1>7. FramesOwn /\ FileFromLatest /\ NoStdinLeft
    BY DEF FramesOwn, FileFromLatest, NoStdinLeft
  <1> QED BY <1>2, <1>3, <1>4, <1>5, <1>6, <1>7 DEF Safe, SessionInv

(* Every step of either end keeps it.                                      *)
LEMMA StepSafe ==
    ASSUME Safe, [Next]_vars
    PROVE  Safe'
  <1>1. /\ TypeOK /\ OrderInv /\ RoleInv /\ FileInv /\ StdinInv /\ PhaseInv
        /\ FramesOwn /\ FileFromLatest /\ NoStdinLeft
    BY DEF Safe, SessionInv
  <1>2. TypeOK' /\ OrderInv' /\ RoleInv'
    BY <1>1, TypeStep, OrderStep, RoleStep
  <1>3. FileInv' /\ FileFromLatest'
    BY <1>1, FileStep
  <1>4. StdinInv' /\ NoStdinLeft'
    BY <1>1, StdinStep
  <1>5. PhaseInv' /\ FramesOwn'
    <2>1. mixed' \subseteq 1 .. Len(log') /\ FramesOwn'
      BY <1>1, MixedStep
    <2>2. client' /= "closed" /\ Clean' => Own' /\ InPhase'
      BY <1>1, PhaseStep
    <2> QED BY <2>1, <2>2 DEF PhaseInv
  <1> QED BY <1>2, <1>3, <1>4, <1>5 DEF Safe, SessionInv

(* The order of the requests, the roles of the two ends, the workspace the *)
(* server remembers and the phases of a call are an invariant of every     *)
(* connection that serve_connection and its client run.                    *)
THEOREM SessionInvariant == Spec => []Safe
  <1>1. Init => Safe
    BY InitSafe
  <1>2. Safe /\ [Next]_vars => Safe'
    BY StepSafe
  <1> QED BY <1>1, <1>2, PTL DEF Spec

(* The variables of the two ends always have their types.                  *)
THEOREM TypeCorrect == Spec => []TypeOK
  <1>1. Safe => TypeOK
    BY DEF Safe
  <1> QED BY <1>1, SessionInvariant, PTL

(* However many calls a client makes on a connection, whatever they ask    *)
(* for and wherever either end stops, exec and fetch_file are only handed  *)
(* frames that were sent for them, unless an earlier fetch_file gave up on *)
(* its own file.                                                           *)
THEOREM HandsOwnFrames == Spec => []FramesOwn
  <1>1. Safe => FramesOwn
    BY DEF Safe
  <1> QED BY <1>1, SessionInvariant, PTL

(* A file that handle_file_get hands over is of the workspace of the       *)
(* latest usable exec request the client made before it.                   *)
THEOREM HandsLatestFiles == Spec => []FileFromLatest
  <1>1. Safe => FileFromLatest
    BY DEF Safe
  <1> QED BY <1>1, SessionInvariant, PTL

(* The daemon holds no descriptor of a client but that of the request it   *)
(* works on and those of requests it refused or could not decode.          *)
THEOREM ClosesStdins == Spec => []NoStdinLeft
  <1>1. Safe => NoStdinLeft
    BY DEF Safe
  <1> QED BY <1>1, SessionInvariant, PTL
=============================================================================
