------------------------------ MODULE Session ------------------------------
(***************************************************************************)
(* One connection of the binary protocol of net/wire.rs: serve_connection  *)
(* with handle_exec and handle_file_get on one side, and on the other      *)
(* BinaryClient, or the SandboxClient of the generated Python SDK          *)
(* (net/sdk.rs), which opens a connection for every call.  Frames arrive   *)
(* whole and in order (module Wire); how a command runs is module          *)
(* Executor's subject: here it sends some output and ends.                 *)
(*                                                                         *)
(* Every frame carries, as a history, the number of the client's call it   *)
(* belongs to: the protocol itself has no such number.                     *)
(***************************************************************************)
EXTENDS Integers, Sequences

CONSTANTS
    Workspaces,
    Accepted,      \* workspaces that classify_workspace lets through
    Resolvable,    \* workspaces that canonicalize
    NoWs,
    SockCap,       \* frames the socket buffers towards the client
    MaxChunks,     \* bound: output frames of a command
    MaxCalls,      \* bound: calls on the connection
    LocalFail,     \* may File::create or io::copy fail at the client?
    BadRequests,   \* may a client send a request that does not decode?
    Clients        \* "rust" and "python"

ASSUME SessionAssumption ==
    /\ Accepted \subseteq Workspaces /\ Resolvable \subseteq Workspaces
    /\ NoWs \notin Workspaces
    /\ SockCap \in Nat \ {0} /\ MaxChunks \in Nat /\ MaxCalls \in Nat
    /\ LocalFail \in BOOLEAN /\ BadRequests \in BOOLEAN
    /\ Clients \subseteq {"rust", "python"}

VARIABLES
    server,      \* "recv", "exec", "eof" or "closed"
    request,     \* the request the server works on
    chunks,      \* output frames it has sent for it
    session,     \* session_workspace
    stdins,      \* calls whose descriptor the daemon has open
    kind,        \* which client this is
    client,      \* "idle", "exec", "fetch", "eof" or "closed"
    toServer, toClient,   \* frames on the socket
    log,         \* history: the calls of the client
    answer,      \* history: how each call ended for the client
    mixed,       \* history: calls that were handed a frame of another call
    handed       \* history: [call, ws] of the files handed over

serverVars == <<server, request, chunks, session, stdins>>
historyVars == <<log, answer, mixed, handed>>
vars == <<serverVars, kind, client, toServer, toClient, historyVars>>

Calls == [op : {"exec", "get"}, ws : Workspaces, bad : BOOLEAN, fd : BOOLEAN]
Requests == [call : 1 .. MaxCalls, op : {"exec", "get"}, ws : Workspaces,
             bad : BOOLEAN, fd : BOOLEAN]
FrameTypes == {"chunk", "exit", "error", "file", "eof"}
NoRequest == [call |-> 0]

TypeOK ==
    /\ server \in {"recv", "exec", "eof", "closed"}
    /\ request \in Requests \cup {NoRequest}
    /\ chunks \in 0 .. MaxChunks
    /\ session \in (Accepted \cap Resolvable) \cup {NoWs}
    /\ stdins \subseteq 1 .. MaxCalls
    /\ kind \in Clients
    /\ client \in {"idle", "exec", "fetch", "eof", "closed"}
    /\ toServer \in Seq(Requests)
    /\ toClient \in Seq([type : FrameTypes, call : 1 .. MaxCalls])
    /\ log \in Seq(Calls)
    /\ answer \in [1 .. MaxCalls -> {"none", "exit", "error", "file", "err"}]
    /\ mixed \subseteq 1 .. MaxCalls
    /\ handed \subseteq [call : 1 .. MaxCalls, ws : Workspaces]

Init ==
    /\ server = "recv" /\ request = NoRequest /\ chunks = 0 /\ session = NoWs
    /\ stdins = {} /\ kind \in Clients
    /\ client = "idle"
    /\ toServer = <<>> /\ toClient = <<>>
    /\ log = <<>>
    /\ answer = [n \in 1 .. MaxCalls |-> "none"]
    /\ mixed = {} /\ handed = {}

-----------------------------------------------------------------------------
(***************************************************************************)
(* The client.                                                             *)
(***************************************************************************)
ThisCall == Len(log)

(* exec and fetch_file start by sending their request, exec's perhaps with *)
(* the descriptor of a file for the command's stdin.                       *)
Call(op, ws, bad, fd) ==
    /\ client = "idle" /\ ThisCall < MaxCalls
    /\ bad => BadRequests /\ op = "exec"
    /\ fd => op = "exec"
    /\ log' = Append(log, [op |-> op, ws |-> ws, bad |-> bad, fd |-> fd])
    /\ toServer' = Append(toServer, [call |-> ThisCall + 1, op |-> op, ws |-> ws,
                                     bad |-> bad, fd |-> fd])
    /\ client' = IF op = "exec" THEN "exec" ELSE "fetch"
    /\ UNCHANGED <<serverVars, kind, toClient, answer, mixed, handed>>

(* recv_frame takes the next frame; the call may be handed one that        *)
(* belongs to another call.                                                *)
Take ==
    /\ toClient /= <<>>
    /\ toClient' = Tail(toClient)
    /\ mixed' = IF Head(toClient).call = ThisCall THEN mixed ELSE mixed \cup {ThisCall}

(* The call returns or raises; the Python client closes its socket.        *)
EndCall(result) ==
    /\ client' = IF kind = "python" THEN "closed" ELSE "idle"
    /\ answer' = [answer EXCEPT ![ThisCall] = result]

(* The loop of exec: output is an event, Exit and Error end the call,      *)
(* anything else is an error of the session.                               *)
ExecEvent ==
    /\ client = "exec"
    /\ Take
    /\ LET type == Head(toClient).type
       IN  \/ type = "chunk" /\ UNCHANGED <<client, answer>>
           \/ type \in {"exit", "error"} /\ EndCall(type)
           \/ type \in {"file", "eof"} /\ EndCall("err")
    /\ UNCHANGED <<serverVars, kind, toServer, log, handed>>

(* fetch_file: the reply.  A destination that cannot be created or written *)
(* ends the call at once.                                                  *)
FetchReply ==
    /\ client = "fetch"
    /\ Take
    /\ LET type == Head(toClient).type
       IN  \/ type = "error" /\ EndCall("error")
           \/ type = "file" /\ client' = "eof" /\ UNCHANGED answer
           \/ type = "file" /\ LocalFail /\ EndCall("err")
           \/ type \in {"chunk", "exit", "eof"} /\ EndCall("err")
    /\ UNCHANGED <<serverVars, kind, toServer, log, handed>>

(* Mutant: fetch_file returns when the file is copied.                     *)
FetchEofSkipped ==
    /\ client = "eof"
    /\ EndCall("file")
    /\ UNCHANGED <<serverVars, kind, toServer, toClient, mixed, log, handed>>

(* fetch_file: the terminator, whose type only the Python client looks at. *)
FetchEof ==
    /\ client = "eof"
    /\ Take
    /\ EndCall(IF kind = "python" /\ Head(toClient).type /= "eof" THEN "err" ELSE "file")
    /\ UNCHANGED <<serverVars, kind, toServer, log, handed>>

(* recv_frame fails because the server has closed the connection.          *)
ServerGone ==
    /\ client \in {"exec", "fetch", "eof"}
    /\ server = "closed" /\ toClient = <<>>
    /\ client' = "closed"
    /\ answer' = [answer EXCEPT ![ThisCall] = "err"]
    /\ UNCHANGED <<serverVars, kind, toServer, toClient, log, mixed, handed>>

(* The client is dropped between calls or in the middle of one.            *)
Hangup ==
    /\ client /= "closed"
    /\ client' = "closed"
    /\ UNCHANGED <<serverVars, kind, toServer, toClient, historyVars>>

-----------------------------------------------------------------------------
(***************************************************************************)
(* The server.                                                             *)
(***************************************************************************)

(* send_frame without a descriptor waits for room, and fails when the      *)
(* client has closed.                                                      *)
Send(type, next) ==
    \/ /\ client /= "closed"
       /\ Len(toClient) < SockCap
       /\ toClient' = Append(toClient, [type |-> type, call |-> request.call])
       /\ server' = next
    \/ /\ client = "closed"
       /\ server' = "closed"
       /\ UNCHANGED toClient

(* recv_frame returns a request.  One that does not decode ends the        *)
(* connection; an ExecRequest for a workspace that classify_workspace lets *)
(* through starts the command.                                             *)
NextRequest ==
    /\ server = "recv" /\ request = NoRequest /\ toServer /= <<>>
    /\ request' = Head(toServer)
    /\ toServer' = Tail(toServer)
    /\ chunks' = 0
    /\ server' = IF Head(toServer).bad THEN "closed"
                 ELSE IF Head(toServer).op = "exec" /\ Head(toServer).ws \in Accepted THEN "exec"
                 ELSE "recv"
    /\ stdins' = IF Head(toServer).fd THEN stdins \cup {Head(toServer).call} ELSE stdins
    /\ UNCHANGED <<session, kind, client, toClient, historyVars>>

(* Mutant: a refused workspace is not reported.                            *)
RefuseSilently ==
    /\ server = "recv" /\ request /= NoRequest
    /\ request.op = "exec"
    /\ request' = NoRequest
    /\ UNCHANGED <<server, chunks, session, stdins, kind, client, toServer, toClient, historyVars>>

(* handle_exec: the workspace is protected.                                *)
RefuseExec ==
    /\ server = "recv" /\ request /= NoRequest
    /\ request.op = "exec"
    /\ Send("error", "recv")
    /\ request' = NoRequest
    /\ UNCHANGED <<chunks, session, stdins, kind, client, toServer, historyVars>>

(* handle_exec: the forwarder sends a piece of output.                     *)
ExecOutput ==
    /\ server = "exec" /\ chunks < MaxChunks
    /\ client /= "closed"
    /\ Send("chunk", "exec")
    /\ chunks' = chunks + 1
    /\ UNCHANGED <<request, session, stdins, kind, client, toServer, historyVars>>

(* Mutant: the first workspace of the connection is kept.                  *)
RememberFirst == IF session = NoWs /\ request.ws \in Resolvable THEN request.ws ELSE session

(* Mutant: a workspace is remembered that does not canonicalize.           *)
RememberRaw == request.ws

(* serve_connection: the workspace is remembered, if it canonicalized,     *)
(* whenever handle_exec returned Ok: after an Exit and after an Error.     *)
Remember == IF request.ws \in Resolvable THEN request.ws ELSE session

(* Mutant: the descriptor is handed on by number, not as an owned Stdio.   *)
StdinKept == stdins

(* Stdio::from_raw_fd owns the descriptor and closes it with the Command.  *)
StdinClosed == stdins \ {request.call}

(* handle_exec: the command is over.  One whose workspace does not exist   *)
(* cannot be spawned; any other may exit or fail.                          *)
ExecOver(type) ==
    /\ server = "exec"
    /\ type = "exit" => request.ws \in Resolvable
    /\ Send(type, "recv")
    /\ session' = IF client /= "closed" THEN Remember ELSE session
    /\ request' = NoRequest
    /\ stdins' = StdinClosed
    /\ UNCHANGED <<chunks, kind, client, toServer, historyVars>>

(* handle_file_get: no workspace yet, a path outside it, or no such file.  *)
RefuseGet ==
    /\ server = "recv" /\ request /= NoRequest
    /\ request.op = "get"
    /\ Send("error", "recv")
    /\ request' = NoRequest
    /\ UNCHANGED <<chunks, session, stdins, kind, client, toServer, historyVars>>

(* handle_file_get: the descriptor is sent with sendmsg, which fails when  *)
(* the socket is full.                                                     *)
HandFile ==
    /\ server = "recv" /\ request /= NoRequest
    /\ request.op = "get" /\ request.ws = session
    /\ IF client /= "closed" /\ Len(toClient) < SockCap
       THEN /\ server' = "eof"
            /\ toClient' = Append(toClient, [type |-> "file", call |-> request.call])
            /\ handed' = handed \cup {[call |-> request.call, ws |-> request.ws]}
       ELSE /\ server' = "closed"
            /\ UNCHANGED <<toClient, handed>>
    /\ UNCHANGED <<request, chunks, session, stdins, kind, client, toServer, log, answer, mixed>>

SendEof ==
    /\ server = "eof"
    /\ Send("eof", "recv")
    /\ request' = NoRequest
    /\ UNCHANGED <<chunks, session, stdins, kind, client, toServer, historyVars>>

(* recv_frame fails because the client has closed: serve_connection ends.  *)
ClientGone ==
    /\ server = "recv" /\ request = NoRequest
    /\ client = "closed" /\ toServer = <<>>
    /\ server' = "closed"
    /\ UNCHANGED <<request, chunks, session, stdins, kind, client, toServer, toClient, historyVars>>

-----------------------------------------------------------------------------
(* Both ends are closed, or the client makes no more calls.                *)
Finished ==
    /\ \/ server = "closed" /\ client = "closed"
       \/ client = "idle" /\ (server = "closed" \/ ThisCall = MaxCalls)
    /\ UNCHANGED vars

ClientStep == ExecEvent \/ FetchReply \/ FetchEof \/ ServerGone

ServerStep ==
    \/ NextRequest \/ RefuseExec \/ ExecOutput
    \/ ExecOver("exit") \/ ExecOver("error")
    \/ RefuseGet \/ HandFile \/ SendEof \/ ClientGone

Next ==
    \/ \E op \in {"exec", "get"}, ws \in Workspaces, bad, fd \in BOOLEAN : Call(op, ws, bad, fd)
    \/ ClientStep \/ Hangup
    \/ ServerStep
    \/ Finished

Spec == Init /\ [][Next]_vars

(* Both tasks are polled.  That a command comes to its end is what         *)
(* Executor!ExecEnds is about, and assumed here.                           *)
FairSpec == Spec /\ WF_vars(ClientStep) /\ WF_vars(ServerStep)

-----------------------------------------------------------------------------
(* A call is only ever handed frames that the server sent for that call,   *)
(* although frames carry no number, because every call reads its answer to *)
(* the end.  The one exception: an earlier fetch failed at the client.     *)
FramesOwn ==
    \A n \in mixed : \E m \in 1 .. n - 1 : log[m].op = "get" /\ answer[m] = "err"

Usable == Accepted \cap Resolvable

(* ws is the workspace of the last usable exec request before call n.      *)
LatestExec(n, ws) ==
    \E m \in 1 .. n - 1 :
        /\ log[m].op = "exec" /\ log[m].ws = ws /\ ws \in Usable
        /\ \A k \in m + 1 .. n - 1 : log[k].op = "exec" /\ log[k].ws \in Usable => log[k].ws = ws

(* FILE_GET hands over files of the workspace of the connection's latest   *)
(* usable exec request, as the client issued them, and of no other: a      *)
(* workspace is neither kept too long nor taken from a request that was    *)
(* refused.  The comment in the code promises more: FileFromSuccessful.    *)
FileFromLatest ==
    \A h \in handed : LatestExec(h.call, h.ws)

(* The descriptors clients send do not pile up in the daemon: what is open *)
(* between requests came with a request that was refused or did not decode *)
(* (those are never closed, and outlive the connection).                   *)
NoStdinLeft ==
    \A n \in stdins :
        \/ server \in {"exec", "recv"} /\ request /= NoRequest /\ request.call = n
        \/ log[n].bad \/ log[n].ws \notin Accepted

(* Every call returns: the client does not hang, whatever the server       *)
(* answers, refuses or closes.                                             *)
CallReturns == client \in {"exec", "fetch", "eof"} ~> client \in {"idle", "closed"}

(***************************************************************************)
(* The inductive invariants behind them.                                   *)
(***************************************************************************)

(* A call is under way.                                                    *)
Active == client \in {"exec", "fetch", "eof"}

RequestOf(n) == [call |-> n, op |-> log[n].op, ws |-> log[n].ws, bad |-> log[n].bad, fd |-> log[n].fd]

(* The requests the server has taken off the socket, and those of them     *)
(* that it is done with.                                                   *)
Taken   == Len(log) - Len(toServer)
Handled == IF request = NoRequest THEN Taken ELSE Taken - 1

(* Requests are taken in the order of the calls.                           *)
OrderInv ==
    /\ Len(log) <= MaxCalls /\ Len(toServer) <= Len(log)
    /\ \A i \in 1 .. Len(toServer) : toServer[i] = RequestOf(Taken + i)
    /\ request /= NoRequest => Taken >= 1 /\ request = RequestOf(Taken)
    /\ \A n \in 1 .. Len(log) : log[n].bad \/ log[n].fd => log[n].op = "exec"

(* What each end is doing fits the request and the call.                   *)
RoleInv ==
    /\ server \in {"exec", "eof"} => request /= NoRequest
    /\ server = "exec" => request.op = "exec" /\ request.ws \in Accepted
    /\ server = "eof" => request.op = "get"
    /\ server = "recv" /\ request /= NoRequest /\ request.op = "exec" => request.ws \notin Accepted
    /\ Active => Len(log) >= 1 /\ answer[ThisCall] = "none"
    /\ client = "exec" => log[ThisCall].op = "exec"
    /\ client \in {"fetch", "eof"} => log[ThisCall].op = "get"
    /\ \A n \in Len(log) + 1 .. MaxCalls : answer[n] = "none"

(* The server remembers the latest usable workspace of those handled.      *)
FileInv ==
    /\ \A h \in handed : h.call \in 1 .. Len(log)
    /\ server /= "closed" =>
          IF session = NoWs
          THEN \A m \in 1 .. Handled : ~(log[m].op = "exec" /\ log[m].ws \in Usable)
          ELSE LatestExec(Handled + 1, session)

(* Descriptors come with exec requests that have been taken.               *)
StdinInv == \A n \in stdins : n \in 1 .. Taken /\ log[n].op = "exec"

(* No fetch has failed at the client so far.                               *)
Clean == \A m \in 1 .. Len(log) : ~(log[m].op = "get" /\ answer[m] = "err")

(* Where a call is between the two ends.                                   *)
Quiet   == server = "recv" /\ request = NoRequest
Waiting == client \in {"exec", "fetch"} /\ toClient = <<>>

Between ==
    /\ client = "idle" /\ Quiet /\ toServer = <<>> /\ toClient = <<>>

Asked ==
    \/ Waiting /\ Quiet /\ Len(toServer) = 1
    \/ Waiting /\ toServer = <<>> /\ request /= NoRequest /\ server \in {"recv", "closed"}

Running ==
    /\ client = "exec" /\ toServer = <<>> /\ server = "exec"
    /\ \A i \in 1 .. Len(toClient) : toClient[i].type = "chunk"

Ran ==
    /\ client = "exec" /\ toServer = <<>> /\ Quiet /\ toClient /= <<>>
    /\ \A i \in 1 .. Len(toClient) :
          toClient[i].type \in IF i < Len(toClient) THEN {"chunk"} ELSE {"exit", "error"}

Handing ==
    /\ toServer = <<>> /\ server = "eof"
    /\ \/ client = "fetch" /\ Len(toClient) = 1 /\ toClient[1].type = "file"
       \/ client = "eof" /\ toClient = <<>>

Got ==
    /\ toServer = <<>> /\ Quiet
    /\ \/ client = "fetch" /\ Len(toClient) = 1 /\ toClient[1].type = "error"
       \/ client = "fetch" /\ Len(toClient) = 2 /\ toClient[1].type = "file" /\ toClient[2].type = "eof"
       \/ client = "eof" /\ Len(toClient) = 1 /\ toClient[1].type = "eof"

InPhase == Between \/ Asked \/ Running \/ Ran \/ Handing \/ Got

(* Every frame on its way to the client belongs to the latest call.        *)
Own == \A i \in 1 .. Len(toClient) : toClient[i].call = ThisCall

(* As long as no fetch has failed at the client, what is on the socket is  *)
(* the answer to the call under way, up to where the server is with it.    *)
PhaseInv ==
    /\ mixed \subseteq 1 .. Len(log)
    /\ client /= "closed" /\ Clean => Own /\ InPhase

SessionInv == OrderInv /\ RoleInv /\ FileInv /\ StdinInv /\ PhaseInv

(***************************************************************************)
(* What the documentation says and the code does not do.                   *)
(***************************************************************************)

(* wire.rs, exec: "Executes a command remotely, delivering streamed output *)
(* through on_event": the output is that command's.                        *)
EventsOwn == \A n \in mixed : answer[n] \notin {"exit", "error"}

(* The exec calls that were answered with an Exit frame.                   *)
Successful == {n \in 1 .. Len(log) : log[n].op = "exec" /\ answer[n] = "exit"}

(* wire.rs, serve_connection: FILE_GET "is confined to the workspace       *)
(* established by this connection's most recent successful EXEC_REQUEST".  *)
(* A command that ended in an Error frame moves it as well.                *)
FileFromSuccessful ==
    \A h \in handed : \E m \in Successful :
        /\ m < h.call /\ log[m].ws = h.ws
        /\ \A k \in Successful : m < k /\ k < h.call => log[k].ws = h.ws
=============================================================================
