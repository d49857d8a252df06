---------------------------- MODULE ExecContract ----------------------------
(***************************************************************************)
(* What an execution promises to the client of execute_wait_streaming and  *)
(* of the daemon, whatever tasks, pipes and channels carry it out: each    *)
(* stream is a sequence of units that is delivered in order, and the final *)
(* frame comes after all of it.                                            *)
(***************************************************************************)
EXTENDS Integers

CONSTANT Streams

VARIABLES
    written,     \* units the sandbox has written to each stream
    delivered,   \* units the client has been sent, the first ones
    final        \* the last frame

vars == <<written, delivered, final>>

Nothing == [s \in Streams |-> 0]

Init == written = Nothing /\ delivered = Nothing /\ final = "none"

Write(s) ==
    /\ final = "none"
    /\ written' = [written EXCEPT ![s] = @ + 1]
    /\ UNCHANGED <<delivered, final>>

(* A frame: the next units of a stream.                                    *)
Deliver(s) ==
    /\ final = "none"
    /\ \E n \in delivered[s] + 1 .. written[s] : delivered' = [delivered EXCEPT ![s] = n]
    /\ UNCHANGED <<written, final>>

(* Exit, with everything delivered.  Error: the same, or nothing at all is *)
(* delivered, because the sandbox could not be set up.  Or the client is   *)
(* gone.                                                                   *)
Finish(how) ==
    /\ final = "none"
    /\ how = "exit" => delivered = written
    /\ how = "error" => delivered \in {written, Nothing}
    /\ final' = how
    /\ UNCHANGED <<written, delivered>>

Next ==
    \/ \E s \in Streams : Write(s) \/ Deliver(s)
    \/ \E how \in {"exit", "error", "closed"} : Finish(how)

Spec == Init /\ [][Next]_vars
=============================================================================
