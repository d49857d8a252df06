---------------------------- MODULE NetCommands ----------------------------
(* The commands of the network controller (net/controller.rs) and what     *)
(* each of them does to the chaos profile.  corrupt_ratio is left out: no  *)
(* command sets it.                                                        *)
EXTENDS Integers

CONSTANTS
    Conns,       \* the connections to the control socket
    Latencies, Jitters, Losses, Rates,   \* the values clients send
    Unset        \* an absent Option: no jitter, no bandwidth limit

ASSUME NetAssumption ==
    /\ 0 \in Latencies /\ 0 \in Jitters /\ 0 \in Losses
    /\ Unset \notin Jitters \cup Rates

(* NetworkCommand, and a line that does not parse as one.                  *)
Commands ==
    [op : {"set_chaos"}, latency : Latencies, jitter : Jitters \cup {Unset}, loss : Losses]
    \cup [op : {"set_partition"}, blocked : BOOLEAN]
    \cup [op : {"set_bandwidth"}, kbps : Rates]
    \cup [op : {"reset", "get_status", "invalid"}]

(* ChaosProfile.                                                           *)
Profiles == [latency : Latencies, jitter : Jitters, loss : Losses, rate : Rates \cup {Unset}]

DefaultProfile == [latency |-> 0, jitter |-> 0, loss |-> 0, rate |-> Unset]

(* The commands that go through the lock of the profile.                   *)
UsesProfile(cmd) == cmd.op \in {"set_chaos", "set_bandwidth", "reset", "get_status"}

(* Mutant: an absent jitter is stored as it came.                          *)
ChangedRaw(profile, cmd) ==
    IF cmd.op = "set_chaos"
    THEN [profile EXCEPT !.latency = cmd.latency, !.jitter = cmd.jitter, !.loss = cmd.loss]
    ELSE [profile EXCEPT !.rate = cmd.kbps]

(* set_chaos keeps the bandwidth limit; set_bandwidth keeps the rest.      *)
Changed(profile, cmd) ==
    IF cmd.op = "set_chaos"
    THEN [profile EXCEPT !.latency = cmd.latency,
                         !.jitter = IF cmd.jitter = Unset THEN 0 ELSE cmd.jitter,
                         !.loss = cmd.loss]
    ELSE [profile EXCEPT !.rate = cmd.kbps]

(* The answers: NetworkStatusResponse, "ok" and "error".                   *)
Status(profile, cut) ==
    [kind |-> "status", latency |-> profile.latency, loss |-> profile.loss,
     partition |-> cut, rate |-> profile.rate]

Applied == [kind |-> "ok"]
Refused == [kind |-> "error"]
NoReply == [kind |-> "none"]
NoCommand == [op |-> "none"]

Replies ==
    {Applied, Refused, NoReply}
    \cup [kind : {"status"}, latency : Latencies, loss : Losses,
          partition : BOOLEAN, rate : Rates \cup {Unset}]
=============================================================================
