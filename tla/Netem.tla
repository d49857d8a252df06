------------------------------- MODULE Netem -------------------------------
(* net/chaos.rs: what a ChaosProfile asks of `tc qdisc replace ... netem`.  *)
(* Times are in milliseconds, ratios in thousandths of a percent.           *)
EXTENDS Integers, Sequences

CONSTANT NoRate   \* bandwidth_kbps is None

IsActive(profile) ==
    \/ profile.latency > 0 \/ profile.jitter > 0 \/ profile.loss > 0
    \/ profile.rate # NoRate \/ profile.corrupt > 0

(* format!("{:.2}%"): to hundredths of a percent.                          *)
Percent(ratio) == (ratio + 5) \div 10

Option(wanted, key, word) == IF wanted THEN {[key |-> key, word |-> word]} ELSE {}

(* netem_args: a keyword and one argument word each.  A jitter is put into *)
(* the word of the delay, and without a delay it is left out.              *)
NetemArgs(profile) ==
         Option(profile.latency > 0, "delay",
                IF profile.jitter > 0 THEN <<profile.latency, profile.jitter>> ELSE <<profile.latency>>)
    \cup Option(profile.loss > 0, "loss", <<Percent(profile.loss)>>)
    \cup Option(profile.rate # NoRate, "rate", <<profile.rate>>)
    \cup Option(profile.corrupt > 0, "corrupt", <<Percent(profile.corrupt)>>)

(* tc takes one value from a word; "10ms 5ms" is not a time.               *)
TcAccepts(args) == \A a \in args : Len(a.word) = 1

Value(args, key, default) ==
    IF \E a \in args : a.key = key THEN (CHOOSE a \in args : a.key = key).word[1] ELSE default

(* The queueing discipline tc then installs.                               *)
Installed(args) ==
    [latency |-> Value(args, "delay", 0), jitter |-> 0, loss |-> Value(args, "loss", 0),
     rate |-> Value(args, "rate", NoRate), corrupt |-> Value(args, "corrupt", 0)]
=============================================================================
