----------------------------- MODULE MCMinibox -----------------------------
(* Minibox for TLC: command lines that take every branch.  Containers of   *)
(* two processes only meet in the workspace, which neither changes; so one *)
(* process is started with all command lines and the other with those that *)
(* touch the interface or the socket.                                      *)
EXTENDS Minibox, TLC

CONSTANTS r1, r2

Calm   == [latency |-> 0, jitter |-> 0, loss |-> 0, rate |-> NoRate, corrupt |-> 0]
Lossy  == [Calm EXCEPT !.latency = 10, !.loss = 504, !.rate = 7, !.corrupt = 1000]
Jitter == [Calm EXCEPT !.jitter = 5]
Both   == [Calm EXCEPT !.latency = 10, !.jitter = 5]

Run(engine, kernel, profile, ram, secs) ==
    [op |-> "run", valid |-> TRUE, engine |-> engine, kernel |-> kernel, profile |-> profile,
     arch |-> IF engine = "process" THEN "Riscv64" ELSE "none", ram |-> ram, secs |-> secs]

ExecLine(usable, fetch, ram, secs) ==
    [op |-> "exec", usable |-> usable, fetch |-> fetch, ram |-> ram, secs |-> secs]

Shared ==
    { Run("process", FALSE, Lossy, 1, 60), Run("microvm", TRUE, Lossy, 16, 0), [op |-> "daemon"],
      ExecLine(TRUE, TRUE, 0, 0) }

(* ELF files of each architecture and byte order, files cut short around   *)
(* e_machine, and files of the other kinds.                                *)
TestFiles ==
    LET Other(magic, archs) ==
            [magic |-> magic, read |-> 64, archs |-> archs, order |-> 0, machine |-> <<0, 0>>]
    IN  { ElfFile(arch, order, 64) : arch \in DOMAIN ElfCodes, order \in {1, 2} }
        \cup { ElfFile("Aarch64", 1, n) : n \in {0, 3, 4, 19, 20} }
        \cup { Other("#!", 0), Other("cafebabe", 2), Other("cafebabe", 17) }

TestRequests ==
    (r1 :> Shared \cup
           { Run("process", FALSE, Both, 0, 61), Run("container", FALSE, Lossy, 15, 0),
             Run("microvm", FALSE, Jitter, 15, 61),
             [Run("process", FALSE, Calm, 8, 1) EXCEPT !.valid = FALSE],
             ExecLine(TRUE, FALSE, 15, 61), ExecLine(FALSE, FALSE, 1, 60) } \cup
           { [op |-> "arch", file |-> file] : file \in TestFiles })
    @@ (r2 :> Shared)
=============================================================================
