------------------------------- MODULE Limits -------------------------------
(* The limits a request ends up with: `minibox run` (main.rs), handle_exec *)
(* (net/wire.rs) and the engines.  Sizes are u64 in the code; here a word  *)
(* holds Word values and a megabyte is MB of them, and products wrap as in *)
(* a release build.  A memory limit of 0 means none, for apply_setrlimit   *)
(* and for create_sandbox_cgroup.                                          *)
EXTENDS Integers

CONSTANTS Word, MB

ASSUME LimitsAssumption == Word \in Nat /\ MB \in Nat \ {0} /\ Word > 2 * MB

AtLeast(x, low) == IF x < low THEN low ELSE x

DefaultMemory == MB       \* ResourcePolicy::default, 512 MB
DefaultWall   == 60
DefaultVmWall == 300

(* Mutant: the product is computed in half the width.                      *)
MemoryBytesNarrow(ram) == (ram * MB) % (Word \div 2)

MemoryBytes(ram) == (ram * MB) % Word

(* `minibox run`, and a request to the daemon, whose 0 keeps the default.  *)
RunMemory(ram)  == MemoryBytes(ram)
ExecMemory(ram) == IF ram > 0 THEN MemoryBytes(ram) ELSE DefaultMemory

(* execute_wait_streaming_with_stdin: wall_time_limit_secs.max(1).         *)
RunWall(secs)  == AtLeast(secs, 1)
ExecWall(secs) == AtLeast(IF secs > 0 THEN secs ELSE DefaultWall, 1)

(* `minibox run --engine microvm` passes timeout.max(60); spawn_micro_vm   *)
(* takes 0 for the default.                                                *)
VmSession(secs) == IF secs = 0 THEN DefaultVmWall ELSE secs
VmWall(secs)    == VmSession(AtLeast(secs, 60))
=============================================================================
