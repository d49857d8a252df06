-------------------------------- MODULE Arch --------------------------------
(* arch/elf_detector.rs and arch/qemu_runner.rs: which architecture a file *)
(* is for, and when a command is run under an emulator.  A file is known   *)
(* by its magic number, the bytes that could be read of it, the number of  *)
(* architectures of a fat header, and an ELF header's byte order and the   *)
(* two bytes of its machine.                                               *)
EXTENDS Integers, Sequences

Archs       == {"X86_64", "Aarch64", "ArmV7", "Riscv64", "Mips", "Wasm", "MachO", "Script", "Unknown"}
HostArchs   == {"X86_64", "Aarch64", "Riscv64", "Unknown"}
TargetArchs == {"X86_64", "Aarch64", "Riscv64"}      \* what --arch accepts

Files == [magic : {"#!", "wasm", "mach-o", "cafebabe", "elf", "other"}, read : 0 .. 64,
          archs : Nat, order : 0 .. 255, machine : (0 .. 255) \X (0 .. 255)]

MachineArch(code) ==
    CASE code = 62  -> "X86_64"
      [] code = 183 -> "Aarch64"
      [] code = 40  -> "ArmV7"
      [] code = 243 -> "Riscv64"
      [] code = 8   -> "Mips"
      [] OTHER      -> "Unknown"

(* Mutant: the byte order is not looked at.                                *)
MachineLittle(file) == file.machine[1] + 256 * file.machine[2]

(* e_machine, in the byte order EI_DATA names.                             *)
Machine(file) ==
    IF file.order = 2 THEN 256 * file.machine[1] + file.machine[2]
    ELSE file.machine[1] + 256 * file.machine[2]

DetectBinaryArchitecture(file) ==
    CASE file.read < 4                        -> "Unknown"
      [] file.magic = "#!"                    -> "Script"
      [] file.magic = "wasm"                  -> "Wasm"
      [] file.magic = "mach-o"                -> "MachO"
      [] file.magic = "cafebabe"              -> IF file.read >= 8 /\ file.archs \in 1 .. 16
                                                 THEN "MachO" ELSE "Unknown"
      [] file.magic = "elf" /\ file.read >= 20 -> MachineArch(Machine(file))
      [] OTHER                                -> "Unknown"

RequiresEmulation(arch, host) ==
    \/ arch = "X86_64" /\ host = "Aarch64"
    \/ arch = "Aarch64" /\ host = "X86_64"
    \/ arch = "ArmV7"
    \/ arch = "Riscv64" /\ host # "Riscv64"

(* wrap_if_needed on Linux: is the command put behind an emulator?  If the *)
(* emulator is not installed it is run as it is.                           *)
WrapIfNeeded(target, host, emulators) ==
    /\ \/ <<target, host>> \in {<<"X86_64", "Aarch64">>, <<"Aarch64", "X86_64">>}
       \/ target = "Riscv64"
    /\ target \in emulators

-----------------------------------------------------------------------------
ElfCodes == [X86_64 |-> 62, Aarch64 |-> 183, ArmV7 |-> 40, Riscv64 |-> 243, Mips |-> 8]

(* The reference: an ELF file as a linker for the architecture writes it,  *)
(* of which the first n bytes can be read.                                 *)
ElfFile(arch, order, n) ==
    [magic |-> "elf", read |-> n, archs |-> 0, order |-> order,
     machine |-> IF order = 2 THEN <<ElfCodes[arch] \div 256, ElfCodes[arch] % 256>>
                 ELSE <<ElfCodes[arch] % 256, ElfCodes[arch] \div 256>>]
=============================================================================
