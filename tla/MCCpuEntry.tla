----------------------------- MODULE MCCpuEntry -----------------------------
(* Two task slots, both architectures.  Programs of the C library use        *)
(* SYSCALL for everything; the built-in ones use INT 0x80 to write and exit. *)
EXTENDS CpuEntry, TLC

AllCalls == Calls
DemoCalls == {"plain", "exit"}

\* schedule takes any ready slot and fork any vacant one.
Slots == Permutations(Tasks)
=============================================================================
