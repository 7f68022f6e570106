------------------------------ MODULE MCKernel ------------------------------
(***************************************************************************)
(* Values for the constant Ops of Kernel: what the programs of a run do.   *)
(***************************************************************************)
EXTENDS Kernel

ProcessOps  == {"fork", "exit", "wait", "kill", "yield", "sleep"}
PipeOps     == {"fork", "exit", "pipe", "socketpair", "close", "read", "write"}
TtyOps      == {"fork", "exit", "wait", "kill", "dup", "dup2", "stdin"}
=============================================================================
