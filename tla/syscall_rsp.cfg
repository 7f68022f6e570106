SPECIFICATION Spec
CONSTANTS
  Tasks = {t1, t2}
  Archs = {"x86_64", "riscv64"}
  SyscallCalls <- AllCalls
  Int80Calls <- DemoCalls
  MaxEntries = 5
SYMMETRY Slots
INVARIANT SpKept
CHECK_DEADLOCK FALSE
