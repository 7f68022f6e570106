CONSTANTS
  MaxTasks = 4
  SignalTicks = 1
  SchedTicks = 2
  MaxPid = 3
  MaxSleep = 1
  MaxInput = 2
  Pic = TRUE
  MaxPipes = 0
  PipeBuf = 3
  MaxRefs = 255
  MaxFds = 4
  Handles = {0, 3}
  Ops <- TtyOps
  KillSigs = {"SIGKILL"}
SPECIFICATION Spec
INVARIANTS ContextsBelong RecordedTtyReaderAwake
PROPERTIES DeadStayDead
