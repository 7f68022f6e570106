CONSTANTS
  MaxTasks = 4
  SignalTicks = 1
  SchedTicks = 2
  MaxPid = 3
  MaxSleep = 1
  MaxInput = 0
  Pic = TRUE
  MaxPipes = 1
  PipeBuf = 3
  MaxRefs = 255
  MaxFds = 5
  Handles = {3, 4}
  Ops = {"fork", "pipe", "close", "read", "kill", "yield"}
  KillSigs = {"SIGKILL"}
SPECIFICATION Spec
INVARIANTS RecordedReaderAwake
