CONSTANTS
  MaxTasks = 3
  SignalTicks = 1
  SchedTicks = 1
  MaxPid = 3
  MaxSleep = 1
  MaxInput = 0
  Pic = FALSE
  MaxPipes = 2
  PipeBuf = 2
  MaxRefs = 255
  MaxFds = 7
  Handles = {3, 4, 5, 6}
  Ops <- PipeOps
  KillSigs = {}
SPECIFICATION Spec
INVARIANTS RecordedReaderAwake PipeCountsExact
