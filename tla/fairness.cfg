CONSTANTS
  MaxTasks = 4
  SignalTicks = 1
  SchedTicks = 2
  MaxPid = 3
  MaxSleep = 1
  MaxInput = 0
  Pic = FALSE
  MaxPipes = 0
  PipeBuf = 3
  MaxRefs = 255
  MaxFds = 3
  Handles = {}
  Ops = {"fork", "exit", "yield", "kill"}
  KillSigs = {"SIGINT"}
SPECIFICATION FairSpec
PROPERTIES EveryReadyTaskRuns LethalSignalKills
