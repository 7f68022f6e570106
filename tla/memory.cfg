CONSTANTS
  Callers = {c1}
  Preemptible = FALSE
  Maps <- TwoMaps
  MinBase = 8
  KernelEnd = 13
  PageSize = 4
  WordBits = 2
  MaxFrames = 7
  MaxRun = 3
  MaxRegions = 2
  Classes <- PowersOfTwo
  Layouts <- SomeLayouts
  MaxLive = 3
SPECIFICATION Spec
INVARIANTS FrameTypeOK FramesHeldOnce FreeCountExact LowestRunFound BlocksDisjoint BlocksAligned HeapCountersExact
