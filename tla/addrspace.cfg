CONSTANTS
  Slots = {1, 2}
  Arch = "x86_64"
  NumFrames = 28
  Loads <- TwoLoads
  StackFrames = 1
  HugeFrames = 8
  PageSize = 2
  NumPages = 7
  UserPage = 1
  TablePages = 4
  CodePage = 2
  RawStackPage = 3
  UserStackPages = 1
  StackTop = 7
  StackRegion = 24
  Exes <- TwoExes
  Vectors <- SomeVectors
  MaxVec = 2
  MaxArg = 8
  Word = 2
  Align = 4
  Auxv = 4
  Breaks = {7, 9}
  Hints = {0, 2}
  Touched = {0, 1, 2, 5}
SPECIFICATION Spec
INVARIANTS AddressTypeOK FramesHaveOneUse InitialStackSound
PROPERTIES IsUserMemory
