CONSTANTS
  MaxInodes = 3
  MaxData = 2
  Names = {"a", "ab", "abc", "abcd", "abcde", "abcdef"}
  MaxName = 5
  NameLen <- Bytes
  Prefix <- FirstBytes
  Uids = {0, 1}
  Modes <- TwoModes
  Procs = {p1}
  Handles = {3, 4}
  Width <- TwoWhereCopied
  Paths <- SomePaths
  PathsOf <- NamesOrData
  MkdirModes <- OneMode
  OpenFlags <- SomeFlags
  Profiles <- SomeProfiles
  Rooms = {24, 32, 56}
  PathRooms = {2, 3, 6}
  AppendCap = 1
  Texts = {0, 2}
  MaxCmd = 4
  HistDepth = 2
  Typed <- FewKeys
SPECIFICATION Spec
INVARIANTS FilesTypeOK NamesUnique RootStays NoOldBytes DirScanExact PathRoundTrip LineShown HistoryRecent DraftKept
PROPERTIES OthersFilesKept
