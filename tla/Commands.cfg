SPECIFICATION CommandsSpec
CONSTANTS
  N = 4
  Sizes <- SmallSizes
  IntMod = 8
  Text = {x, y}
  StackLimit = 4
  MaxLength = 5
  Char <- MCChar
  Slash = "/"
  Dot = "."
  NUL = "nul"
  Junk = "junk"
  Paths <- MCPaths
  MaxArgs = 2
  PATH_MAX = 7
  Blocks = 3
  Capacity = 1
  Answer = {0, 7, 10}
  NumThreads = 5
  Byte = {"x", "y", "ff"}
  Contents <- MCContents
  EOF = "ff"
INVARIANTS
  SortInvariant
  LargestFirst
  TacInvariant
  LastLineFirst
  ReadsWholeFile
  ScanInvariant
  PlainNamesFollowManPage
  LabResults
PROPERTY LabsEnd
