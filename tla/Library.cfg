SPECIFICATION LibrarySpec
CONSTANTS
  Digit <- MCDigit
  Comment = "#"
  Sessions <- MCSessions
  Histories <- MCHistories
  Requests <- MCRequests
  Scripts <- MCScripts
  Converts <- MCConverts
  Keymaps <- MCKeymaps
  Binds <- MCBinds
  Surroundings <- MCSurroundings
  Files <- MCFiles
  Inputrc <- MCInputrc
  Calls <- MCCalls
  Application = "app"
  Terminal = {"xterm", "xterm-256color"}
  Version = 82
CHECK_DEADLOCK FALSE
INVARIANTS
  WordsKept
  ShownReadsBack
PROPERTIES
  ExpansionMeans
  ScansAgree
  BindingsStay
  LinesInEffect
