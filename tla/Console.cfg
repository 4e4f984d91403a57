CONSTANTS
  Word <- MCWord
  Option <- MCOption
  Letters <- MCLetters
  BeginsWith <- MCBeginsWith
  NoName = ""
  Junk = Junk
  Lines <- MCLines
  FileSystems <- MCFileSystems
  FdLimit = 1
  MaxLines = 3
SPECIFICATION Spec
INVARIANTS
  ConsoleInvariant
  HistoryMatchesInput
PROPERTY ImplementsRepl
