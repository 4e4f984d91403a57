SPECIFICATION Spec
CONSTANTS
  Char = {"a", "A"}
  Insertions <- MCInsertions
  Cases <- MCCases
  Loaded <- MCLoaded
  MergeLimit = 2
  MaxText = 2
  MaxRecords = 4
  MaxEntries = 2
CHECK_DEADLOCK FALSE
INVARIANT UndoInvariant
PROPERTY NextEntryShown
