SPECIFICATION Spec
CONSTANTS
  Char = {"a", "b"}
  MergeLimit = 20
  MaxRecords = 9
  Histories <- MCHistories
  Typed = {"b"}
  MaxText = 1
  MaxString = 2
  MaxSearches = 2
CHECK_DEADLOCK FALSE
INVARIANT SearchInvariant
PROPERTY AbortRestores
