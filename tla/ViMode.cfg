SPECIFICATION Spec
CONSTANTS
  Letter = {"a", "A"}
  Other <- MCOther
  Bracket <- MCBracket
  Uses <- MCUses
  Keys = {"a"}
  Counts = {1, 2}
  MarkName = {"m"}
  MergeLimit = 2
  MaxText = 5
  MaxCommands = 2
CHECK_DEADLOCK FALSE
INVARIANT ViInvariant
PROPERTIES
  RedoRepeats
  YankTakes
