CONSTANTS
  Key <- MCKey
  Digit <- MCDigit
  Keymaps <- MCKeymaps
  Lines <- MCLines
  MaxLevel = 2
  MaxTyped = 6
  MaxAhead = 3
  MaxArg = 2
  MaxKills = 2
SPECIFICATION Spec
INVARIANTS
  RingInvariant
  MacroIsWhatRan
PROPERTIES
  InputInOrder
  MacrosRunDry
\* Nobody has to type.
CHECK_DEADLOCK FALSE
