SPECIFICATION Spec
CONSTANTS
  Width = 3
  Terminals <- MCTerminals
  Prompts <- MCPrompts
  Messages <- MCMessages
  Lines <- MCLines
  MaxLines = 1
INVARIANT RedisplayInvariant
INVARIANT AcceptedLineStays
CHECK_DEADLOCK FALSE
