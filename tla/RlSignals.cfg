CONSTANTS
  Signal <- MCSignal
  MaxSignals = 3
  MaxLines = 2
SPECIFICATION Spec
INVARIANTS
  SignalInvariant
  LoneSignalArrives
  TerminalRestored
PROPERTY
  CaughtIsTaken
\* The lines are bounded, and so is the number of signals.
CHECK_DEADLOCK FALSE
