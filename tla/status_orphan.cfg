SPECIFICATION Spec
CONSTANTS
  Gestures <- MCGestures
  MaxGestures = 3
  MaxRuns = 2
  PsMax = 2
  ButtonsMax = 1
  Gap = 2
  MaxTicks = 3
  Echo = TRUE
INVARIANTS LineHasOwner
CHECK_DEADLOCK FALSE
