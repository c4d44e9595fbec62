SPECIFICATION Spec
CONSTANTS
  MaxRuns = 3
  MaxLine = 2
INVARIANTS OwnFate Accounted ExitOnEmptyLine
PROPERTIES Noticed
CHECK_DEADLOCK FALSE
