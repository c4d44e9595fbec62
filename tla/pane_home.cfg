SPECIFICATION KeysSpec
CONSTANTS
  MaxRuns = 1
  MaxLine = 2
INVARIANT CountErrsUpwards
CHECK_DEADLOCK FALSE
