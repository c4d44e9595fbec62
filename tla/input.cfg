SPECIFICATION InputSpec
CONSTANTS
  Gestures <- MCGestures
  MaxGestures = 3
  Late = TRUE
  Hasty = FALSE
INVARIANTS Decodes
PROPERTIES Resolves
CHECK_DEADLOCK FALSE
