SPECIFICATION FairSpec
CONSTANTS
  c1 = c1  c2 = c2
  Clients = {c1, c2}
  Patient = {c1}
  Cap = 1
  Room = 1
  FrameLen = 2
  Last = 3
  Budget = 3
  Garbled = Garbled
INVARIANTS NeverGarbled NothingOwed
PROPERTIES Mirrors Settles
CHECK_DEADLOCK FALSE
