SPECIFICATION MCFairSpec
CONSTANTS
  f1 = f1  f2 = f2
  Fds = {f1, f2}
  MaxConns = 2
  Sizes <- OneSize
  StartSize <- MCStart
  Watch = TRUE
  Backlog = 1
  Configs <- Either
  Kinds = {"user", "esc"}
  Ops = {"quit"}
  Budget = 3
  NoSize = NoSize
  None = None
  Script = Script
PROPERTY NobodyStarves
CHECK_DEADLOCK FALSE
