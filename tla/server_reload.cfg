SPECIFICATION MCSpec
CONSTANTS
  f1 = f1  f2 = f2
  Fds = {f1, f2}
  MaxConns = 2
  Sizes <- OneSize
  StartSize <- MCStart
  Watch = FALSE
  Backlog = 1
  Configs <- Either
  Kinds = {"user"}
  Ops = {"reload"}
  Budget = 4
  NoSize = NoSize
  None = None
  Script = Script
INVARIANT SingleDisplay
CHECK_DEADLOCK FALSE
