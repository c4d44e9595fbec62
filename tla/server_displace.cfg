SPECIFICATION MCSpec
CONSTANTS
  f1 = f1  f2 = f2  f3 = f3
  Fds = {f1, f2, f3}
  MaxConns = 3
  Sizes <- OneSize
  StartSize <- MCStart
  Watch = TRUE
  Backlog = 1
  Configs <- OneAtATime
  Kinds = {"user"}
  Ops = {"other"}
  Budget = 3
  NoSize = NoSize
  None = None
  Script = Script
SYMMETRY Symm
INVARIANT OnlyGreetedDisplays
CHECK_DEADLOCK FALSE
