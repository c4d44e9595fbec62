SPECIFICATION MCSpec
CONSTANTS
  f1 = f1  f2 = f2  f3 = f3
  Fds = {f1, f2, f3}
  MaxConns = 3
  Sizes <- MCSizes
  StartSize <- MCStart
  Watch = TRUE
  Backlog = 1
  Configs <- AnyPolicy
  Kinds = {"user", "begin", "detach", "esc"}
  Ops = {"begin", "detach", "resize"}
  Budget = 3
  NoSize = NoSize
  None = None
  Script = Script
SYMMETRY Symm
INVARIANTS ActiveIsDisplay CanvasFollowsPolicy NoSpuriousClose InteractionOwner DetachExact SingleDisplay
CHECK_DEADLOCK FALSE
