SPECIFICATION Spec
CONSTANTS
  Panes = {1, 3}
  First = {1, 3}
  TabOf <- MCTabOf
  Direct <- MCDirect
  Actions = {"search", "palette", "purpose", "help", "literal"}
INVARIANTS Overlays
PROPERTIES NamesKept KeysAimed NoTrap
CHECK_DEADLOCK FALSE
