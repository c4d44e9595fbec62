CONSTANTS
  Pane = {p1, p2, p3}
  Split = {s1, s2}
  Tab = {t1, t2, t3}
  Nil = Nil
  NoDrag = NoDrag
  NewTab = NewTab
  Straying = {}
SPECIFICATION Spec
SYMMETRY Symmetry
CHECK_DEADLOCK FALSE
INVARIANTS TreeSound
PROPERTIES ViewStays OrderKept
