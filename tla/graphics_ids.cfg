SPECIFICATION Spec
CONSTANTS
  i1 = i1  p1 = p1  a = a  b = b
  Images = {i1}
  Ids <- Unspecified
  Pieces = {p1}
  Spots = {a, b}
  Nowhere = Nowhere
  Budget = 2
INVARIANTS StillCostsNothing
