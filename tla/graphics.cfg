SPECIFICATION Spec
CONSTANTS
  i1 = i1  i2 = i2  p1 = p1  a = a  b = b
  Images = {i1, i2}
  Ids <- Chosen
  Pieces = {p1}
  Spots = {a, b}
  Nowhere = Nowhere
  Budget = 4
SYMMETRY Symm
INVARIANTS Truthful Exact
