SPECIFICATION Spec
CONSTANTS
  blank = blank  letter = letter  w = w
  Widths = {2, 4, 5}
  Cols = 3
  Narrow = {blank, letter}
  Wide = {w}
  Blank = blank
  Tag = Tag
  Half = Half
  Cut = Cut
  Budget = 3
PROPERTIES Faithful CaretFollows
