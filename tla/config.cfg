SPECIFICATION ConfigSpec
CONSTANTS
  Files <- MCFiles
  Contents <- MCContents
  Disks <- MCDisks
  DepthMax = 2
  FilesMax = 5
  EditsMax = 2
INVARIANTS Precedence EscapeUndoes
PROPERTIES ThemeKept EditsLand
CHECK_DEADLOCK FALSE
