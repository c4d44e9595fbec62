SPECIFICATION ConfigSpec
CONSTANTS
  Files <- MCFiles
  Contents <- MCContents
  Disks <- MCDisks
  DepthMax = 2
  FilesMax = 5
  EditsMax = 2
PROPERTIES EverySaveLands
CHECK_DEADLOCK FALSE
