SPECIFICATION Spec
CONSTANTS
  MinCols = 24  MinRows = 6
  Aspect = 2
  Centre = 65535
  Ids = {1, 2, 3, 4, 5, 6}
  Projects = {"api"}
  Foreign = "elsewhere"
  Home = "home"
  Unparsable = Unparsable
  None = None
  Unit = 1000  WeightMin = 150  Step = 120
  SplitCols = 32  SplitRows = 8
  Scenes <- MCScenes
INVARIANTS Tiles RoundTrip Asleep OneWorkspace Declared
CHECK_DEADLOCK FALSE
