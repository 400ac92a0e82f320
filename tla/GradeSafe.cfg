CONSTANTS
  Procs = {p1, p2}
  Recipes = {"base", "wide_acc"}
  Stock = {"base"}
  Dim <- MCDim
  ShippedDim = 16
  UserDim = 8
  UserTimes = TRUE
  Dirs <- MCDirs
  MaxRuns = 2
  MaxSeconds = 1
  MaxRebuilds = 1
SPECIFICATION Spec
INVARIANTS
  OwnMachine
  GeometryHeld
  OwnRun
  LibraryRecorded
  ReportOfOneRun
  Deployed
SYMMETRY Symmetry
CHECK_DEADLOCK FALSE
