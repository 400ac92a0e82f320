CONSTANTS
  Procs = {p1, p2}
  Recipes = {"wide"}
  NSamples = {0, 1, 4}
  Split = 3
  DeviceCounts = {2}
  MaxCalls = 3
SPECIFICATION Spec
INVARIANTS
  CacheRight
  ResultRight
  FailsForReason
SYMMETRY Symmetry
CHECK_DEADLOCK FALSE
