CONSTANTS
  Procs = {p1, p2}
  baseline = baseline
  wide = wide
  broad = broad
  narrow = narrow
  lut = lut
  Recipes <- MCRecipes
  Baseline = baseline
  BuildId <- MCBuildId
  Patch <- MCPatch
  MaxVersion = 2
  BadShape = {}
  CondaGxx = TRUE
  StockLib = TRUE
  MaxCalls = 3
  MaxUpdates = 1
SPECIFICATION Spec
INVARIANTS
  HitIsBuild
  MetaDescribes
  OwnLiterals
SYMMETRY Symmetry
CHECK_DEADLOCK FALSE
