CONSTANTS
  Procs = {p1, p2}
  NoProc = NoProc
  Configs = {c1, c2}
  Options = {"default", "no-rebuild", "allow", "rebuild"}
  MaxJobs = 3
  MaxEdits = 1
  Faults = {"make", "crash"}
SPECIFICATION Spec
SYMMETRY Symmetry
INVARIANTS
  TypeOK
  OneElaboration
PROPERTIES
  ElaboratedOnce
CHECK_DEADLOCK FALSE
