CONSTANTS
  NumJobs = 2
  Pids = {d1, d2}
  NoPid = NoPid
  Lanes = 1
  IdleExit = TRUE
  Faults = {"raise", "crash", "slow"}
  Clients = {c1, c2}
  Commands = {"add", "foreground", "cancel"}
  NoStart = {FALSE}
SPECIFICATION Spec
SYMMETRY Symmetry
INVARIANTS
  RunsOnce
  ClaimsFitLanes
PROPERTIES
  VerdictFinal
  ImplementsJobQueue
CHECK_DEADLOCK FALSE
