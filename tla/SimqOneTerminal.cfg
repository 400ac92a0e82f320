CONSTANTS
  NumJobs = 2
  Pids = {d1, d2}
  NoPid = NoPid
  Lanes = 2
  IdleExit = TRUE
  Faults = {"crash", "oserror"}
  Clients = {c1}
  Commands = {"add", "stop", "stop-now", "drain", "clear", "clear-logs", "clear-all", "requeue"}
  NoStart = {FALSE}
SPECIFICATION Spec
SYMMETRY Symmetry
INVARIANTS
  TypeOK
  ExclusiveClaim
  OneDaemon
PROPERTIES
  ClearSparesClaims
  Fifo
  NoJobLost
CHECK_DEADLOCK FALSE
