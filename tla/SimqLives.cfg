CONSTANTS
  NumJobs = 2
  Pids = {d1, d2, d3}
  NoPid = NoPid
  Lanes = 1
  IdleExit = FALSE
  Faults = {"pidreuse"}
  Clients = {c1}
  Commands = {"add", "daemon", "stop"}
  NoStart = {FALSE}
SPECIFICATION FairSpec
PROPERTIES
  QueueDrains
  ClaimFinishes
  StopStops
CHECK_DEADLOCK FALSE
