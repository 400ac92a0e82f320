CONSTANTS
  Procs = {p1, p2}
  NoProc = NoProc
  Configs = {c1}
  Options = {"default", "no-rebuild", "allow", "rebuild"}
  MaxJobs = 3
  MaxEdits = 2
  Faults = {"make", "orphan"}
SPECIFICATION FairSpec
PROPERTIES
  RunsWhatWasChecked
  JobsEnd
CHECK_DEADLOCK FALSE
