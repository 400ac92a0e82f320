CONSTANTS
  NumJobs = 2
  NumConfigs = 2
  Lanes = {l1, l2}
  SameName = FALSE
  Faults = {"runner", "builder"}
SPECIFICATION FairSpec
INVARIANTS
  ExitZeroIsPass
  AllFinished
PROPERTIES
  ReturnsUnlessBuilderDies
CHECK_DEADLOCK FALSE
