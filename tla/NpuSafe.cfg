CONSTANTS
  Bogus = {"bogus"}
SPECIFICATION Spec
INVARIANTS
  ZeroIsPass
  ZeroIsComplete
  OneIsFailure
PROPERTIES
  Ends
CHECK_DEADLOCK FALSE
