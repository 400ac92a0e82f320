CONSTANTS
  SIG = 10
  BF = 3
  WORD = 22
  VEC_MIN = 8
  PROD_FLOOR <- MCFloor
  N = 4
  window = 2
  BLOCK = 4
  PROD_MANT_BITS = 3
  Jobs <- MCJobs
SPECIFICATION Spec
INVARIANTS
  ComputesElementwise
CHECK_DEADLOCK FALSE
