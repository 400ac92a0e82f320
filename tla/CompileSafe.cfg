CONSTANTS
  Kernels <- MCKernels
  HardwareFiles <- MCHardwareFiles
  RunFiles <- MCRunFiles
  Scratchpad <- MCScratchpad
  Drops = {0, 1, 2, 3, 4, 5, 7}
  Oversize = FALSE
SPECIFICATION Spec
INVARIANTS
  ComputesKernel
  ScalesLanded
