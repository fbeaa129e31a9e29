SPECIFICATION FairSpec
CONSTANTS
  Bufs = {b1, b2, b3, b4}
  LibMax = 3
  MaxBuf = 2
  MaxH = 2
  InFlight = 1
  Old = Old
  None = None
INVARIANTS RightBuffers DeviceOwns CpuAgain
PROPERTY CallReturns
CHECK_DEADLOCK FALSE
