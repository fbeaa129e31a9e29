SPECIFICATION ChargeSpec
CONSTANTS
  Levels = {0, 30, 60, 65, 75, 80, 100}
  Overlap = FALSE
  Missing = Missing
INVARIANT StopApplied
PROPERTY BootRestores
