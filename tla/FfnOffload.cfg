SPECIFICATION Spec
CONSTANTS
  T = 5
  B = 3
  Bd = 2
  MaxPass = 3
  GuRetry = TRUE
  DnRetry = TRUE
  Outliers = TRUE
  None = None
INVARIANTS RowsComputed DeviceExclusive
CHECK_DEADLOCK FALSE
