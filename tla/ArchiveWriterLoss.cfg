SPECIFICATION AWSpec
CONSTANTS
  Ids = {a, b, c}
  None = None
  Modes = {"parquet"}
  MaxPerFile = 3
  RowGroupCap = 2
  MaxFiles = 2
  Budget <- OneCrash
CHECK_DEADLOCK FALSE
INVARIANT CrashLosesNothing
