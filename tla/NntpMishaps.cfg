SPECIFICATION FairSpec
CONSTANTS
  Ids = {1, 2, 3}
  None = None
  Modes = {"parquet"}
  MaxPerFile = 2
  RowGroupCap = 3
  MaxId = 3
  Cancelled = {1}
  MaxRetries = 1
  MaxFiles = 6
  Budget <- AllOnce
CHECK_DEADLOCK FALSE
INVARIANTS TypeOK ProgressIsDurable ProgressCovered SkippedIsLogged
PROPERTIES PromiseSpec EventuallySettled ShutdownEndsWorker
