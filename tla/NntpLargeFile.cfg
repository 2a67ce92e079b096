SPECIFICATION Spec
CONSTANTS
  Ids = {1, 2, 3, 4}
  None = None
  Modes = {"raw", "parquet"}
  MaxPerFile = 3
  RowGroupCap = 2
  MaxId = 4
  Cancelled = {2}
  MaxRetries = 1
  MaxFiles = 3
  Budget <- NetTwice
CHECK_DEADLOCK FALSE
INVARIANTS OkMeansArchived LineageMatchesArchive
PROPERTIES RefetchOnlyAtStart ProgressNeverRegresses
