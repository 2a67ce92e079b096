SPECIFICATION FairSpec
CONSTANTS
  Lists = {"a", "b"}
  Archives <- Archived
  News <- Arriving
  Torn = Torn
  None = None
  Years = {2020, 2021, 2022}
  Now = 2026
  ThreadCounts = {1, 2}
  MaxBatch = 2
  RowGroupSize = 2
  MaxItems = 3
  Runs = 2
  Kinds = {"stop", "io", "crash"}
  Budget = 2
CHECK_DEADLOCK FALSE
INVARIANTS TypeOK ReadableIsWhole DoneIsComplete FailureHasCause EndsWhole LineageWhole
PROPERTY RunEnds
