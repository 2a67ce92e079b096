SPECIFICATION Spec
CONSTANTS
  Lists = {"a"}
  Archives <- Single
  News = {}
  Torn = Torn
  None = None
  Years = {2020, 2021, 2022}
  Now = 2026
  ThreadCounts = {2}
  MaxBatch = 2
  RowGroupSize = 2
  MaxItems = 1
  Runs = 1
  Kinds = {}
  Budget = 0
CHECK_DEADLOCK FALSE
INVARIANT SenderDateKept
