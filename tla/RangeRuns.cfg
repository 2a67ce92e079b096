SPECIFICATION FewSpec
CONSTANTS
  w1 = w1
  w2 = w2
  Workers = {w1, w2}
  Crews = {{w1}, {w1, w2}}
  NLists = 2
  Texts <- MCTexts
  Served = {9, 120}
  Olds = {0, 10}
  Capacity = 1
  Tens = {10, 100}
  Modes = {"raw", "parquet"}
  Budget = 2
CHECK_DEADLOCK FALSE
INVARIANTS TypeOK RangeFetched BackfillLeavesNoGap ProgressStaysReadable
PROPERTY RangeEnds
