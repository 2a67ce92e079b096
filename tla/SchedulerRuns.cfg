SPECIFICATION FairSpec
CONSTANTS
  Workers = {w1, w2}
  Lists <- ThreeLists
  Indexes <- TwoIndexes
  Modes <- AllModes
  Capacity = 1
INVARIANTS TypeOK AllTried OneWorkerPerListOnce
PROPERTIES OneTaskAfterShutdown RunReturns KeepsServing
