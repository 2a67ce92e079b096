SPECIFICATION Spec
CONSTANTS
  Workers = {w1, w2}
  Lists <- ThreeLists
  Indexes <- TwoIndexes
  Modes = {"loop"}
  Capacity = 1
INVARIANT OneWorkerPerList
