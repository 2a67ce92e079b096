SPECIFICATION Spec
CONSTANTS
  Formats = {"v2"}
  NumEpochs = 2
  MaxCommits = 5
  MaxBad = 0
  None = None
  Stops = 0
  Fetches = 0
  Runs = 1
CHECK_DEADLOCK FALSE
INVARIANT CompleteRunCovers
