SPECIFICATION Spec
CONSTANTS
  Formats = {"v1"}
  NumEpochs = 1
  MaxCommits = 4
  MaxBad = 0
  None = None
  Stops = 1
  Fetches = 0
  Runs = 2
CHECK_DEADLOCK FALSE
INVARIANT ResumeCovers
