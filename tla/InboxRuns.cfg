SPECIFICATION Spec
CONSTANTS
  Formats = {"v1", "v2"}
  NumEpochs = 2
  MaxCommits = 5
  MaxBad = 1
  None = None
  Stops = 1
  Fetches = 1
  Runs = 3
CHECK_DEADLOCK FALSE
INVARIANTS TypeOK NumbersUnique FirstRunCovers
PROPERTIES WalksOnlyForNews NewOnlyAfterFullRun IndexNamesSameEmail
