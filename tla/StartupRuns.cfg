SPECIFICATION Spec
CONSTANTS
  a = a
  b = b
  ListNames = {a, b}
  None = None
  Null = Null
  Configs <- MCConfigs
  Servers <- MCServers
  Layouts <- MCLayouts
  Mirrors <- MCMirrors
  Budget <- Few
CHECK_DEADLOCK FALSE
INVARIANTS TypeOK SelectionExact WholeStart OfferedIsArchivable
PROPERTY SelectionSticks
