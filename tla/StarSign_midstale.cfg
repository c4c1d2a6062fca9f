SPECIFICATION SpecBoth
CONSTANTS
  Clients = {"a"}
  Dirs <- CardDirs
  Files <- CardFiles
  Paths <- ProbePaths
  QuietPaths = {}
  Failures = FALSE
  Resets = FALSE
  AidRefused = FALSE
INVARIANT MidIsCurrent
CHECK_DEADLOCK FALSE
