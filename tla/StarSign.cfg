SPECIFICATION SpecBoth
CONSTANTS
  Clients = {"a", "b"}
  Dirs <- CardDirs
  Files <- CardFiles
  Paths <- AllPaths
  QuietPaths <- VirtualPaths
  Failures = TRUE
  Resets = TRUE
  AidRefused = TRUE
INVARIANT TypeOK
INVARIANT WalkIsNamed
INVARIANT AloneSelectsNamed
INVARIANT AloneFindsFile
INVARIANT AloneMidIsCurrent
