SPECIFICATION Spec
CONSTANTS
  Procs = {"a"}
  NoFile = NoFile
  Failed = Failed
  Size = 5
  MaxLe = 2
  Worlds <- SoundWorlds
INVARIANT TypeOK
INVARIANT CacheIsFile
INVARIANT ReadIsBeginning
