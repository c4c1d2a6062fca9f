SPECIFICATION FairSpec
CONSTANTS
  Procs = {a, b}
  NoProc = none
  MaxRetry = 1
  Pins = {p1}
  NoPin = nopin
  Confs <- LockConfs
  CacheCounter = 0
  MaxLocked = 1
INVARIANT LockAccounted
INVARIANT LoginHolds
 
