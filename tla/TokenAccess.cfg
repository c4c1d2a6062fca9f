SPECIFICATION Spec
CONSTANTS
  Procs = {a, b}
  NoProc = none
  MaxRetry = 1
  Pins = {p1, p2}
  NoPin = nopin
  Confs <- AllConfs
  CacheCounter = 1
  MaxLocked = 1
INVARIANT TypeOK
INVARIANT LockAccounted
INVARIANT EnvIsOwn
INVARIANT LoginHolds
INVARIANT OnlyGivenPins
INVARIANT NoOrphan
INVARIANT LossIsNoticed
PROPERTY Exclusive
SYMMETRY Alike
