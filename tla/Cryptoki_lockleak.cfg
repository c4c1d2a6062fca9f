SPECIFICATION Spec
CONSTANTS
  Slots = {1, 2}
  Readers = {1}
  ReaderOf <- OneReader
  PinSlots = {1}
  Atomic = FALSE
  Hotplug = FALSE
  UIntMod = 8
  MaxSessions = 2
  MaxLogins = 1
INVARIANT LockReleased
CHECK_DEADLOCK FALSE
