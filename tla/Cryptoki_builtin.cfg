SPECIFICATION Spec
CONSTANTS
  Slots = {1, 2}
  Readers = {1}
  ReaderOf <- OneReader
  PinSlots = {0, 1, 2}
  Atomic = FALSE
  Hotplug = FALSE
  UIntMod = 8
  MaxSessions = 4
  MaxLogins = 1
INVARIANT SessionCount
INVARIANT LastSessionLogsOut
INVARIANT UserPinNeedsCard
INVARIANT LoopIsCloseAll
PROPERTY NoUserSwitch
CHECK_DEADLOCK FALSE
