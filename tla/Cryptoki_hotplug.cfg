SPECIFICATION FairSpec
CONSTANTS
  Slots = {1, 2}
  Readers = {1, 2}
  ReaderOf <- OwnReader
  PinSlots = {0, 1}
  Atomic = TRUE
  Hotplug = TRUE
  UIntMod = 8
  MaxSessions = 2
  MaxLogins = 1
INVARIANT TypeOK
INVARIANT LoginNeedsCard
INVARIANT ReclaimedLoginsEmpty
 
PROPERTY CallsReturn
CHECK_DEADLOCK FALSE
