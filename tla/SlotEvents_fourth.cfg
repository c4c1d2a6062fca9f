SPECIFICATION FairSpec
CONSTANTS
  Readers = {1}
  Retries = 3
  MaxChanges = 8
  Worlds <- SlowWorld
PROPERTY CardsShown
CHECK_DEADLOCK FALSE
