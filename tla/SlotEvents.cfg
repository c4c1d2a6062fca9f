SPECIFICATION FairSpec
CONSTANTS
  Readers = {1, 2}
  Retries = 2
  MaxChanges = 4
  Worlds <- AllWorlds
INVARIANT TypeOK
INVARIANT NoEventLost
INVARIANT SlowCardsNoticed
PROPERTY TokensSettle
PROPERTY EventsArrive
CHECK_DEADLOCK FALSE
