SPECIFICATION FairSpec
CONSTANTS
  a = a
  buy = buy
  sell = sell
  k = k
  None = None
  Call <- MCCall
  Client = {a}
  QueueCapacity = 2
  MaxConcurrent = 3
  PerFrame = 1
  MemoryLimit = 2
  Slow = FALSE
  Recreates = FALSE
  MaxChanges = 1
CHECK_DEADLOCK FALSE
INVARIANT TypeOK
INVARIANT PlacedOnce
PROPERTY Truthful
PROPERTY StartsWanted
PROPERTY NamesItsOrder
PROPERTY EachEnds
PROPERTY Served
