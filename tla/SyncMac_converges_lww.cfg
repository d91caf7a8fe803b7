SPECIFICATION FairSpec
CONSTANTS
  x = x
  y = y
  watchlist = watchlist
  template = template
  None = None
  Item = {x}
  Combining = {}
  Entity = {template}
  Me = 1
  Peer = 2
  Times = {1, 2}
  StaleLimit = 20
  MaxMergeAttempts = 5
  Deleters = {}
  Reuse = FALSE
  Faults = {}
  Prompt = TRUE
  MaxQueue = 1
  MaxEdits = 1
  MaxRemote = 1
  MaxCrashes = 1
  MaxFaults = 0
  MaxOld = 1
INVARIANT NothingMissed
PROPERTY Converges
