SPECIFICATION FairSpec
CONSTANTS
  x = x
  y = y
  watchlist = watchlist
  template = template
  None = None
  Item = {x}
  Combining = {watchlist}
  Entity = {watchlist}
  Me = 1
  Peer = 2
  Times = {1}
  StaleLimit = 20
  MaxMergeAttempts = 5
  Deleters = {}
  Reuse = FALSE
  Faults = {"stuck", "fetch", "expired", "record", "send"}
  Prompt = TRUE
  MaxQueue = 1
  MaxEdits = 2
  MaxRemote = 1
  MaxCrashes = 1
  MaxFaults = 1
  MaxOld = 0
INVARIANT NothingMissed
PROPERTY Converges
