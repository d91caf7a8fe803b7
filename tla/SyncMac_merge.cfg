SPECIFICATION Spec
CONSTANTS
  x = x
  y = y
  watchlist = watchlist
  template = template
  None = None
  Item = {x, y}
  Combining = {watchlist}
  Entity = {watchlist}
  Me = 1
  Peer = 2
  Times = {1}
  StaleLimit = 20
  MaxMergeAttempts = 5
  Deleters = {}
  Reuse = FALSE
  Faults = {}
  Prompt = TRUE
  MaxQueue = 2
  MaxEdits = 2
  MaxRemote = 2
  MaxCrashes = 0
  MaxFaults = 0
  MaxOld = 0
INVARIANT TypeOK
INVARIANT OneUpload
INVARIANT NothingMissed
PROPERTY NoEntryLost
