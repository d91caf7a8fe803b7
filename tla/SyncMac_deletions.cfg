SPECIFICATION Spec
CONSTANTS
  x = x
  y = y
  watchlist = watchlist
  template = template
  None = None
  Item = {x}
  Combining = {}
  Entity = {template}
  Me = 1
  Peer = 2
  Times = {1}
  StaleLimit = 20
  MaxMergeAttempts = 5
  Deleters = {2}
  Reuse = FALSE
  Faults = {"away"}
  Prompt = TRUE
  MaxQueue = 2
  MaxEdits = 1
  MaxRemote = 2
  MaxCrashes = 1
  MaxFaults = 1
  MaxOld = 0
INVARIANT DeletionsNoticed
