SPECIFICATION Spec
CONSTANTS
  x = x
  y = y
  watchlist = watchlist
  template = template
  None = None
  Item = {x}
  Combining = {}
  Entity = {template}
  Me = 1
  Peer = 2
  Times = {1}
  StaleLimit = 20
  MaxMergeAttempts = 5
  Deleters = {1, 2}
  Reuse = FALSE
  Faults = {}
  Prompt = FALSE
  MaxQueue = 2
  MaxEdits = 2
  MaxRemote = 1
  MaxCrashes = 1
  MaxFaults = 0
  MaxOld = 0
PROPERTY DeletesWaitForFetch
PROPERTY CheckpointAfterApply
INVARIANT Counted
