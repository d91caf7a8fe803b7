SPECIFICATION FairSpec
CONSTANTS
  a = a
  None = None
  Alert = {a}
  Requests <- Asked
  MaxCommands = 2
  MaxQuotes = 2
  MaxFaults = 1
  Unseen = FALSE
  Unsaved = FALSE
  Lagging = FALSE
INVARIANT TypeOK
INVARIANT NoneLost
INVARIANT FiresOnce
INVARIANT ArmedWhenFar
PROPERTY HistoryKept
PROPERTY Drained
