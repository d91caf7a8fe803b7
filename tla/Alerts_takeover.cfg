SPECIFICATION Spec
CONSTANTS
  a = a
  None = None
  Alert = {a}
  Requests <- Asked
  MaxCommands = 1
  MaxQuotes = 1
  MaxFaults = 1
  Unseen = TRUE
  Unsaved = FALSE
  Lagging = FALSE
INVARIANT NoneLost
