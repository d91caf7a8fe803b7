SPECIFICATION FairSpec
CONSTANTS
  a = a
  b = b
  x = x
  None = None
  Account = {a, b}
  Home = a
  Item = {x}
  Choices <- AllChoices
  MaxChoices = 3
  MaxSwitches = 1
  MaxTroubles = 1
  Interrupted = FALSE
INVARIANT TypeOK
INVARIANT NoCrossing
INVARIANT NothingPassed
PROPERTY OnlyAsked
PROPERTY Settles
CHECK_DEADLOCK FALSE
