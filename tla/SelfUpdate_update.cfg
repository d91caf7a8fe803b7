SPECIFICATION FairSpec
CONSTANTS
  p = p
  q = q
  Process = {p, q}
  MaxVersion = 3
  Candidates = {2}
  MaxTroubles = 3
  MaxSwitches = 2
  LateCleanup = FALSE
  SecondCopy = FALSE
  CloseWhileAsked = FALSE
INVARIANT TypeOK
INVARIANT OneCopyLeft
INVARIANT PreviousKept
INVARIANT OneDatabase
INVARIANT ArmedWhileQuitting
INVARIANT OfferFits
PROPERTY Noticed
