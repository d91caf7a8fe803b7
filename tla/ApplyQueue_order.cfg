SPECIFICATION FairSpec
CONSTANTS
  SlowFrames = FALSE
  MaxPages = 3
  MaxFailures = 2
  MaxCrashes = 1
INVARIANT TypeOK
PROPERTY InOrder
PROPERTY EachAcknowledged
