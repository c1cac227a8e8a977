SPECIFICATION FairSpec
CONSTANTS
  Lidars <- MCLidars
  Configured <- MCConfigured
  KMaxSourceLidar = 2
  Interval = 2
  Tolerance = 1
  MaxTime = 3
  MaxMessages = 3
INVARIANTS
  NothingLost
PROPERTIES
  PipeServed
CHECK_DEADLOCK FALSE
