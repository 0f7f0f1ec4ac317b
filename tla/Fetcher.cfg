SPECIFICATION FairSpec
CONSTANTS
  MaxPosts = 2
  MaxClock = 3
  MaxCrashes = 2
  PipeSize = 2
  Lags <- MCLags
  ValidFrom = 1
CHECK_DEADLOCK FALSE
INVARIANT NothingSkipped
PROPERTIES InOrder Delivered
