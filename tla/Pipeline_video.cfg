SPECIFICATION FairSpec
CONSTANTS
  N = 4
  m1 = m1
  m2 = m2
  Modes = {m1, m2}
  NoVideo = NoVideo
  MaxDma = 1
  TxDepth = 1
  PoolScreens = 2
  MaxRestarts = 0
  SerialCount = 1
  SigintTo = "none"
PROPERTIES VideoFollowed
CHECK_DEADLOCK FALSE
