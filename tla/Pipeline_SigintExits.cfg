SPECIFICATION FairSpec
CONSTANTS
  N = 4
  m1 = m1
  Modes = {m1}
  NoVideo = NoVideo
  MaxDma = 1
  TxDepth = 1
  PoolScreens = 2
  MaxRestarts = 0
  SerialCount = 1
  SigintTo = "main"
CHECK_DEADLOCK FALSE
PROPERTY SigintExits
