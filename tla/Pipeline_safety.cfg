SPECIFICATION Spec
CONSTANTS
  N = 4
  m1 = m1
  Modes = {m1}
  NoVideo = NoVideo
  MaxDma = 2
  TxDepth = 1
  PoolScreens = 2
  MaxRestarts = 0
  SerialCount = 8
  SigintTo = "any"
INVARIANTS TypeOK NoTear ShownWhole FilledStable AssertsHold StaleFirst FirstWaitFlushes
PROPERTIES NoPictureSkipped IsFifo
CHECK_DEADLOCK FALSE
