SPECIFICATION Spec
CONSTANTS
  N = 4
  m1 = m1
  Modes = {m1}
  NoVideo = NoVideo
  MaxDma = 2
  TxDepth = 1
  PoolScreens = 1
  MaxRestarts = 1
  SerialCount = 8
  SigintTo = "any"
INVARIANTS NoTear ShownWhole FilledStable
PROPERTIES IsFifo
CHECK_DEADLOCK FALSE
