SPECIFICATION FairSpec
CONSTANTS
  QUEEN_SIZE = 2
  Texts <- MCTexts
  SLIDING_LAYER_ROWS = 1
  SLIDING_LAYER_COLS = 2
  NUM_STATIC_LAYER = 2
  CYCLE_PER_DANMU = 4
  DURATION = 3
  MAX_WIDTH = 5
  ScreenWidths = {4, 6}
  TextWidths = {2, 6}
  ClickLines = 2
  MaxTexts = 4
CHECK_DEADLOCK FALSE
INVARIANTS TypeOK OnceOnly Apart GoneInTime StripsFit
PROPERTIES OverrunOnlyFull StaticStays SlidingIsFifo StaticIsFifo SlidingEnters
