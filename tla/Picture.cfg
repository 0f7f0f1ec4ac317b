SPECIFICATION PictureSpec
CONSTANTS
  QUEEN_SIZE = 3
  Texts <- MCTexts
  SLIDING_LAYER_ROWS = 1
  SLIDING_LAYER_COLS = 2
  NUM_STATIC_LAYER = 2
  CYCLE_PER_DANMU = 4
  DURATION = 3
  MAX_WIDTH = 5
  ScreenWidths = {8, 12}
  TextWidths = {2, 5}
  ClickLines = 0
  MaxTexts = 3
  MIN_SIZE = 4
  EDGE_DIV = 4
  HeightOf <- MCHeightOf
  Chars <- MCChars
  Ink <- MCInk
  Rows = 3
  Cols = 6
  Span = 100
CHECK_DEADLOCK FALSE
INVARIANTS NothingLeftOver InkShown
PROPERTIES WellFormed
