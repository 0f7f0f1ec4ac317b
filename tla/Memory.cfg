SPECIFICATION Spec
CONSTANTS
  MIN_SIZE = 4
  EDGE_DIV = 4
  MAX_WIDTH = 12
  MAX_SCREEN_HEIGHT = 8
  MAX_HEIGHT = 2
  NUM_FRAME_BUFFER = 2
  Layers = 2
  sz_udmabuf0 = 230
  sz_dyn_area = 440
  WordRange = 1024
  Uninitialized <- MCStarts
  Resolutions <- MCSmall
INVARIANTS AreasApart FramesFit
