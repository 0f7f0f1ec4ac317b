SPECIFICATION Spec
CONSTANTS
  MIN_SIZE = 100
  EDGE_DIV = 20
  MAX_WIDTH = 2000
  MAX_SCREEN_HEIGHT = 1100
  MAX_HEIGHT = 256
  NUM_FRAME_BUFFER = 7
  Layers = 30
  sz_udmabuf0 = 16777216
  sz_dyn_area = 67108864
  WordRange = 1073741824
  Uninitialized <- MCZero
  Resolutions <- MCVideos
INVARIANT LengthAsserted
