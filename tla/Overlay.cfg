SPECIFICATION FairSpec
CONSTANTS
  W = 4
  H = 2
  HBlank = 5
  VBlank = 1
  Geometries <- MCGeometries
INVARIANTS Aligned StaysInStep
PROPERTIES Resync
