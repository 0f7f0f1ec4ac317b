SPECIFICATION Spec
CONSTANTS
  Sources <- MCSources
  CountRange = 64
  MaxChanges = 1
INVARIANTS SettledInTime PositionTrue
