SPECIFICATION Spec
CONSTANTS
  MaxFrames = 2
  InputRate = 2
  Positions = {1}
  Loopcounts = {0, 1}
  Rates <- MCRates
  Deltas <- MCDeltas
  PipeSize = 2
  NumBuffers = 3
  WatchdogCount = 1
  MaxCalls = 4
CHECK_DEADLOCK FALSE
INVARIANTS
  TypeOK
  NeverStarves
  NoFrameDropped
PROPERTIES
  Settles
  PositionIsShown
