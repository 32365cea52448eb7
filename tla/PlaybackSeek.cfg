SPECIFICATION Spec
CONSTANTS
  MaxFrames = 3
  InputRate = 2
  Positions = {1}
  Loopcounts = {1}
  Rates <- MCReverse
  Deltas <- MCDeltas
  PipeSize = 2
  NumBuffers = 3
  WatchdogCount = 1
  MaxCalls = 3
CHECK_DEADLOCK FALSE
PROPERTY
  SeekStaysInLoop
