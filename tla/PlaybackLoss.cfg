SPECIFICATION LossySpec
CONSTANTS
  MaxFrames = 2
  InputRate = 2
  Positions = {1, 2}
  Loopcounts = {0, 1}
  Rates = {1}
  Deltas = {1}
  PipeSize = 2
  NumBuffers = 3
  WatchdogCount = 2
  MaxCalls = 2
CHECK_DEADLOCK FALSE
PROPERTY
  RetriesFrame
