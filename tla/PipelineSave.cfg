SPECIFICATION Spec
CONSTANTS
  FrameCount = 2
  MaxPipe = 2
  MaxCalls = 2
  MaxFaults = 0
CHECK_DEADLOCK FALSE
INVARIANT
  SaveIsComplete
