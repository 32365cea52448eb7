SPECIFICATION Spec
CONSTANTS
  RecStart = 2
  RecStop = 6
  MaxFrames = 4
  MaxFlushes = 1
  LiveAddr = 0
INVARIANT
  LockCoversList
