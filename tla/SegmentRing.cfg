SPECIFICATION Spec
CONSTANTS
  RecStart = 2
  RecStop = 6
  MaxFrames = 8
  MaxFlushes = 1
  LiveAddr = 0
INVARIANTS
  TypeOK
  NoSharedMemory
  ListedIntact
  PlaybackInOrder
  WalkIsConsistent
PROPERTIES
  EvictsOnlyDamaged
  ImplementsRecording
