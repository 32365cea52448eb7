SPECIFICATION Spec
CONSTANTS
  FrameCount = 2
  MaxPipe = 2
  MaxCalls = 2
  MaxFaults = 1
CHECK_DEADLOCK FALSE
INVARIANTS
  TypeOK
  EndIsComing
  SavesAreAsked
PROPERTIES
  SavesEnd
  Exits
  DisplayFollowsMode
