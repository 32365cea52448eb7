SPECIFICATION Spec
CONSTANTS
  Writers = {w1, w2}
  Packets <- MCPackets
  BufferSize = 3
  MaxSent = 3
  MaxLost = 1
  Clients = {t1, t2}
  Updater = u
  Threads = {t1, t2, u}
  Commands <- MCCommands
  Requests <- MCRequests
  BufferCount = 2
  MaxRequests = 2
  MaxLosses = 1
  Files <- MCFiles
  PageSize = 2
  IvtPages = {0}
  UserPages = {2, 3}
  BootPages = {1}
  MaxProcesses = 3
  MaxAsked = 16
INVARIANT
  SuccessMeansWholeFile
CHECK_DEADLOCK FALSE
