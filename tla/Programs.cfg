SPECIFICATION Spec
CONSTANTS
  c1 = c1
  c2 = c2
  h1 = h1
  h2 = h2
  Connections = {c1, c2}
  WebRequests <- MCWebRequests
  RxSize = 3
  TxSize = 3
  MaxBody = 5
  EventSize = 2
  HeaderSize = 1
  ExtraSize = 2
  Methods <- MCMethods
  TakeArguments = {"get", "set"}
  MaxEvents = 2
  Hosts = {h1, h2}
  Clients = {h1, h2}
  Sids = {1}
  MaxBuilds = 2
  Wishes <- MCWishes
  BufferLines = 6
  Inputs <- MCInputs
  MaxLevel = 2
  MaxSets = 2
  MaxCommands = 2
  MaxFailures = 1
  Geometries <- MCGeometries
  Spares = {0, 7, 4799, 9600, 57600, 1000000}
  Shares = {0, 100}
  AskedGains = {0, 3}
  Levels = {100}
  Bitstreams <- MCBitstreams
  Fitted = 1
  ImageSize = 3
  MaxRuns = 2
  MaxFaults = 2
  Paths <- MCPaths
  Kinds = {"dng", "tiff", "tiffraw", "raw12"}
  Serials = {0, 12, 32}
  Cuts = {0, 300, 4096}
  MaxSaves = 2
  MaxBuffers = 2
  MaxTroubles = 1
  RecStart = 1
  RecStop = 4
  Blocks = 2
  Sizes = {1, 2}
  Options <- MCOptions
  MaxRecorded = 4
  MaxHitches = 1
  Word = 65536
  Texts <- MCTexts
  Replies <- MCReplies
  MaxMishaps = 1
INVARIANTS
  NeverForgotten
  StreamIntact
  StreamFollowsSession
  AnswersFit
  AidsFollowParams
  
  FrameFits
  LoadedMeansRunning
  FilesAreFrames
  RecoveredInOrder
  ReplyComesThrough
PROPERTIES
  RequestServed
  EveryRequestAnswered
CHECK_DEADLOCK FALSE
