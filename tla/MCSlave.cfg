SPECIFICATION MCSpec
CONSTANTS
  RtspGen = {"g1", "g2"}
  RtspChannel <- MCChannel
  RtspQueueLen = 2
  RtspFrames <- MCRtspFrames
  RtspStopped = {"g2"}
  RtspLate = 0
  RtmpGen = {"g1", "g2"}
  RtmpChannel <- MCSameChannel
  RtmpQueueLen = 1
  RtmpFrames <- MCFrames
  RtmpStopped = {"g2"}
  RtmpLate = 0
  MqThread = {"t1", "t2"}
  MqMessages = 2
  MqOutages = 2
  PvGen = {"g1"}
  PvChannel <- MCPvChannel
  PvQueueLen = 1
  PvSegments <- MCPvSegments
  PvPerPass = 1
  PvSame = 0
  PvStopped = {"g1"}
  SoId = {1}
  SoName = {"k1", "k2"}
  SoHttp <- MCHttpNames
  SoRequests = 4
  SoDeaths = 1
  Element <- MCElement
  Queue <- MCQueue
  Inputs <- MCInputs
  Outputs <- MCOutputs
  QueueLen = 2
  MaxFrame = 4
  PlTask = {1, 2}
  PlFile <- MCFile
  AtElements = 4
  TrMaxLost = 1
  TrKeep = 5
  TrPassed = 1
  TrSweep = 2
  TrGap = 1
  TrDets = 2
  TrIds = 2
  TrFrames = 8
  TrRestarts = 1
  LapShapes <- MCShapes
  LapCosts = {0, 1, 3}
  LapHalf = 1
  LapLarge = 100
  TkVocab <- MCVocab
  TkSpecial <- MCSpecial
  TkText <- MCText
  TkMaxChars = 3
  TkMaxLength = {3, 5}
  TkIdsLength = 3
  PxSizes <- MCSizes
  PxLevels = {0, 1, 15, 16, 17, 64, 127, 128, 129, 200, 235, 254, 255}
  OsdWidth = 10
  OsdHeight = 10
  OsdGlyphs <- MCGlyphs
  OsdPackets = 3
INVARIANTS
  RtspDaemonOnLive RtmpReaderJoined MqSafe PvFilesKept SoSafe FlowOrder FlowPairs
  PlSupportsTheFile AtThreadsRight TrExact LapCorrect TkCorrect PxCorrect OsdCorrect
PROPERTIES RtspImplementsStream RtmpImplementsStream FramesAdvance
CHECK_DEADLOCK FALSE
