SPECIFICATION MCSpec
CONSTANTS
  RtspGen = {"g2"}
  RtspChannel <- MCChannel
  RtspQueueLen = 1
  RtspFrames <- MCFrames
  RtspStopped = {"g2"}
  RtspLate = 0
  RtmpGen = {"g2"}
  RtmpChannel <- MCChannel
  RtmpQueueLen = 1
  RtmpFrames <- MCFrames
  RtmpStopped = {"g2"}
  RtmpLate = 0
  HttpThreads = 2
  HttpQueueLen = 2
  HttpRequests = 3
  MqThread = {"t1", "t2"}
  MqMessages = 1
  MqOutages = 2
  PvGen = {"g1"}
  PvChannel <- MCPvChannel
  PvQueueLen = 1
  PvSegments <- MCPvSegments
  PvPerPass = 3
  PvSame = 1
  PvStopped = {"g1"}
  SoId = {1}
  SoName = {"k1", "k2"}
  SoHttp <- MCHttpNames
  SoRequests = 3
  SoDeaths = 1
PROPERTIES
  SourcesStop SourcesReconnect HttpServesInOrder OutputsLive SoTasksManaged
CHECK_DEADLOCK FALSE
