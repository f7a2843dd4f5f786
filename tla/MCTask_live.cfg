\* Detector and tracker in one thread, whose elements may fail to initialise or start,
\* behind an rtsp camera that may fall silent.
SPECIFICATION FairSpec
CONSTANTS
  NThreads = 2
  Element <- PairElement
  Queue <- PairQueue
  Eles <- PairEles
  Inputs <- PairInputs
  Producer <- PairProducer
  QueueLen = 2
  Notifies = {"object"}
  Derefs = {}
  InitFails = {"track"}
  StartFails = {"detect", "track"}
  AlgFails = TRUE
  MaxRestarts = 2
PROPERTIES StopReturns StoppedTaskEnds DeadTaskRestarts
CHECK_DEADLOCK FALSE
