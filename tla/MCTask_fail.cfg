\* An rtsp camera; elements of the shared thread may fail to initialise or start; one
\* heartbeat timeout.
SPECIFICATION Spec
CONSTANTS
  NThreads = 3
  Element <- MCElement
  Queue <- MCQueue
  Eles <- MCEles
  Inputs <- MCInputs
  Producer <- MCProducer
  QueueLen = 1
  Notifies = {"object"}
  Derefs = {"object", "decode"}
  InitFails = {"track"}
  StartFails = {"detect", "track"}
  AlgFails = FALSE
  MaxRestarts = 1
INVARIANTS StopWakesEveryone FirstStartConnected ProcessOnLiveHandle ExpiredOnlyPassedOver
  EndedThreadLeavesNothing TaskInvariant
PROPERTY JoinedBeforeRestart
CHECK_DEADLOCK FALSE
