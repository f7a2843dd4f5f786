\* The initialisation of the detector fails.
SPECIFICATION FairSpec
CONSTANTS
  NThreads = 3
  Element <- ChainElement
  Queue <- ChainQueue
  Eles <- ChainEles
  Inputs <- ChainInputs
  Producer <- ChainProducer
  QueueLen = 1
  Notifies = {}
  Derefs = {}
  InitFails = {"detect"}
  StartFails = {}
  AlgFails = FALSE
  MaxRestarts = 1
PROPERTIES DeadTaskRestarts
CHECK_DEADLOCK FALSE
