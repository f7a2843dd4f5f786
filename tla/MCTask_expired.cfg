\* A chain of three elements whose plugins do not fail; its object may be deleted by way
\* of another task.
SPECIFICATION Spec
CONSTANTS
  NThreads = 3
  Element <- ChainElement
  Queue <- ChainQueue
  Eles <- ChainEles
  Inputs <- ChainInputs
  Producer <- ChainProducer
  QueueLen = 1
  Notifies = {}
  Derefs = {}
  InitFails = {}
  StartFails = {}
  AlgFails = FALSE
  MaxRestarts = 1
INVARIANT NoExpiredObject
CHECK_DEADLOCK FALSE
