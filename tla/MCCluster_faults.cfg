\* Two slaves, of which one may crash; one call may be lost; two requests.
SPECIFICATION Spec
CONSTANTS
  SlaveVec <- TwoSlaves
  Obj = {"o1"}
  Task = {"yolov3"}
  NoSlave = NoSlave
  InitTasks <- EveryTask
  Assigned = TRUE
  ObjMax = 4
  LoadMax = 99
  OfflineMax = 30
  OfflineMod = 6
  MaxCrash = 1
  MaxLoss = 1
  MaxRequest = 2
INVARIANTS StoredIsConfigured ObjThreadHasSlave
CHECK_DEADLOCK FALSE
