\* One object on the first of two slaves; two crashes.
SPECIFICATION FairSpec
CONSTANTS
  SlaveVec <- TwoSlaves
  Obj = {"o1"}
  Task = {"yolov3"}
  NoSlave = NoSlave
  InitTasks <- EveryTask
  Assigned = TRUE
  ObjMax = 4
  LoadMax = 99
  OfflineMax = 30
  OfflineMod = 6
  MaxCrash = 2
  MaxLoss = 0
  MaxRequest = 0
PROPERTIES TasksServed
CHECK_DEADLOCK FALSE
