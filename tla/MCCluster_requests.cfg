\* Two slaves that stay up; five requests about two objects and two tasks.
SPECIFICATION FairSpec
CONSTANTS
  SlaveVec <- TwoSlaves
  Obj = {"o1", "o2"}
  Task = {"yolov3", "face"}
  NoSlave = NoSlave
  InitTasks <- NoTasks
  Assigned = FALSE
  ObjMax = 4
  LoadMax = 99
  OfflineMax = 30
  OfflineMod = 6
  MaxCrash = 0
  MaxLoss = 0
  MaxRequest = 5
PROPERTIES RequestedServed
