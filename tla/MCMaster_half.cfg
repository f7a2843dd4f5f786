\* The master dies once; nothing else goes wrong.
SPECIFICATION MCStoreSpec
CONSTANTS
  StSlave = {"s1", "s2"}
  StObj = {"o1"}
  StTask = {"k1"}
  StOutput = {"a"}
  StNone = "none"
  StGone = "gone"
  StOffline = 1
  StBound <- MCDeath
  WcId = {1, 2, 3}
  WcType <- MCType
  WcLimit = 2
  WcCalls = 3
  WcOther = 4
  WcTime = {1, 2}
  WcDocs = 3
  WcSlave = 2
  WcTaskList <- MCTaskList
PROPERTY StoredTasksRun
CHECK_DEADLOCK FALSE
