\* Two requests, a death of the master and of a slave, a lost call and a failed write.
SPECIFICATION MCSpec
CONSTANTS
  StSlave = {"s1", "s2"}
  StObj = {"o1"}
  StTask = {"k1"}
  StOutput = {"a"}
  StNone = "none"
  StGone = "gone"
  StOffline = 1
  StBound <- MCBound
  WcId = {1, 2, 3}
  WcType <- MCType
  WcLimit = 2
  WcCalls = 3
  WcOther = 4
  WcTime = {1, 2}
  WcDocs = 3
  WcSlave = 2
  WcTaskList <- MCTaskList
INVARIANTS StoreConsistent WcTableTrue WcAnswersComplete
CHECK_DEADLOCK FALSE
