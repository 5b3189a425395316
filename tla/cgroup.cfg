SPECIFICATION Spec
CONSTANTS
  Proc <- MCProc
  Capsule = {1, 2, 3}
  host <- MCHost
  want <- MCWant
  required <- MCRequired
  Together = FALSE
  MayFail = {"create", "enter", "limit", "wait", "rmdir"}
  MaxId = 2
  None = None
CHECK_DEADLOCK FALSE
INVARIANTS LimitsHold
PROPERTIES ReportOwn UsedDirStays
