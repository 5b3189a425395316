SPECIFICATION FairSpec
CONSTANTS
  Polls = 2
  MayFail = {"wait", "egress", "remove"}
CHECK_DEADLOCK FALSE
INVARIANTS PidPinned LeftBehindIsDoomed
PROPERTIES ImplementsCapsule WorkerEventuallyEnds DestroyReturns
