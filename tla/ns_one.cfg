SPECIFICATION FairSpec
CONSTANTS
  c1 = c1
  c2 = c2
  Capsule = {c1}
  Host = Host
  Serial = TRUE
  MayFail = {"stage", "clone", "maps", "veth", "cgroup", "enter", "init", "wait", "cleanup"}
  Specs <- SpecType
CHECK_DEADLOCK FALSE
INVARIANTS ConfiguredOrDoomed InitErrorHonest CleansUpInOrder
PROPERTIES ImplementsCapsule WorkerEventuallyEnds CallsReturn
