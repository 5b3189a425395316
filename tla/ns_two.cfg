SPECIFICATION Spec
CONSTANTS
  c1 = c1
  c2 = c2
  Capsule = {c1, c2}
  Host = Host
  Serial = TRUE
  MayFail = {"cgroup", "wait", "drop"}
  Specs <- TwoSpecs
CHECK_DEADLOCK FALSE
SYMMETRY Symmetry
INVARIANTS DiagReaderAlone
