SPECIFICATION Spec
CONSTANTS
  c1 = c1
  c2 = c2
  Capsule = {c1}
  Host = Host
  Serial = TRUE
  MayFail = {"veth"}
  Specs <- SpecType
CHECK_DEADLOCK FALSE
INVARIANTS RunsOnlyConfigured
