SPECIFICATION Spec
CONSTANTS
  c1 = c1
  c2 = c2
  Capsule = {c1, c2}
  Host = Host
  Serial = FALSE
  MayFail = {}
  Specs <- TwoSpecs
CHECK_DEADLOCK FALSE
INVARIANTS DiagReaderAlone
