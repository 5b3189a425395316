SPECIFICATION Spec
CONSTANT MaxChain = 2
CHECK_DEADLOCK FALSE
INVARIANTS RunsOnlyValid FirstSupported
