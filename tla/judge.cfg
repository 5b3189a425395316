SPECIFICATION FairSpec
CONSTANTS
  Caller = {a, b, c}
  Threshold = 3
  Open = 3
  Timeout = 4
INVARIANTS FailuresBounded TripHoldsIfSilent RecoversInTime
PROPERTIES BreakerRecovers
