SPECIFICATION Spec
CONSTANTS
  c1 = c1
  c2 = c2
  Conn = {c1, c2}
  None = None
  NoHost = NoHost
  BadGlob = {}
  Str <- MCStr
  Lower <- MCLower
  EndsWith <- MCEndsWith
  StartsWith <- MCStartsWith
  GlobHit <- MCGlobHit
  Concat <- MCConcat
  AfterScheme <- MCAfterScheme
  Addr <- MCAddr
  FirstHead <- MCHead
  Inner <- MCInner
  Policies <- UnjudgedPolicies
CHECK_DEADLOCK FALSE
INVARIANT ForwardsOnlyAllowed
