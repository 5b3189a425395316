SPECIFICATION FairSpec
CONSTANTS
  t1 = t1
  t2 = t2
  t3 = t3
  p1 = p1
  Thread = {t1, t2, t3}
  Proc = {p1}
  ProcOf <- OneProc
  PoolSize = 2
  NoSlot = NoSlot
  NoLink = NoLink
  Stale = Stale
  MayFail = {"del", "add", "addr", "up", "destroy"}
INVARIANTS SlotExclusive OwnLinkIntact
PROPERTIES ImplementsLeasePool BitFollowsOwner LockFree
