------------------------------ MODULE LeasePool ------------------------------
(***************************************************************************)
(* What a pool of subnet slots promises its callers: a lease is a slot held *)
(* by one capsule-creating thread, two threads of one host process never    *)
(* hold the same slot, and a host process that dies loses its leases.       *)
(* SlotPool, the compare-and-swap allocator of the code, implements this.   *)
(***************************************************************************)
CONSTANTS
  Thread,   \* threads that create and destroy capsules
  Proc,     \* host processes (each has its own allocator word)
  ProcOf,   \* the host process of a thread
  Slot,     \* the slots of the pool
  NoSlot    \* "holds nothing"

VARIABLE lease    \* the slot each thread holds, or NoSlot

TypeOK == lease \in [Thread -> Slot \cup {NoSlot}]

Init == lease = [t \in Thread |-> NoSlot]

\* A slot is granted only when no thread of the same process holds it.
Acquire(t, s) ==
  /\ lease[t] = NoSlot
  /\ \A u \in Thread : ProcOf[u] = ProcOf[t] => lease[u] # s
  /\ lease' = [lease EXCEPT ![t] = s]

Release(t) ==
  /\ lease[t] # NoSlot
  /\ lease' = [lease EXCEPT ![t] = NoSlot]

\* The host process dies: its in-memory pool, and every lease of it, is gone.
Reset(p) ==
  lease' = [t \in Thread |-> IF ProcOf[t] = p THEN NoSlot ELSE lease[t]]

Next ==
  \/ \E t \in Thread, s \in Slot : Acquire(t, s)
  \/ \E t \in Thread : Release(t)
  \/ \E p \in Proc : Reset(p)

Spec == Init /\ [][Next]_lease
=============================================================================
