--------------------------- MODULE SlotPoolProofs ----------------------------
(* Theorems about SlotPool, for any threads, processes, pool size and faults. *)
EXTENDS SlotPool, TLAPS

\* A thread about to exchange picked a bit that was clear in the word it loaded.
PickedClear ==
  \A t \in Thread : pc[t] = "cas" => slot[t] \in Slot \ snap[t]

\* The bit of every slot held is set.
HeldIsSet ==
  \A t \in Thread : pc[t] \in Holding => slot[t] \in MyBits(t) /\ slot[t] \in Slot

\* The inductive invariant: SlotExclusive alone does not survive Cas, which
\* needs to know that a held slot is set in the word compared and that the
\* slot picked is clear in it.
IInv == TypeOK /\ PickedClear /\ HeldIsSet /\ SlotExclusive

USE DEF Holding, PC, MyBits, Goto, Finish

\* At first no slot is picked or held.
LEMMA InitIInv == Init => IInv
BY ProcAssumption, NullAssumption DEF Init, IInv, TypeOK, PickedClear, HeldIsSet, SlotExclusive

\* Load picks a clear bit of the word it read.
LEMMA LoadIInv == ASSUME IInv, NEW t \in Thread, Load(t) PROVE IInv'
<1> USE ProcAssumption, NullAssumption DEF IInv, Load
<1>1. TypeOK' BY DEF TypeOK
<1>2. PickedClear' BY DEF TypeOK, PickedClear
<1>3. HeldIsSet' BY DEF TypeOK, HeldIsSet
<1>4. SlotExclusive' BY DEF TypeOK, SlotExclusive
<1> QED BY <1>1, <1>2, <1>3, <1>4

\* Cas wins its slot only if the word is still the one it read.
LEMMA CasIInv == ASSUME IInv, NEW t \in Thread, Cas(t) PROVE IInv'
<1> USE ProcAssumption, NullAssumption DEF IInv, Cas
<1>0. slot[t] \in Slot /\ slot[t] \notin snap[t] BY DEF PickedClear
<1>1. TypeOK' BY <1>0 DEF TypeOK
<1>2. PickedClear' BY DEF TypeOK, PickedClear
<1>3. HeldIsSet'
  <2> SUFFICES ASSUME NEW u \in Thread, pc'[u] \in Holding
               PROVE  slot'[u] \in slotBits'[ProcOf[u]] /\ slot'[u] \in Slot
    BY DEF HeldIsSet
  <2>1. CASE u = t
    <3>1. MyBits(t) = snap[t] BY <2>1 DEF TypeOK
    <3>2. slotBits'[ProcOf[t]] = slotBits[ProcOf[t]] \cup {slot[t]}
      BY <3>1 DEF TypeOK
    <3> QED BY <1>0, <2>1, <3>1, <3>2 DEF TypeOK
  <2>2. CASE u # t
    <3>1. pc[u] \in Holding /\ slot'[u] = slot[u] BY <2>2 DEF TypeOK
    <3>2. slotBits[ProcOf[u]] \subseteq slotBits'[ProcOf[u]]
      <4>1. CASE MyBits(t) = snap[t]
        <5>1. slotBits' = [slotBits EXCEPT ![ProcOf[t]] = @ \cup {slot[t]}]
          BY <4>1
        <5> QED BY <5>1 DEF TypeOK
      <4>2. CASE MyBits(t) # snap[t] BY <4>2
      <4> QED BY <4>1, <4>2
    <3> QED BY <3>1, <3>2 DEF HeldIsSet
  <2> QED BY <2>1, <2>2
<1>4. SlotExclusive'
  <2>1. CASE MyBits(t) = snap[t]
    \* The slot just won was clear, so no other thread of the process holds it.
    <3>1. \A u \in Thread : (ProcOf[u] = ProcOf[t] /\ pc[u] \in Holding)
                               => slot[u] # slot[t]
      BY <1>0, <2>1 DEF HeldIsSet
    <3> QED BY <2>1, <3>1 DEF TypeOK, SlotExclusive
  <2>2. CASE MyBits(t) # snap[t] BY <2>2 DEF TypeOK, SlotExclusive
  <2> QED BY <2>1, <2>2
<1> QED BY <1>1, <1>2, <1>3, <1>4

\* A release clears only its own bit.
LEMMA ReleaseIInv == ASSUME IInv, NEW t \in Thread, ReleaseSlot(t) PROVE IInv'
<1> USE ProcAssumption, NullAssumption DEF IInv, ReleaseSlot
<1>1. TypeOK' BY DEF TypeOK
<1>2. PickedClear' BY DEF TypeOK, PickedClear
<1>3. HeldIsSet'
  <2> SUFFICES ASSUME NEW u \in Thread, pc'[u] \in Holding
               PROVE  slot'[u] \in slotBits'[ProcOf[u]] /\ slot'[u] \in Slot
    BY DEF HeldIsSet
  <2>1. u # t /\ pc[u] = pc'[u] /\ slot'[u] = slot[u] BY DEF TypeOK
  \* What is cleared is t's own bit, and u holds another slot.
  <2>2. ProcOf[u] = ProcOf[t] => slot[u] # slot[t] BY <2>1 DEF SlotExclusive
  <2> QED BY <2>1, <2>2 DEF TypeOK, HeldIsSet
<1>4. SlotExclusive' BY DEF TypeOK, SlotExclusive
<1> QED BY <1>1, <1>2, <1>3, <1>4

\* The steps that leave the bits, the loaded words and the owned slots alone.
LEMMA LinkStepIInv ==
  ASSUME IInv, NEW t \in Thread,
         \/ Begin(t) \/ DelStale(t) \/ AddLink(t) \/ AddAddr(t) \/ LinkUp(t)
         \/ NetnsGone(t) \/ Teardown(t) \/ AbandonDestroy(t) \/ DelLink(t)
  PROVE  IInv'
<1> USE ProcAssumption, NullAssumption
        DEF IInv, Begin, DelStale, AddLink, AddAddr, LinkUp, Configure,
            NetnsGone, Teardown, AbandonDestroy, DelLink, TryDel, Remove
<1>1. TypeOK' BY DEF TypeOK
<1>2. PickedClear' BY DEF TypeOK, PickedClear
<1>3. HeldIsSet' BY DEF TypeOK, HeldIsSet
<1>4. SlotExclusive' BY DEF TypeOK, SlotExclusive
<1> QED BY <1>1, <1>2, <1>3, <1>4

\* A crash takes the word and its holders together.
LEMMA CrashIInv == ASSUME IInv, NEW p \in Proc, Crash(p) PROVE IInv'
<1> USE ProcAssumption, NullAssumption DEF IInv, Crash
<1>1. TypeOK' BY DEF TypeOK
<1>2. PickedClear' BY DEF TypeOK, PickedClear
<1>3. HeldIsSet' BY DEF TypeOK, HeldIsSet
<1>4. SlotExclusive' BY DEF TypeOK, SlotExclusive
<1> QED BY <1>1, <1>2, <1>3, <1>4

\* IInv is inductive.
LEMMA NextIInv == IInv /\ [Next]_vars => IInv'
<1> SUFFICES ASSUME IInv, [Next]_vars PROVE IInv' OBVIOUS
<1>1. ASSUME NEW t \in Thread, Begin(t) \/ NetnsGone(t) \/ Teardown(t) \/ AbandonDestroy(t)
      PROVE  IInv'
  BY <1>1, LinkStepIInv
<1>2. ASSUME NEW t \in Thread, Step(t) PROVE IInv'
  BY <1>2, LoadIInv, CasIInv, ReleaseIInv, LinkStepIInv DEF Step
<1>3. ASSUME NEW p \in Proc, Crash(p) PROVE IInv' BY <1>3, CrashIInv
<1>4. CASE UNCHANGED vars
  BY <1>4 DEF vars, IInv, TypeOK, PickedClear, HeldIsSet, SlotExclusive
<1> QED BY <1>1, <1>2, <1>3, <1>4 DEF Next

\* IInv holds in every state.
LEMMA Invariance == Spec => []IInv
BY InitIInv, NextIInv, PTL DEF Spec

\* Every variable of the allocator keeps its type; in particular a thread never
\* picks a slot outside the pool (netns.rs allocate_slot).
THEOREM TypeCorrect == Spec => []TypeOK
BY Invariance, PTL DEF IInv

\* allocate_slot never gives one slot to two threads of a process, for any
\* number of threads and slots, with crashes and failing commands.
THEOREM Exclusion == Spec => []SlotExclusive
BY Invariance, PTL DEF IInv
-----------------------------------------------------------------------------
(* Slots that are lost.                                                     *)

\* A step of one thread takes the ownership of no slot but its own, and sets no
\* bit but that of the slot it comes to hold.
LEMMA StepBit ==
  ASSUME IInv, NEW t \in Thread,
         \A u \in Thread \ {t} : pc'[u] = pc[u] /\ slot'[u] = slot[u],
         \A p \in Proc : \A s \in slotBits'[p] :
            s \in slotBits[p] \/ (p = ProcOf[t] /\ s = slot'[t] /\ pc'[t] \in Holding),
         \/ pc[t] \notin Holding
         \/ pc'[t] \in Holding /\ slot'[t] = slot[t]
         \/ slot[t] \notin slotBits'[ProcOf[t]]
         \/ pc[t] \in {"add", "live", "dead"} /\ pc'[t] = "idle"
  PROVE  BitStep
<1> SUFFICES ASSUME NEW p \in Proc, NEW s \in slotBits'[p], ~LeftBehind(p, s),
                    ~(s \in slotBits[p] /\ ~Owned(p, s))
             PROVE  Owned(p, s)'
  BY DEF BitStep
<1>1. CASE s \notin slotBits[p] BY <1>1, ProcAssumption DEF Owned, IInv, TypeOK
<1>2. CASE s \in slotBits[p]
  <2>1. PICK u \in Thread : ProcOf[u] = p /\ pc[u] \in Holding /\ slot[u] = s BY <1>2 DEF Owned
  <2>2. CASE u # t BY <2>1, <2>2 DEF Owned
  <2>3. CASE u = t BY <2>1, <2>3 DEF Owned, LeftBehind
  <2> QED BY <2>2, <2>3
<1> QED BY <1>1, <1>2

\* The same for a step that changes no bit.
LEMMA StillBit ==
  ASSUME IInv, NEW t \in Thread, NEW label, Goto(t, label), UNCHANGED slotBits,
         slot' = slot \/ slot' = [slot EXCEPT ![t] = slot'[t]],
         \/ pc[t] \notin Holding
         \/ label \in Holding /\ slot' = slot
         \/ pc[t] \in {"add", "live", "dead"} /\ label = "idle"
  PROVE  BitStep
<1>1. pc'[t] = label /\ \A u \in Thread \ {t} : pc'[u] = pc[u] /\ slot'[u] = slot[u]
  BY DEF IInv, TypeOK
<1> QED BY <1>1, StepBit

\* Every step keeps the bits with their owners.
LEMMA NextBit == IInv /\ [Next]_vars => [BitStep]_vars
<1> SUFFICES ASSUME IInv, Next PROVE BitStep OBVIOUS
<1>1. ASSUME NEW t \in Thread, Begin(t) \/ Load(t) PROVE BitStep
  <2>1. \E label : Goto(t, label) /\ (slot' = slot \/ \E x : slot' = [slot EXCEPT ![t] = x])
    BY <1>1 DEF Begin, Load
  <2>2. slot' = slot \/ slot' = [slot EXCEPT ![t] = slot'[t]] BY <2>1 DEF IInv, TypeOK
  <2>3. pc[t] \notin Holding /\ UNCHANGED slotBits BY <1>1 DEF Begin, Load
  <2> QED BY <2>1, <2>2, <2>3, StillBit
<1>2. ASSUME NEW t \in Thread, Cas(t) PROVE BitStep
  <2>1. pc[t] = "cas" /\ \A u \in Thread \ {t} : pc'[u] = pc[u] /\ slot'[u] = slot[u]
    BY <1>2 DEF Cas, IInv, TypeOK
  <2>2. CASE MyBits(t) = snap[t]
    <3>1. slotBits' = [slotBits EXCEPT ![ProcOf[t]] = @ \cup {slot[t]}] BY <1>2, <2>2 DEF Cas
    <3>2. pc'[t] = "stale" /\ slot'[t] = slot[t] BY <1>2, <2>2 DEF Cas, IInv, TypeOK
    <3>3. \A p \in Proc : \A s \in slotBits'[p] :
             s \in slotBits[p] \/ (p = ProcOf[t] /\ s = slot'[t] /\ pc'[t] \in Holding)
      BY <3>1, <3>2 DEF IInv, TypeOK
    <3> QED BY <2>1, <3>3, StepBit
  <2>3. CASE MyBits(t) # snap[t]
    <3>1. slotBits' = slotBits BY <1>2, <2>3 DEF Cas
    <3> QED BY <2>1, <3>1, StepBit
  <2> QED BY <2>2, <2>3
<1>3. ASSUME NEW t \in Thread, ReleaseSlot(t) PROVE BitStep
  <2>1. \A u \in Thread \ {t} : pc'[u] = pc[u] /\ slot'[u] = slot[u]
    BY <1>3 DEF ReleaseSlot, IInv, TypeOK
  <2>2. slotBits' = [slotBits EXCEPT ![ProcOf[t]] = @ \ {slot[t]}] BY <1>3 DEF ReleaseSlot
  <2>3. slot[t] \notin slotBits'[ProcOf[t]] BY <2>2, ProcAssumption DEF IInv, TypeOK
  <2>4. \A p \in Proc : slotBits'[p] \subseteq slotBits[p] BY <2>2 DEF IInv, TypeOK
  <2> QED BY <2>1, <2>3, <2>4, StepBit
<1>4. ASSUME NEW t \in Thread, AddLink(t) \/ AbandonDestroy(t) PROVE BitStep
  <2>1. UNCHANGED slotBits /\ pc[t] \in {"add", "live", "dead"} BY <1>4 DEF AddLink, AbandonDestroy
  <2>2. CASE Goto(t, "addr") /\ slot' = slot BY <2>1, <2>2, StillBit
  <2>3. CASE Finish(t)
    <3>1. slot' = [slot EXCEPT ![t] = slot'[t]] BY <2>3 DEF IInv, TypeOK
    <3> QED BY <2>1, <2>3, <3>1, StillBit
  <2> QED BY <1>4, <2>2, <2>3 DEF AddLink, AbandonDestroy
<1>5. ASSUME NEW t \in Thread,
             DelStale(t) \/ AddAddr(t) \/ LinkUp(t) \/ NetnsGone(t) \/ Teardown(t) \/ DelLink(t)
      PROVE BitStep
  <2>1. UNCHANGED <<slotBits, slot>>
        /\ \E label \in Holding : Goto(t, label)
    BY <1>5 DEF DelStale, AddAddr, LinkUp, Configure, NetnsGone, Teardown, DelLink
  <2> QED BY <2>1, StillBit
<1>6. ASSUME NEW p \in Proc, Crash(p) PROVE BitStep
  <2>0. \A q \in Proc : slotBits'[q] \subseteq slotBits[q] BY <1>6 DEF Crash, IInv, TypeOK
  <2> SUFFICES ASSUME NEW q \in Proc, NEW s \in slotBits'[q], Owned(q, s) PROVE Owned(q, s)'
    BY <2>0 DEF BitStep
  <2>1. q # p BY <1>6 DEF Crash, IInv, TypeOK
  <2> QED BY <1>6, <2>1 DEF Crash, Owned
<1> QED BY <1>1, <1>2, <1>3, <1>4, <1>5, <1>6 DEF Next, Step

\* A bit goes with its owner's release, or with the whole process.
LEMMA NextClear == ASSUME IInv, Next PROVE ClearStep
<1> USE DEF IInv, TypeOK
<1>1. ASSUME NEW t \in Thread, Begin(t) \/ NetnsGone(t) \/ Teardown(t) \/ AbandonDestroy(t) PROVE ClearStep
  BY <1>1 DEF Begin, NetnsGone, Teardown, AbandonDestroy, ClearStep
<1>2. ASSUME NEW t \in Thread, Load(t) \/ DelStale(t) \/ AddLink(t) \/ AddAddr(t) \/ LinkUp(t) \/ DelLink(t)
      PROVE  ClearStep
  BY <1>2 DEF Load, DelStale, AddLink, AddAddr, LinkUp, Configure, DelLink, ClearStep
<1>3. ASSUME NEW t \in Thread, Cas(t) PROVE ClearStep
  <2>1. slotBits' \in {slotBits, [slotBits EXCEPT ![ProcOf[t]] = @ \cup {slot[t]}]} BY <1>3 DEF Cas
  <2>2. \A p \in Proc : slotBits[p] \subseteq slotBits'[p] BY <2>1
  <2> QED BY <2>2 DEF ClearStep
<1>4. ASSUME NEW t \in Thread, ReleaseSlot(t) PROVE ClearStep
  <2>1. slotBits' = [slotBits EXCEPT ![ProcOf[t]] = @ \ {slot[t]}] /\ pc[t] = "release" /\ pc'[t] = "idle"
    BY <1>4 DEF ReleaseSlot
  <2>2. \A p \in Proc : \A s \in slotBits[p] \ slotBits'[p] : p = ProcOf[t] /\ s = slot[t] BY <2>1
  <2> QED BY <2>1, <2>2 DEF ClearStep
<1>5. ASSUME NEW p \in Proc, Crash(p) PROVE ClearStep
  <2>1. \A q \in Proc : q # p => slotBits'[q] = slotBits[q] BY <1>5 DEF Crash
  <2>2. \A t \in Thread : ProcOf[t] = p => pc'[t] = "idle" BY <1>5 DEF Crash
  <2> QED BY <2>1, <2>2 DEF ClearStep
<1> QED BY <1>1, <1>2, <1>3, <1>4, <1>5 DEF Next, Step

\* However threads, failing commands and crashes interleave, a slot's bit is
\* cleared only by the release of the thread that holds it or with its process,
\* and left set without a holder only where setup_host_side returns from a failing
\* `ip link add` and where destroy is given up before teardown.
THEOREM BitsFollowOwners == Spec => BitFollowsOwner
<1>1. IInv /\ [Next]_vars => [BitStep /\ ClearStep]_vars BY NextBit, NextClear
<1> QED BY <1>1, Invariance, PTL DEF Spec, BitFollowsOwner
-----------------------------------------------------------------------------
(* The interface behind the slot, when every thread is in one host process.  *)

\* In one process, a step on one slot's interface is taken by the slot's owner.
LEMMA LinkStep ==
  ASSUME \A t, u \in Thread : ProcOf[t] = ProcOf[u],
         IInv, OwnLinkIntact, [Next]_vars
  PROVE  OwnLinkIntact'
<1> USE ProcAssumption, NullAssumption DEF IInv
\* A step of u on the interface of its own slot does not touch another's.
<1>0. \A t, u \in Thread : (t # u /\ pc[t] \in Holding /\ pc[u] \in Holding)
                              => slot[t] # slot[u] /\ slot[t] \in Slot
  BY DEF SlotExclusive, HeldIsSet
<1>1. ASSUME NEW u \in Thread, Load(u) \/ Cas(u) \/ ReleaseSlot(u) \/ Begin(u)
                              \/ Teardown(u) \/ AbandonDestroy(u)
      PROVE  OwnLinkIntact'
  BY <1>1 DEF OwnLinkIntact, TypeOK, Load, Cas, ReleaseSlot, Begin, Teardown, AbandonDestroy
<1>2. ASSUME NEW u \in Thread, AddAddr(u) \/ LinkUp(u)
      PROVE  OwnLinkIntact'
  BY <1>2 DEF OwnLinkIntact, TypeOK, AddAddr, LinkUp, Configure
<1>3. ASSUME NEW u \in Thread, DelStale(u) \/ DelLink(u) \/ NetnsGone(u)
      PROVE  OwnLinkIntact'
  BY <1>0, <1>3 DEF OwnLinkIntact, TypeOK, DelStale, DelLink, NetnsGone, TryDel, Remove
<1>4. ASSUME NEW u \in Thread, AddLink(u)
      PROVE  OwnLinkIntact'
  <2>1. slot[u] \in Slot BY <1>4 DEF AddLink, HeldIsSet
  <2> QED BY <1>0, <1>4, <2>1 DEF OwnLinkIntact, TypeOK, AddLink
<1>5. ASSUME NEW p \in Proc, Crash(p)
      PROVE  OwnLinkIntact'
  <2>1. (\E t \in Thread : ProcOf[t] = p) => \A t \in Thread : pc'[t] = "idle"
    BY <1>5 DEF Crash, TypeOK
  <2>2. (\A t \in Thread : ProcOf[t] # p) => /\ \A t \in Thread : pc'[t] = pc[t] /\ slot'[t] = slot[t]
                                            /\ \A s \in Slot : link'[s] = link[s]
    BY <1>5 DEF Crash, TypeOK
  <2> QED BY <2>1, <2>2 DEF OwnLinkIntact, HeldIsSet
<1>6. CASE UNCHANGED vars BY <1>6 DEF vars, OwnLinkIntact
<1> QED BY <1>1, <1>2, <1>3, <1>4, <1>5, <1>6 DEF Next, Step

\* Within one host process an interface stays its creator's until its capsule
\* ends, whatever commands fail (netns.rs setup_host_side, teardown).
THEOREM LinkIntact ==
  ASSUME \A t, u \in Thread : ProcOf[t] = ProcOf[u]
  PROVE  Spec => []OwnLinkIntact
<1>1. Init => OwnLinkIntact BY DEF Init, OwnLinkIntact
<1>2. IInv /\ OwnLinkIntact /\ [Next]_vars => OwnLinkIntact' BY LinkStep
<1> QED BY <1>1, <1>2, Invariance, PTL DEF Spec

-----------------------------------------------------------------------------
(* No slot is lost when the host process is alone and `ip link del` works.    *)

\* Every set bit has an owner: PoolExhausted is returned only when capsules that
\* still have to give their slots back hold all of them.
NoSlotLost == \A p \in Proc : \A s \in slotBits[p] : Owned(p, s)

\* The name that `ip link add` is about to take is free.
NameFree == \A t \in Thread : pc[t] = "add" => link[slot[t]] = NoLink

\* After a removal that worked, nobody else in the process makes the interface.
LEMMA NameStep ==
  ASSUME \A t, u \in Thread : ProcOf[t] = ProcOf[u], "del" \notin MayFail,
         IInv, NameFree, [Next]_vars
  PROVE  NameFree'
<1> USE ProcAssumption, NullAssumption DEF IInv
<1>0. \A t, u \in Thread : (t # u /\ pc[t] \in Holding /\ pc[u] \in Holding)
                              => slot[t] # slot[u] /\ slot[t] \in Slot
  BY DEF SlotExclusive, HeldIsSet
<1>1. ASSUME NEW u \in Thread, Load(u) \/ Cas(u) \/ ReleaseSlot(u) \/ Begin(u)
                              \/ Teardown(u) \/ AbandonDestroy(u)
      PROVE  NameFree'
  BY <1>1 DEF NameFree, TypeOK, Load, Cas, ReleaseSlot, Begin, Teardown, AbandonDestroy
<1>2. ASSUME NEW u \in Thread, AddAddr(u) \/ LinkUp(u) PROVE NameFree'
  BY <1>2 DEF NameFree, TypeOK, AddAddr, LinkUp, Configure
<1>3. ASSUME NEW u \in Thread, DelStale(u) \/ DelLink(u) \/ NetnsGone(u) PROVE NameFree'
  <2>1. slot[u] \in Slot BY <1>3 DEF DelStale, DelLink, NetnsGone, HeldIsSet
  <2> QED BY <1>0, <1>3, <2>1 DEF NameFree, TypeOK, DelStale, DelLink, NetnsGone, TryDel, Remove
<1>4. ASSUME NEW u \in Thread, AddLink(u) PROVE NameFree'
  <2>1. slot[u] \in Slot BY <1>4 DEF AddLink, HeldIsSet
  <2> QED BY <1>0, <1>4, <2>1 DEF NameFree, TypeOK, AddLink
<1>5. ASSUME NEW p \in Proc, Crash(p) PROVE NameFree'
  <2>1. (\E t \in Thread : ProcOf[t] = p) => \A t \in Thread : pc'[t] = "idle"
    BY <1>5 DEF Crash, TypeOK
  <2>2. (\A t \in Thread : ProcOf[t] # p) => /\ \A t \in Thread : pc'[t] = pc[t] /\ slot'[t] = slot[t]
                                            /\ \A s \in Slot : link'[s] = link[s]
    BY <1>5 DEF Crash, TypeOK
  <2> QED BY <2>1, <2>2 DEF NameFree, HeldIsSet
<1>6. CASE UNCHANGED vars BY <1>6 DEF vars, NameFree
<1> QED BY <1>1, <1>2, <1>3, <1>4, <1>5, <1>6 DEF Next, Step

\* A thread that leaves a slot behind is taken down with its process.
LEMMA LostStep ==
  ASSUME {"add", "destroy"} \cap MayFail = {}, IInv, NameFree, NoSlotLost, [Next]_vars
  PROVE  NoSlotLost'
<1> USE ProcAssumption DEF IInv
<1>1. CASE UNCHANGED vars BY <1>1 DEF vars, NoSlotLost, Owned
<1>2. CASE Next
  <2>1. BitStep BY <1>2, NextBit DEF vars, BitStep, Owned, LeftBehind, NoSlotLost
  <2> SUFFICES ASSUME NEW p \in Proc, NEW s \in slotBits'[p], LeftBehind(p, s) PROVE FALSE
    BY <2>1 DEF BitStep, NoSlotLost
  <2>2. PICK t \in Thread : /\ ProcOf[t] = p /\ slot[t] = s
                            /\ pc[t] \in {"add", "live", "dead"} /\ pc'[t] = "idle"
    BY DEF LeftBehind
  <2>3. ASSUME NEW u \in Thread, Begin(u) \/ NetnsGone(u) \/ Teardown(u) \/ AbandonDestroy(u)
        PROVE  FALSE
    BY <2>2, <2>3 DEF Begin, NetnsGone, Teardown, AbandonDestroy, TypeOK
  <2>4. ASSUME NEW u \in Thread, Step(u) PROVE FALSE
    BY <2>2, <2>4 DEF Step, Load, Cas, DelStale, AddLink, AddAddr, LinkUp, Configure, DelLink,
                      ReleaseSlot, TypeOK, NameFree
  <2>5. ASSUME NEW q \in Proc, Crash(q) PROVE FALSE BY <2>2, <2>5 DEF Crash, TypeOK
  <2> QED BY <1>2, <2>3, <2>4, <2>5 DEF Next
<1> QED BY <1>1, <1>2

\* In a host process that is alone, whose `ip link del` and `ip link add` work and
\* whose destroys reach teardown, no slot is ever lost: not by a failing address or
\* link-up command, not by a crash and what it leaves, not by any race of
\* allocate_slot with release_slot.
THEOREM SlotsAreNotLost ==
  ASSUME \A t, u \in Thread : ProcOf[t] = ProcOf[u],
         {"del", "add", "destroy"} \cap MayFail = {}
  PROVE  Spec => []NoSlotLost
<1>1. Init => NameFree /\ NoSlotLost BY DEF Init, NameFree, NoSlotLost
<1>2. IInv /\ NameFree /\ [Next]_vars => NameFree' BY NameStep
<1>3. IInv /\ NameFree /\ NoSlotLost /\ [Next]_vars => NoSlotLost' BY LostStep
<1> QED BY <1>1, <1>2, <1>3, Invariance, PTL DEF Spec

-----------------------------------------------------------------------------
(* The safety half of LockFree: an exchange fails only because of progress.   *)

\* Another thread of t's process wins a slot or gives one back.
OtherProgress(t) ==
  \E u \in Thread \ {t} :
    /\ ProcOf[u] = ProcOf[t]
    /\ \/ pc[u] = "cas" /\ pc'[u] = "stale"
       \/ pc[u] = "release" /\ pc'[u] = "idle"

\* A thread between its load and its exchange, with the word as it read it, is
\* sure to win unless another thread of the process gets ahead or all of them die.
ExchangeStep ==
  \A t \in Thread :
    pc[t] = "cas" /\ MyBits(t) = snap[t] =>
      \/ pc'[t] = "cas" /\ MyBits(t)' = snap'[t]
      \/ pc'[t] = "stale" /\ slot'[t] = slot[t] /\ slot[t] \in MyBits(t)'
      \/ OtherProgress(t)
      \/ \A u \in Thread : ProcOf[u] = ProcOf[t] => pc'[u] = "idle"

\* A compare_exchange of allocate_slot comes to fail only by another thread's success;
\* a crash ends all threads of the process at once.
LosesOnlyToProgress == [][ExchangeStep]_vars

LEMMA NextExchange == IInv /\ [Next]_vars => [ExchangeStep]_vars
<1> SUFFICES ASSUME IInv, Next, NEW t \in Thread, pc[t] = "cas", MyBits(t) = snap[t]
             PROVE  \/ pc'[t] = "cas" /\ MyBits(t)' = snap'[t]
                    \/ pc'[t] = "stale" /\ slot'[t] = slot[t] /\ slot[t] \in MyBits(t)'
                    \/ OtherProgress(t)
                    \/ \A u \in Thread : ProcOf[u] = ProcOf[t] => pc'[u] = "idle"
  BY DEF ExchangeStep
<1> USE ProcAssumption, NullAssumption DEF IInv, TypeOK
<1>1. CASE Cas(t)
  <2>1. pc'[t] = "stale" /\ slot'[t] = slot[t] BY <1>1 DEF Cas
  <2>2. slotBits' = [slotBits EXCEPT ![ProcOf[t]] = @ \cup {slot[t]}] BY <1>1 DEF Cas
  <2> QED BY <2>1, <2>2
\* Steps that set or clear no bit.
<1>2. ASSUME NEW u \in Thread, Step(u), u # t, UNCHANGED slotBits PROVE pc'[t] = "cas" /\ snap'[t] = snap[t]
  BY <1>2 DEF Step, Load, Cas, DelStale, AddLink, AddAddr, LinkUp, Configure, DelLink, ReleaseSlot
<1>3. ASSUME NEW u \in Thread, Step(u), u # t, slotBits' # slotBits
      PROVE  OtherProgress(t) \/ (pc'[t] = "cas" /\ snap'[t] = snap[t] /\ slotBits'[ProcOf[t]] = slotBits[ProcOf[t]])
  <2>1. Cas(u) \/ ReleaseSlot(u)
    BY <1>3 DEF Step, Load, DelStale, AddLink, AddAddr, LinkUp, Configure, DelLink
  <2>2. \/ pc[u] = "cas" /\ pc'[u] = "stale"
        \/ pc[u] = "release" /\ pc'[u] = "idle"
    BY <1>3, <2>1 DEF Cas, ReleaseSlot
  <2>3. pc'[t] = "cas" /\ snap'[t] = snap[t] BY <1>3, <2>1 DEF Cas, ReleaseSlot
  <2>4. ProcOf[u] # ProcOf[t] => slotBits'[ProcOf[t]] = slotBits[ProcOf[t]] BY <1>3, <2>1 DEF Cas, ReleaseSlot
  <2> QED BY <1>3, <2>2, <2>3, <2>4 DEF OtherProgress
<1>4. ASSUME NEW u \in Thread, Begin(u) \/ NetnsGone(u) \/ Teardown(u) \/ AbandonDestroy(u)
      PROVE  pc'[t] = "cas" /\ snap'[t] = snap[t] /\ UNCHANGED slotBits
  BY <1>4 DEF Begin, NetnsGone, Teardown, AbandonDestroy
<1>5. ASSUME NEW p \in Proc, Crash(p)
      PROVE  \/ pc'[t] = "cas" /\ snap'[t] = snap[t] /\ slotBits'[ProcOf[t]] = slotBits[ProcOf[t]]
             \/ \A u \in Thread : ProcOf[u] = ProcOf[t] => pc'[u] = "idle"
  BY <1>5 DEF Crash
<1>6. Step(t) => Cas(t)
  BY DEF Step, Load, DelStale, AddLink, AddAddr, LinkUp, Configure, DelLink, ReleaseSlot
<1> QED BY <1>1, <1>2, <1>3, <1>4, <1>5, <1>6 DEF Next

\* A thread of allocate_slot goes round its loop only because another thread of
\* the process has won a slot or given one back since it loaded the word: nobody
\* waits for a thread that does not run.
THEOREM LosersSeeProgress == Spec => LosesOnlyToProgress
BY NextExchange, Invariance, PTL DEF Spec, LosesOnlyToProgress

-----------------------------------------------------------------------------
(* Refinement                                                               *)

\* At first no lease is held.
LEMMA LeaseInit == Init => L!Init
BY DEF Init, L!Init, leaseMap

\* Winning the exchange acquires the lease.
LEMMA CasRefines == ASSUME IInv, NEW t \in Thread, Cas(t)
                    PROVE  [L!Next]_leaseMap
<1> USE ProcAssumption, NullAssumption DEF IInv, leaseMap
<1>0. slot[t] \in Slot /\ slot[t] \notin snap[t] BY DEF PickedClear, Cas
<1>1. CASE MyBits(t) = snap[t]
  <2>1. \A u \in Thread : ProcOf[u] = ProcOf[t] => leaseMap[u] # slot[t]
    BY <1>0, <1>1 DEF HeldIsSet
  <2>2. leaseMap[t] = NoSlot BY DEF Cas
  <2>3. leaseMap' = [leaseMap EXCEPT ![t] = slot[t]] BY <1>1 DEF Cas, TypeOK
  <2> QED BY <1>0, <2>1, <2>2, <2>3 DEF L!Next, L!Acquire
<1>2. CASE MyBits(t) # snap[t]
  <2>1. leaseMap' = leaseMap BY <1>2 DEF Cas, TypeOK
  <2> QED BY <2>1
<1> QED BY <1>1, <1>2

\* Leaving the holding region, by any path, gives the lease back.
LEMMA FinishRefines ==
  ASSUME IInv, NEW t \in Thread, pc[t] \in Holding, Finish(t)
  PROVE  [L!Next]_leaseMap
<1> USE ProcAssumption, NullAssumption DEF IInv, leaseMap
<1>1. leaseMap[t] # NoSlot BY DEF HeldIsSet
<1>2. leaseMap' = [leaseMap EXCEPT ![t] = NoSlot] BY DEF TypeOK
<1> QED BY <1>1, <1>2 DEF L!Next, L!Release

\* Moving inside the holding region, or outside it, is a stutter.
LEMMA MoveRefines ==
  ASSUME IInv, NEW t \in Thread, NEW label \in PC, Goto(t, label),
         pc[t] \in Holding /\ label \in Holding /\ slot' = slot
  PROVE  [L!Next]_leaseMap
BY DEF IInv, TypeOK, leaseMap

\* Every step is one of the lease pool or invisible to it.
LEMMA NextRefines == IInv /\ [Next]_vars => [L!Next]_leaseMap
<1> SUFFICES ASSUME IInv, [Next]_vars PROVE [L!Next]_leaseMap OBVIOUS
<1>1. ASSUME NEW t \in Thread, Begin(t) \/ Load(t) PROVE [L!Next]_leaseMap
  BY <1>1 DEF IInv, TypeOK, leaseMap, Begin, Load
<1>2. ASSUME NEW t \in Thread, Cas(t) PROVE [L!Next]_leaseMap
  BY <1>2, CasRefines
<1>3. ASSUME NEW t \in Thread, ReleaseSlot(t) \/ AbandonDestroy(t)
      PROVE [L!Next]_leaseMap
  BY <1>3, FinishRefines DEF ReleaseSlot, AbandonDestroy
<1>4. ASSUME NEW t \in Thread, AddLink(t) PROVE [L!Next]_leaseMap
  BY <1>4, FinishRefines, MoveRefines DEF AddLink
<1>5. ASSUME NEW t \in Thread,
             \/ DelStale(t) \/ AddAddr(t) \/ LinkUp(t) \/ NetnsGone(t)
             \/ Teardown(t) \/ DelLink(t)
      PROVE [L!Next]_leaseMap
  BY <1>5, MoveRefines
     DEF DelStale, AddAddr, LinkUp, Configure, NetnsGone, Teardown, DelLink
<1>6. ASSUME NEW p \in Proc, Crash(p) PROVE [L!Next]_leaseMap
  <2>1. leaseMap' = [t \in Thread |-> IF ProcOf[t] = p THEN NoSlot ELSE leaseMap[t]]
    BY <1>6 DEF Crash, leaseMap
  <2> QED BY <2>1 DEF L!Next, L!Reset
<1>7. CASE UNCHANGED vars BY <1>7 DEF vars, leaseMap
<1> QED BY <1>1, <1>2, <1>3, <1>4, <1>5, <1>6, <1>7 DEF Next, Step

\* The compare-and-swap allocator implements the abstract lease pool: every step
\* grants a lease that was free, gives one back, or changes no lease.
THEOREM Refinement == Spec => ImplementsLeasePool
BY LeaseInit, NextRefines, Invariance, PTL DEF Spec, ImplementsLeasePool, L!Spec
=============================================================================
