------------------------------ MODULE SlotPool -------------------------------
(***************************************************************************)
(* The subnet-slot allocator of the Namespace backend (egress/netns.rs) and *)
(* the interface it guards.  fc_net.rs holds the same code for TAP devices. *)
(*                                                                         *)
(* SLOT_BITS is a static of one host process, while an interface name       *)
(* (zk_h_<slot>) is global to the host: a slot is safe only within a        *)
(* process.  Every `ip` command is a step of its own and may fail when      *)
(* MayFail says so; a command's failure leaves the kernel unchanged.        *)
(***************************************************************************)
EXTENDS Naturals

CONSTANTS
  Thread,     \* threads that create and destroy capsules
  Proc,       \* host processes linking the library
  ProcOf,     \* the host process a thread runs in
  PoolSize,   \* POOL_SIZE
  NoSlot,     \* no slot held
  NoLink,     \* the interface does not exist
  Stale,      \* the interface was left behind by a crashed process
  MayFail     \* the commands and calls that may fail, a subset of Faults

\* "del": ip link del; "add": ip link add; "addr": ip addr add; "up": ip link
\* set up; "destroy": the capsule's destroy returns early and never tears down.
Faults == {"del", "add", "addr", "up", "destroy"}

ASSUME PoolSizeAssumption == PoolSize \in Nat
ASSUME ProcAssumption == ProcOf \in [Thread -> Proc]
ASSUME FaultsAssumption == MayFail \subseteq Faults

Slot == 0 .. PoolSize - 1

ASSUME NullAssumption == /\ NoSlot \notin Slot
                         /\ NoLink \notin Thread /\ Stale \notin Thread
                         /\ NoLink # Stale

VARIABLES
  slotBits,   \* [Proc -> SUBSET Slot]: the set bits of each process's SLOT_BITS
  link,       \* [Slot -> ...]: which thread made interface zk_h_<slot>, if it exists
  pc,         \* where each thread is
  snap,       \* the word a thread loaded from SLOT_BITS
  slot        \* the slot a thread picked, later owns

vars == <<slotBits, link, pc, snap, slot>>

PC == {"idle", "load", "cas", "stale", "add", "addr", "up", "live", "dead",
       "del", "release"}

\* The points at which a thread has won its slot and not yet given it back.
Holding == {"stale", "add", "addr", "up", "live", "dead", "del", "release"}

MyBits(t) == slotBits[ProcOf[t]]

TypeOK ==
  /\ slotBits \in [Proc -> SUBSET Slot]
  /\ link \in [Slot -> Thread \cup {NoLink, Stale}]
  /\ pc \in [Thread -> PC]
  /\ snap \in [Thread -> SUBSET Slot]
  /\ slot \in [Thread -> Slot \cup {NoSlot}]

Init ==
  /\ slotBits = [p \in Proc |-> {}]
  /\ link = [s \in Slot |-> NoLink]
  /\ pc = [t \in Thread |-> "idle"]
  /\ snap = [t \in Thread |-> {}]
  /\ slot = [t \in Thread |-> NoSlot]

Goto(t, label) == pc' = [pc EXCEPT ![t] = label]

\* The thread is done with its slot variable (the VethSetup is dropped).
Finish(t) ==
  /\ Goto(t, "idle")
  /\ slot' = [slot EXCEPT ![t] = NoSlot]
  /\ snap' = [snap EXCEPT ![t] = {}]

-----------------------------------------------------------------------------
(* allocate_slot                                                            *)

\* setup_host_side is called.
Begin(t) ==
  /\ pc[t] = "idle"
  /\ Goto(t, "load")
  /\ UNCHANGED <<slotBits, link, snap, slot>>

\* Load the word and find the lowest clear bit; none is PoolExhausted.
Load(t) ==
  /\ pc[t] = "load"
  /\ \/ /\ MyBits(t) = Slot
        /\ Finish(t)
     \/ \E s \in Slot \ MyBits(t) :
          /\ \A r \in Slot \ MyBits(t) : s <= r
          /\ snap' = [snap EXCEPT ![t] = MyBits(t)]
          /\ slot' = [slot EXCEPT ![t] = s]
          /\ Goto(t, "cas")
  /\ UNCHANGED <<slotBits, link>>

\* Mutant: a plain store of the loaded word with the bit set.
CasBlind(t) ==
  /\ pc[t] = "cas"
  /\ slotBits' = [slotBits EXCEPT ![ProcOf[t]] = snap[t] \cup {slot[t]}]
  /\ Goto(t, "stale")
  /\ snap' = [snap EXCEPT ![t] = {}]
  /\ UNCHANGED <<link, slot>>

\* Mutant: a failed exchange is retried without loading the word again.
CasNoReload(t) ==
  /\ pc[t] = "cas"
  /\ MyBits(t) = snap[t]
  /\ slotBits' = [slotBits EXCEPT ![ProcOf[t]] = @ \cup {slot[t]}]
  /\ Goto(t, "stale")
  /\ snap' = [snap EXCEPT ![t] = {}]
  /\ UNCHANGED <<link, slot>>

\* The compare_exchange: set the bit if the word is still the one loaded,
\* otherwise go round the loop.
Cas(t) ==
  /\ pc[t] = "cas"
  /\ IF MyBits(t) = snap[t]
     THEN /\ slotBits' = [slotBits EXCEPT ![ProcOf[t]] = @ \cup {slot[t]}]
          /\ Goto(t, "stale")
          /\ UNCHANGED slot
     ELSE /\ Goto(t, "load")
          /\ slot' = [slot EXCEPT ![t] = NoSlot]
          /\ UNCHANGED slotBits
  /\ snap' = [snap EXCEPT ![t] = {}]
  /\ UNCHANGED link

-----------------------------------------------------------------------------
(* setup_host_side, one step per command.                                   *)

Remove(s) == link' = [link EXCEPT ![s] = NoLink]

\* `ip link del`, its result ignored: the interface goes, unless the command fails.
TryDel(s) ==
  \/ Remove(s)
  \/ "del" \in MayFail /\ UNCHANGED link

\* Best-effort removal of an interface left by a crashed run.
DelStale(t) ==
  /\ pc[t] = "stale"
  /\ TryDel(slot[t])
  /\ Goto(t, "add")
  /\ UNCHANGED <<slotBits, snap, slot>>

\* `ip link add`, propagated by `?`: it fails when the name is taken, and the
\* early return keeps the slot's bit set.
AddLink(t) ==
  /\ pc[t] = "add"
  /\ \/ /\ link[slot[t]] = NoLink
        /\ link' = [link EXCEPT ![slot[t]] = t]
        /\ Goto(t, "addr")
        /\ UNCHANGED <<snap, slot>>
     \/ /\ link[slot[t]] # NoLink \/ "add" \in MayFail
        /\ Finish(t)
        /\ UNCHANGED link
  /\ UNCHANGED slotBits

\* Mutant: a failing command returns with `?`, without the roll-back.
ConfigureNoRollback(t, here, next) ==
  /\ pc[t] = here
  /\ \/ /\ link[slot[t]] # NoLink /\ Goto(t, next)
        /\ UNCHANGED <<snap, slot>>
     \/ (link[slot[t]] # t \/ here \in MayFail) /\ Finish(t)
  /\ UNCHANGED <<slotBits, link>>

\* A command on the interface: it fails when the interface is gone, and may
\* fail when it is somebody else's; a failure starts the roll-back.
Configure(t, here, next) ==
  /\ pc[t] = here
  /\ \/ link[slot[t]] # NoLink /\ Goto(t, next)
     \/ (link[slot[t]] # t \/ here \in MayFail) /\ Goto(t, "del")
  /\ UNCHANGED <<slotBits, link, snap, slot>>

AddAddr(t) == Configure(t, "addr", "up")

LinkUp(t) == Configure(t, "up", "live")

-----------------------------------------------------------------------------
(* A live setup and its end.                                                *)

\* The capsule's netns dies with its worker and the kernel removes the pair.
NetnsGone(t) ==
  /\ pc[t] = "live"
  /\ Goto(t, "dead")
  /\ IF link[slot[t]] = t THEN Remove(slot[t]) ELSE UNCHANGED link
  /\ UNCHANGED <<slotBits, snap, slot>>

\* The owner calls teardown: at destroy, or when a later step of
\* start_ns_egress fails.
Teardown(t) ==
  /\ pc[t] \in {"live", "dead"}
  /\ Goto(t, "del")
  /\ UNCHANGED <<slotBits, link, snap, slot>>

\* destroy returns an error before it reaches teardown: the setup is dropped.
AbandonDestroy(t) ==
  /\ "destroy" \in MayFail
  /\ pc[t] \in {"live", "dead"}
  /\ Finish(t)
  /\ UNCHANGED <<slotBits, link>>

\* Mutant: teardown releases the slot before the interface is deleted, and again after.
DelLinkReleasedTwice(t) ==
  /\ pc[t] = "del"
  /\ TryDel(slot[t])
  /\ slotBits' = [slotBits EXCEPT ![ProcOf[t]] = @ \ {slot[t]}]
  /\ Goto(t, "release")
  /\ UNCHANGED <<snap, slot>>

\* The `ip link del` of teardown and of the roll-backs.
DelLink(t) ==
  /\ pc[t] = "del"
  /\ TryDel(slot[t])
  /\ Goto(t, "release")
  /\ UNCHANGED <<slotBits, snap, slot>>

\* Mutant: the mask is not inverted (fetch_and with 1 << slot).
ReleaseWrongMask(t) ==
  /\ pc[t] = "release"
  /\ slotBits' = [slotBits EXCEPT ![ProcOf[t]] = @ \cap {slot[t]}]
  /\ Finish(t)
  /\ UNCHANGED link

\* release_slot: fetch_and with the bit cleared.
ReleaseSlot(t) ==
  /\ pc[t] = "release"
  /\ slotBits' = [slotBits EXCEPT ![ProcOf[t]] = @ \ {slot[t]}]
  /\ Finish(t)
  /\ UNCHANGED link

\* The host process dies: its memory is gone, its interfaces are not.
Crash(p) ==
  LET mine(t) == ProcOf[t] = p
      abandoned(s) == \E t \in Thread : mine(t) /\ link[s] = t
  IN  /\ slotBits' = [slotBits EXCEPT ![p] = {}]
      /\ link' = [s \in Slot |-> IF abandoned(s) THEN Stale ELSE link[s]]
      /\ pc' = [t \in Thread |-> IF mine(t) THEN "idle" ELSE pc[t]]
      /\ snap' = [t \in Thread |-> IF mine(t) THEN {} ELSE snap[t]]
      /\ slot' = [t \in Thread |-> IF mine(t) THEN NoSlot ELSE slot[t]]

-----------------------------------------------------------------------------
\* A step the thread takes by itself once setup or teardown has been called.
Step(t) ==
  \/ Load(t) \/ Cas(t) \/ DelStale(t) \/ AddLink(t)
  \/ AddAddr(t) \/ LinkUp(t) \/ DelLink(t) \/ ReleaseSlot(t)

Next ==
  \/ \E t \in Thread : \/ Begin(t) \/ Step(t) \/ NetnsGone(t)
                       \/ Teardown(t) \/ AbandonDestroy(t)
  \/ \E p \in Proc : Crash(p)

Spec == Init /\ [][Next]_vars

\* Threads of a running process are scheduled: a thread inside setup or
\* teardown keeps stepping.  Nobody is obliged to create, destroy or crash.
FairSpec == Spec /\ \A t \in Thread : WF_vars(Step(t))

-----------------------------------------------------------------------------
(* Properties                                                               *)

\* allocate_slot is collision-free: two threads of one process that have both
\* won a slot, whatever loads and releases came in between (the loaded word may
\* have changed and changed back), never hold the same one.
SlotExclusive ==
  \A t, u \in Thread :
    ( /\ t # u /\ ProcOf[t] = ProcOf[u]
      /\ pc[t] \in Holding /\ pc[u] \in Holding ) => slot[t] # slot[u]

\* A bit that is set belongs to somebody who will clear it, and stays so until
\* it is cleared: only a setup whose `ip link add` fails and a destroy that is
\* given up before teardown leave a bit behind for the rest of the process's life.
\* Nobody but the release of its owner and the end of the process clears it.
Owned(p, s) == \E t \in Thread : ProcOf[t] = p /\ pc[t] \in Holding /\ slot[t] = s
LeftBehind(p, s) ==
  \E t \in Thread : /\ ProcOf[t] = p /\ slot[t] = s
                    /\ pc[t] \in {"add", "live", "dead"} /\ pc'[t] = "idle"
BitStep ==
  \A p \in Proc : \A s \in slotBits'[p] :
    \/ Owned(p, s)'
    \/ LeftBehind(p, s)
    \/ s \in slotBits[p] /\ ~Owned(p, s)
ClearStep ==
  \A p \in Proc : \A s \in slotBits[p] \ slotBits'[p] :
    \/ \E t \in Thread : ProcOf[t] = p /\ slot[t] = s /\ pc[t] = "release" /\ pc'[t] = "idle"
    \/ \A t \in Thread : ProcOf[t] = p => pc'[t] = "idle"
BitFollowsOwner == [][BitStep /\ ClearStep]_vars

\* From `ip link add` to the end of its capsule, the interface a setup works on
\* is the one it created: no other setup, teardown or stale clean-up on the host
\* replaces or removes it.
OwnLinkIntact ==
  \A t \in Thread : pc[t] \in {"addr", "up", "live"} => link[slot[t]] = t

\* allocate_slot is lock-free: a thread goes round the loop for ever only while
\* others keep winning slots.
LockFree ==
  \A t \in Thread :
    (<>[](pc[t] \in {"load", "cas"})) => []<>(\E u \in Thread : pc[u] = "stale")

-----------------------------------------------------------------------------
(* Refinement: the slot a thread holds is its lease.                        *)

leaseMap == [t \in Thread |-> IF pc[t] \in Holding THEN slot[t] ELSE NoSlot]

L == INSTANCE LeasePool WITH lease <- leaseMap

\* The allocator implements the abstract pool.
ImplementsLeasePool == L!Spec
=============================================================================
