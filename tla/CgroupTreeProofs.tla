-------------------------- MODULE CgroupTreeProofs --------------------------
(***************************************************************************)
(* Theorems about CgroupTree, for any host processes that run one after    *)
(* another, any capsules, limits and failing writes.  The invariant says   *)
(* that a living host process never meets its own names twice.             *)
(***************************************************************************)
EXTENDS CgroupTree, TLAPS

Started(c) == hpc[c] # "idle"

\* One host process at a time, and none that has not started has a capsule.
Hosts ==
    /\ \A p, q \in Proc : up[p] = "up" /\ up[q] = "up" => p = q
    /\ \A c \in Capsule : up[host[c]] = "off" => ~Started(c)

\* Names taken lie below the counter and differ within a host process.
Names ==
    /\ \A c \in Capsule : Started(c) => name[c] < next[host[c]]
    /\ \A c, d \in Capsule : Started(c) /\ Started(d) /\ host[c] = host[d] /\ name[c] = name[d] => c = d

\* Who is in a directory: the living processes that were put there.
Inside ==
    \A n \in Name, c \in Capsule : c \in inside[n] =>
        /\ name[c] = n /\ Started(c) /\ worker[c] # "dead" /\ maker[n] # None
        /\ "procs" \in written[c]
Entered == \A c \in Capsule : "procs" \in written[c] /\ worker[c] # "dead" => c \in inside[name[c]]

\* A capsule has no Cgroup before its spawn; before its sync byte a child waits,
\* and nothing is written for it before it has a directory; a directory that does not exist has no counters.
Early ==
    /\ \A c \in Capsule : hpc[c] \in {"idle", "create", "enter"} => written[c] = {}
    /\ \A c \in Capsule : hpc[c] \in {"create", "enter", "limit", "sync", "bailsync"} => worker[c] = "waiting"
    /\ \A c \in Capsule : hpc[c] = "idle" => cg[c] = "none"
    /\ \A n \in Name : maker[n] = None => events[n] = {}

Members == Inside /\ Entered /\ Early

\* What a capsule of the living host can count on: its directory is there, its
\* limits are its own, and nobody else was ever in a directory it has made.
Kept(c) == cg[c] \in {"made", "found"} /\ hpc[c] # "gone" => maker[name[c]] # None
Limits(c) == maker[name[c]] # None => \A l \in written[c] \cap Limit : inforce[name[c]][l] = c
Alone(c) ==
    /\ hpc[c] = "create" => cg[c] = "none"
    /\ cg[c] = "made" /\ hpc[c] # "gone" =>
         inside[name[c]] \subseteq {c} /\ \A e \in events[name[c]] : e[1] = c

Mine == \A c \in Capsule : Live(c) /\ Started(c) => Kept(c) /\ Limits(c) /\ Alone(c)

IInv == TypeOK /\ Hosts /\ Names /\ Members /\ Mine
-----------------------------------------------------------------------------
LEMMA InitInv == Init => IInv
BY TreeAssumption DEF Name, Places, WorkerStates, Init, IInv, TypeOK, Hosts, Names, Members, Inside, Entered, Early, Mine, Kept, Limits, Alone, Started, Live

\* Capsules of a living host with one name are one capsule.
LEMMA LiveAlone ==
    ASSUME IInv, NEW c \in Capsule, NEW d \in Capsule, Live(c), Live(d), Started(c), Started(d),
           name[c] = name[d]
    PROVE  c = d
BY TreeAssumption DEF IInv, Hosts, Names, Live

\* Types are kept.
LEMMA NextType == ASSUME TypeOK, Next PROVE TypeOK'
<1>t. /\ hpc \in [Capsule -> Places] /\ name \in [Capsule -> Name] /\ tries \in [Capsule -> 0..2]
      /\ cg \in [Capsule -> {"none", "made", "found", "dummy"}]
      /\ worker \in [Capsule -> WorkerStates]
  BY DEF TypeOK
<1>w. written \in [Capsule -> SUBSET (Limit \cup {"procs"})] BY DEF TypeOK
<1>d. maker \in [Name -> Capsule \cup {None}] /\ inside \in [Name -> SUBSET Capsule] BY DEF TypeOK
<1>f. inforce \in [Name -> [Limit -> Capsule \cup {None}]] BY DEF TypeOK
<1>e. events \in [Name -> SUBSET (Capsule \X Violation)] BY DEF TypeOK
<1> USE DEF Goto
<1>1. ASSUME NEW p \in Proc, StartHost(p) \/ HostDies(p) PROVE TypeOK'
  BY <1>1 DEF TypeOK, StartHost, HostDies, treeVars
<1>2. ASSUME NEW c \in Capsule, TakeId(c) PROVE TypeOK'
  <2>1. host[c] \in Proc /\ MaxId \in Nat BY TreeAssumption
  <2>2. next \in [Proc -> 1..MaxId + 1] BY DEF TypeOK
  <2>3. next[host[c]] \in 1..MaxId BY <1>2, <2>1, <2>2 DEF TakeId
  <2>4. name' \in [Capsule -> Name] BY <1>2, <1>t, <2>3 DEF TakeId, Name
  <2>5. next' \in [Proc -> 1..MaxId + 1] BY <1>2, <2>1, <2>2, <2>3 DEF TakeId
  <2> QED BY <1>2, <2>4, <2>5 DEF TypeOK, TakeId, treeVars, Places, WorkerStates
<1>3. ASSUME NEW c \in Capsule, Create(c) PROVE TypeOK'
  <2>1. hpc' \in [Capsule -> Places] BY <1>3, <1>t DEF Create, Places
  <2>3. cg' \in [Capsule -> {"none", "made", "found", "dummy"}] BY <1>3, <1>t DEF Create
  <2>4. maker' \in [Name -> Capsule \cup {None}] BY <1>3, <1>t, <1>d DEF Create
  <2> QED BY <1>3, <2>1, <2>3, <2>4 DEF TypeOK, Create, hostVars
<1>4. ASSUME NEW c \in Capsule, AddPid(c) PROVE TypeOK'
  <2>1. hpc' \in [Capsule -> Places] BY <1>4, <1>t DEF AddPid, Places
  <2>2. written' \in [Capsule -> SUBSET (Limit \cup {"procs"})] BY <1>4, <1>w DEF AddPid
  <2>3. inside' \in [Name -> SUBSET Capsule] BY <1>4, <1>t, <1>d DEF AddPid
  <2> QED BY <1>4, <2>1, <2>2, <2>3 DEF TypeOK, AddPid, hostVars
<1>5. ASSUME NEW c \in Capsule, ApplyLimit(c) PROVE TypeOK'
  <2>1. hpc' \in [Capsule -> Places] BY <1>5, <1>t DEF ApplyLimit, Places
  <2>2. First(want[c] \ written[c]) \in Limit BY DEF First, Limit
  <2>3. written' \in [Capsule -> SUBSET (Limit \cup {"procs"})] BY <1>5, <1>w, <2>2 DEF ApplyLimit
  <2>4. inforce' \in [Name -> [Limit -> Capsule \cup {None}]]
    <3> DEFINE l == First(want[c] \ written[c])
    <3>1. inforce' \in {inforce, [inforce EXCEPT ![name[c]][l] = c]} BY <1>5 DEF ApplyLimit
    <3>2. name[c] \in Name /\ l \in Limit BY <1>t, <2>2
    <3> HIDE DEF l
    <3> QED BY <1>f, <3>1, <3>2
  <2> QED BY <1>5, <2>1, <2>3, <2>4 DEF TypeOK, ApplyLimit, hostVars
<1>6. ASSUME NEW c \in Capsule, Sync(c) PROVE TypeOK'
  BY <1>6 DEF TypeOK, Sync, hostVars, treeVars, Places, WorkerStates
<1>7. ASSUME NEW c \in Capsule, WorkerEnds(c) PROVE TypeOK'
  BY <1>7 DEF TypeOK, WorkerEnds, Leave, hostVars, WorkerStates
<1>8. ASSUME NEW c \in Capsule, LimitHit(c) PROVE TypeOK'
  <2>1. events' \in [Name -> SUBSET (Capsule \X Violation)]
    BY <1>8, <1>t, <1>e DEF LimitHit, Violation
  <2>2. inside' \in [Name -> SUBSET Capsule] BY <1>8, <1>d DEF LimitHit, Leave
  <2>3. worker' \in [Capsule -> WorkerStates] BY <1>8, <1>t DEF LimitHit, Leave, WorkerStates
  <2> QED BY <1>8, <2>1, <2>2, <2>3 DEF TypeOK, LimitHit, hostVars
<1>9. ASSUME NEW c \in Capsule, Destroy(c) PROVE TypeOK'
  BY <1>9 DEF TypeOK, Destroy, detect_violation, Leave, hostVars, Violation, Places, WorkerStates
<1>10. ASSUME NEW c \in Capsule, DropHandle(c) PROVE TypeOK'
  BY <1>10 DEF TypeOK, DropHandle, hostVars, treeVars, Places
<1>11. ASSUME NEW c \in Capsule, Remove(c) PROVE TypeOK'
  <2>1. hpc' \in [Capsule -> Places] BY <1>11, <1>t DEF Remove, Places
  <2>2. tries' \in [Capsule -> 0..2] BY <1>11, <1>t DEF Remove
  <2>3. maker' \in [Name -> Capsule \cup {None}] /\ inside' = inside
    BY <1>11, <1>t, <1>d DEF Remove, RemoveDir, treeVars
  <2>4. inforce' \in [Name -> [Limit -> Capsule \cup {None}]]
    <3>1. inforce' \in {inforce, [inforce EXCEPT ![name[c]] = [l \in Limit |-> None]]}
      BY <1>11 DEF Remove, RemoveDir, treeVars
    <3>2. [l \in Limit |-> None] \in [Limit -> Capsule \cup {None}] OBVIOUS
    <3> QED BY <1>t, <1>f, <3>1, <3>2
  <2>5. events' \in [Name -> SUBSET (Capsule \X Violation)]
    BY <1>11, <1>t, <1>e DEF Remove, RemoveDir, treeVars
  <2> QED BY <1>11, <2>1, <2>2, <2>3, <2>4, <2>5 DEF TypeOK, Remove, hostVars
<1>12. ASSUME NEW c \in Capsule, Bail(c) \/ DestroyFails(c) PROVE TypeOK'
  <2>1. hpc' \in [Capsule -> Places] BY <1>12, <1>t DEF Bail, BailSync, BailKill, BailWait, DestroyFails, Places
  <2>2. worker' \in [Capsule -> WorkerStates]
    BY <1>12, <1>t DEF Bail, BailSync, BailKill, BailWait, DestroyFails, WorkerStates
  <2>3. UNCHANGED <<hostVars, name, cg, tries, written, report, treeVars>>
    BY <1>12 DEF Bail, BailSync, BailKill, BailWait, DestroyFails
  <2> QED BY <2>1, <2>2, <2>3 DEF TypeOK, hostVars, treeVars
<1> QED
  BY <1>1, <1>2, <1>3, <1>4, <1>5, <1>6, <1>7, <1>8, <1>9, <1>10, <1>11, <1>12 DEF Next

\* The steps of one capsule that has its name.
NamedStep(c) ==
    \/ Create(c) \/ AddPid(c) \/ ApplyLimit(c) \/ Sync(c) \/ WorkerEnds(c) \/ LimitHit(c)
    \/ Destroy(c) \/ DropHandle(c) \/ Remove(c) \/ Bail(c) \/ DestroyFails(c)

\* The steps of the error paths only move the capsule on and kill or free its worker.
LEMMA ErrorStep ==
    ASSUME NEW c \in Capsule, Bail(c) \/ DestroyFails(c),
           hpc \in [Capsule -> Places], worker \in [Capsule -> WorkerStates]
    PROVE  /\ UNCHANGED <<hostVars, name, cg, tries, written, report, treeVars>>
           /\ \A d \in Capsule : d # c => hpc'[d] = hpc[d] /\ worker'[d] = worker[d]
           /\ hpc[c] \in {"bailsync", "bailkill", "bailwait", "run"}
           /\ hpc'[c] \in {"bailkill", "bailwait", "remove", "gone"}
           /\ worker'[c] = "dead" <=> worker[c] = "dead" /\ hpc[c] # "bailsync"
BY DEF Bail, BailSync, BailKill, BailWait, DestroyFails, Goto

\* Such a step leaves hosts and names alone.
LEMMA NamedFrame ==
    ASSUME IInv, NEW c \in Capsule, NamedStep(c)
    PROVE  /\ UNCHANGED <<up, next, name>>
           /\ \A d \in Capsule : Started(d)' <=> Started(d)
           /\ \A d \in Capsule : d # c => hpc'[d] = hpc[d] /\ worker'[d] = worker[d]
                                          /\ written'[d] = written[d] /\ cg'[d] = cg[d]
<1>t. hpc \in [Capsule -> Places] /\ worker \in [Capsule -> WorkerStates]
      /\ written \in [Capsule -> SUBSET (Limit \cup {"procs"})]
      /\ cg \in [Capsule -> {"none", "made", "found", "dummy"}]
  BY DEF IInv, TypeOK
<1> USE DEF Goto, Started
<1>1. CASE Create(c) BY <1>t, <1>1 DEF Create, hostVars
<1>2. CASE AddPid(c) BY <1>t, <1>2 DEF AddPid, hostVars
<1>3. CASE ApplyLimit(c) BY <1>t, <1>3 DEF ApplyLimit, hostVars
<1>4. CASE Sync(c) BY <1>t, <1>4 DEF Sync, hostVars, treeVars
<1>5. CASE WorkerEnds(c) BY <1>t, <1>5 DEF WorkerEnds, hostVars, Leave
<1>6. CASE LimitHit(c) BY <1>t, <1>6 DEF LimitHit, hostVars, Leave
<1>7. CASE Destroy(c) BY <1>t, <1>7 DEF Destroy, hostVars, Leave
<1>8. CASE DropHandle(c) BY <1>t, <1>8 DEF DropHandle, hostVars, treeVars
<1>9. CASE Remove(c) BY <1>t, <1>9 DEF Remove, hostVars, treeVars, RemoveDir
<1>10. CASE Bail(c) \/ DestroyFails(c) BY <1>t, <1>10, ErrorStep DEF hostVars
<1> QED BY <1>1, <1>2, <1>3, <1>4, <1>5, <1>6, <1>7, <1>8, <1>9, <1>10 DEF NamedStep

LEMMA NamedHosts ==
    ASSUME IInv, NEW c \in Capsule, NamedStep(c) PROVE Hosts' /\ Names'
BY NamedFrame DEF IInv, Hosts, Names

\* Who is where.
LEMMA NamedMembers ==
    ASSUME IInv, NEW c \in Capsule, NamedStep(c) PROVE Members'
<1>t. /\ hpc \in [Capsule -> Places] /\ name \in [Capsule -> Name]
      /\ cg \in [Capsule -> {"none", "made", "found", "dummy"}]
      /\ worker \in [Capsule -> WorkerStates]
  BY DEF IInv, TypeOK
<1>w. written \in [Capsule -> SUBSET (Limit \cup {"procs"})] BY DEF IInv, TypeOK
<1>d. maker \in [Name -> Capsule \cup {None}] /\ inside \in [Name -> SUBSET Capsule] BY DEF IInv, TypeOK
<1>f. inforce \in [Name -> [Limit -> Capsule \cup {None}]] BY DEF IInv, TypeOK
<1>e. events \in [Name -> SUBSET (Capsule \X Violation)] BY DEF IInv, TypeOK
<1>n. None \notin Capsule BY TreeAssumption
<1>l. "procs" \notin Limit BY DEF Limit
<1> USE DEF Goto, Started, Exists
<1>m. Inside /\ Entered /\ Early BY DEF IInv, Members
<1>a. /\ UNCHANGED <<up, next, name>>
      /\ \A d \in Capsule : Started(d)' <=> Started(d)
      /\ \A d \in Capsule : d # c => hpc'[d] = hpc[d] /\ worker'[d] = worker[d]
                                     /\ written'[d] = written[d] /\ cg'[d] = cg[d]
  BY NamedFrame
<1>1. CASE Create(c)
  <2>1. Inside' BY <1>t, <1>w, <1>d, <1>n, <1>m, <1>a, <1>1 DEF Inside, Early, Create, hostVars
  <2>2. Entered' BY <1>t, <1>w, <1>d, <1>l, <1>m, <1>a, <1>1 DEF Entered, Early, Create, hostVars
  <2>3. Early' BY <1>t, <1>w, <1>d, <1>e, <1>n, <1>m, <1>a, <1>1 DEF Inside, Early, Create, hostVars
  <2> QED BY <2>1, <2>2, <2>3 DEF Members
<1>2. CASE AddPid(c)
  <2>1. Inside' BY <1>t, <1>w, <1>d, <1>n, <1>m, <1>a, <1>2 DEF Inside, Early, AddPid, hostVars
  <2>2. Entered' BY <1>t, <1>w, <1>d, <1>l, <1>m, <1>a, <1>2 DEF Entered, Early, AddPid, hostVars
  <2>3. Early' BY <1>t, <1>w, <1>d, <1>e, <1>n, <1>m, <1>a, <1>2 DEF Inside, Early, AddPid, hostVars
  <2> QED BY <2>1, <2>2, <2>3 DEF Members
<1>3. CASE ApplyLimit(c)
  <2>1. Inside' BY <1>t, <1>w, <1>d, <1>n, <1>m, <1>a, <1>3 DEF Inside, Early, ApplyLimit, hostVars
  <2>l. First(want[c] \ written[c]) \in Limit BY DEF First, Limit
  <2>w. written' \in {written, [written EXCEPT ![c] = @ \cup {First(want[c] \ written[c])}]}
    BY <1>3 DEF ApplyLimit
  <2>p. \A d \in Capsule : "procs" \in written'[d] => "procs" \in written[d]
    BY <1>w, <1>l, <2>l, <2>w
  <2>2. Entered' BY <1>m, <1>a, <1>3, <2>p DEF Entered, ApplyLimit
  <2>3. Early' BY <1>t, <1>w, <1>d, <1>e, <1>n, <1>m, <1>a, <1>3 DEF Inside, Early, ApplyLimit, hostVars
  <2> QED BY <2>1, <2>2, <2>3 DEF Members
<1>4. CASE Sync(c)
  <2>1. Inside' BY <1>t, <1>w, <1>d, <1>n, <1>m, <1>a, <1>4 DEF Inside, Early, Sync, hostVars, treeVars
  <2>2. Entered' BY <1>t, <1>w, <1>d, <1>l, <1>m, <1>a, <1>4 DEF Entered, Early, Sync, hostVars, treeVars
  <2>3. Early' BY <1>t, <1>w, <1>d, <1>e, <1>n, <1>m, <1>a, <1>4 DEF Inside, Early, Sync, hostVars, treeVars
  <2> QED BY <2>1, <2>2, <2>3 DEF Members
<1>5. CASE WorkerEnds(c)
  <2>1. Inside' BY <1>t, <1>w, <1>d, <1>n, <1>m, <1>a, <1>5 DEF Inside, Early, WorkerEnds, hostVars, Leave
  <2>2. Entered' BY <1>t, <1>w, <1>d, <1>l, <1>m, <1>a, <1>5 DEF Entered, Early, WorkerEnds, hostVars, Leave
  <2>3. Early' BY <1>t, <1>w, <1>d, <1>e, <1>n, <1>m, <1>a, <1>5 DEF Inside, Early, WorkerEnds, hostVars, Leave
  <2> QED BY <2>1, <2>2, <2>3 DEF Members
<1>6. CASE LimitHit(c)
  <2>1. Inside' BY <1>t, <1>w, <1>d, <1>n, <1>m, <1>a, <1>6 DEF Inside, Early, LimitHit, hostVars, Leave
  <2>2. Entered' BY <1>t, <1>w, <1>d, <1>l, <1>m, <1>a, <1>6 DEF Entered, Early, LimitHit, hostVars, Leave
  <2>3. Early' BY <1>t, <1>w, <1>d, <1>e, <1>n, <1>m, <1>a, <1>6 DEF Inside, Early, LimitHit, hostVars, Leave
  <2> QED BY <2>1, <2>2, <2>3 DEF Members
<1>7. CASE Destroy(c)
  <2>1. Inside' BY <1>t, <1>w, <1>d, <1>n, <1>m, <1>a, <1>7 DEF Inside, Early, Destroy, hostVars, Leave
  <2>2. Entered' BY <1>t, <1>w, <1>d, <1>l, <1>m, <1>a, <1>7 DEF Entered, Early, Destroy, hostVars, Leave
  <2>3. Early' BY <1>t, <1>w, <1>d, <1>e, <1>n, <1>m, <1>a, <1>7 DEF Inside, Early, Destroy, hostVars, Leave
  <2> QED BY <2>1, <2>2, <2>3 DEF Members
<1>8. CASE DropHandle(c)
  <2>1. Inside' BY <1>t, <1>w, <1>d, <1>n, <1>m, <1>a, <1>8 DEF Inside, Early, DropHandle, hostVars, treeVars
  <2>2. Entered' BY <1>t, <1>w, <1>d, <1>l, <1>m, <1>a, <1>8 DEF Entered, Early, DropHandle, hostVars, treeVars
  <2>3. Early' BY <1>t, <1>w, <1>d, <1>e, <1>n, <1>m, <1>a, <1>8 DEF Inside, Early, DropHandle, hostVars, treeVars
  <2> QED BY <2>1, <2>2, <2>3 DEF Members
<1>9. CASE Remove(c)
  <2>1. Inside' BY <1>t, <1>w, <1>d, <1>n, <1>m, <1>a, <1>9 DEF Inside, Early, Remove, hostVars, treeVars, RemoveDir
  <2>2. Entered' BY <1>t, <1>w, <1>d, <1>l, <1>m, <1>a, <1>9 DEF Entered, Early, Remove, hostVars, treeVars, RemoveDir
  <2>3. Early' BY <1>t, <1>w, <1>d, <1>e, <1>n, <1>m, <1>a, <1>9 DEF Inside, Early, Remove, hostVars, treeVars, RemoveDir
  <2> QED BY <2>1, <2>2, <2>3 DEF Members
<1>10. CASE Bail(c) \/ DestroyFails(c)
  <2>0. /\ UNCHANGED <<cg, written, maker, inside, events>>
        /\ hpc'[c] \in {"bailkill", "bailwait", "remove", "gone"}
        /\ worker'[c] = "dead" <=> worker[c] = "dead" /\ hpc[c] # "bailsync"
    BY <1>t, <1>10, ErrorStep DEF treeVars
  <2>w. worker[c] = "dead" <=> worker'[c] = "dead" BY <1>m, <2>0 DEF Early
  <2>1. Inside' BY <1>m, <1>a, <2>0, <2>w DEF Inside
  <2>2. Entered' BY <1>m, <1>a, <2>0, <2>w DEF Entered
  <2>3. Early' BY <1>m, <1>a, <2>0 DEF Early
  <2> QED BY <2>1, <2>2, <2>3 DEF Members
<1> QED BY <1>1, <1>2, <1>3, <1>4, <1>5, <1>6, <1>7, <1>8, <1>9, <1>10 DEF NamedStep

\* A step of c disturbs no capsule of the living host but itself.
LEMMA NamedMine ==
    ASSUME IInv, NEW c \in Capsule, NamedStep(c), NEW d \in Capsule, Live(d), Started(d)
    PROVE  Kept(d)' /\ Limits(d)' /\ Alone(d)'
<1>t. /\ hpc \in [Capsule -> Places] /\ name \in [Capsule -> Name]
      /\ cg \in [Capsule -> {"none", "made", "found", "dummy"}]
      /\ worker \in [Capsule -> WorkerStates]
  BY DEF IInv, TypeOK
<1>w. written \in [Capsule -> SUBSET (Limit \cup {"procs"})] BY DEF IInv, TypeOK
<1>d. maker \in [Name -> Capsule \cup {None}] /\ inside \in [Name -> SUBSET Capsule] BY DEF IInv, TypeOK
<1>f. inforce \in [Name -> [Limit -> Capsule \cup {None}]] BY DEF IInv, TypeOK
<1>e. events \in [Name -> SUBSET (Capsule \X Violation)] BY DEF IInv, TypeOK
<1>n. None \notin Capsule BY TreeAssumption
<1>l. "procs" \notin Limit BY DEF Limit
<1> USE DEF Goto, Started, Exists
<1>m. Inside /\ Entered /\ Early BY DEF IInv, Members
<1>a. /\ UNCHANGED <<up, next, name>>
      /\ \A x \in Capsule : x # c => hpc'[x] = hpc[x] /\ worker'[x] = worker[x]
                                     /\ written'[x] = written[x] /\ cg'[x] = cg[x]
  BY NamedFrame
<1>k. Kept(d) /\ Limits(d) /\ Alone(d) BY DEF IInv, Mine
<1>s. Live(c) /\ Started(c) /\ name[c] = name[d] => c = d BY LiveAlone
<1> HIDE DEF Started
<1>1. CASE Create(c)
  <2>0. Started(c) BY <1>1 DEF Create, Started
  <2>1. Kept(d)' BY <1>t, <1>d, <1>n, <1>k, <1>a, <1>s, <1>1, <2>0 DEF Kept, Create, hostVars
  <2>2. Limits(d)' BY <1>t, <1>w, <1>d, <1>f, <1>l, <1>n, <1>m, <1>k, <1>a, <1>s, <1>1, <2>0 DEF Limits, Early, Create, hostVars
  <2>3. Alone(d)' BY <1>t, <1>d, <1>e, <1>n, <1>m, <1>k, <1>a, <1>s, <1>1, <2>0 DEF Alone, Inside, Early, Create, hostVars
  <2> QED BY <2>1, <2>2, <2>3
<1>2. CASE AddPid(c)
  <2>0. Started(c) BY <1>2 DEF AddPid, Started
  <2>1. Kept(d)' BY <1>t, <1>d, <1>n, <1>k, <1>a, <1>s, <1>2, <2>0 DEF Kept, AddPid, hostVars
  <2>2. Limits(d)' BY <1>t, <1>w, <1>d, <1>f, <1>l, <1>n, <1>m, <1>k, <1>a, <1>s, <1>2, <2>0 DEF Limits, Early, AddPid, hostVars
  <2>3. Alone(d)' BY <1>t, <1>d, <1>e, <1>n, <1>m, <1>k, <1>a, <1>s, <1>2, <2>0 DEF Alone, Inside, Early, AddPid, hostVars
  <2> QED BY <2>1, <2>2, <2>3
<1>3. CASE ApplyLimit(c)
  <2>0. Started(c) BY <1>3 DEF ApplyLimit, Started
  <2>1. Kept(d)' BY <1>t, <1>d, <1>n, <1>k, <1>a, <1>s, <1>3, <2>0 DEF Kept, ApplyLimit, hostVars
  <2>2. Limits(d)'
    <3> DEFINE l == First(want[c] \ written[c])
    <3>1. l \in Limit /\ name[c] \in Name BY <1>t DEF First, Limit
    <3>2. \/ inforce' = inforce /\ written' = written
          \/ /\ inforce' = [inforce EXCEPT ![name[c]][l] = c]
             /\ written' = [written EXCEPT ![c] = @ \cup {l}]
      BY <1>3 DEF ApplyLimit
    <3>3. Live(c) /\ maker' = maker BY <1>3 DEF ApplyLimit
    <3> HIDE DEF l
    <3>4. CASE c = d BY <1>t, <1>w, <1>f, <1>k, <1>a, <3>1, <3>2, <3>3, <3>4 DEF Limits
    <3>5. CASE name[c] # name[d] BY <1>t, <1>w, <1>f, <1>k, <1>a, <3>1, <3>2, <3>3, <3>5 DEF Limits
    <3> QED BY <1>s, <2>0, <3>3, <3>4, <3>5
  <2>3. Alone(d)' BY <1>t, <1>d, <1>e, <1>n, <1>m, <1>k, <1>a, <1>s, <1>3, <2>0 DEF Alone, Inside, Early, ApplyLimit, hostVars
  <2> QED BY <2>1, <2>2, <2>3
<1>4. CASE Sync(c)
  <2>0. Started(c) BY <1>4 DEF Sync, Started
  <2>1. Kept(d)' BY <1>t, <1>d, <1>n, <1>k, <1>a, <1>s, <1>4, <2>0 DEF Kept, Sync, hostVars, treeVars
  <2>2. Limits(d)' BY <1>t, <1>w, <1>d, <1>f, <1>l, <1>n, <1>m, <1>k, <1>a, <1>s, <1>4, <2>0 DEF Limits, Early, Sync, hostVars, treeVars
  <2>3. Alone(d)' BY <1>t, <1>d, <1>e, <1>n, <1>m, <1>k, <1>a, <1>s, <1>4, <2>0 DEF Alone, Inside, Early, Sync, hostVars, treeVars
  <2> QED BY <2>1, <2>2, <2>3
<1>5. CASE WorkerEnds(c)
  <2>1. Kept(d)' BY <1>t, <1>d, <1>n, <1>k, <1>a, <1>s, <1>5 DEF Kept, WorkerEnds, hostVars, Leave
  <2>2. Limits(d)' BY <1>t, <1>w, <1>d, <1>f, <1>l, <1>n, <1>m, <1>k, <1>a, <1>s, <1>5 DEF Limits, Early, WorkerEnds, hostVars, Leave
  <2>3. Alone(d)' BY <1>t, <1>d, <1>e, <1>n, <1>m, <1>k, <1>a, <1>s, <1>5 DEF Alone, Inside, Early, WorkerEnds, hostVars, Leave
  <2> QED BY <2>1, <2>2, <2>3
<1>6. CASE LimitHit(c)
  <2>1. Kept(d)' BY <1>t, <1>d, <1>n, <1>k, <1>a, <1>s, <1>6 DEF Kept, LimitHit, hostVars, Leave
  <2>2. Limits(d)' BY <1>t, <1>w, <1>d, <1>f, <1>l, <1>n, <1>m, <1>k, <1>a, <1>s, <1>6 DEF Limits, Early, LimitHit, hostVars, Leave
  <2>3. Alone(d)' BY <1>t, <1>d, <1>e, <1>n, <1>m, <1>k, <1>a, <1>s, <1>6 DEF Alone, Inside, Early, LimitHit, hostVars, Leave
  <2> QED BY <2>1, <2>2, <2>3
<1>7. CASE Destroy(c)
  <2>0. Started(c) BY <1>7 DEF Destroy, Started
  <2>1. Kept(d)' BY <1>t, <1>d, <1>n, <1>k, <1>a, <1>s, <1>7, <2>0 DEF Kept, Destroy, hostVars, Leave
  <2>2. Limits(d)' BY <1>t, <1>w, <1>d, <1>f, <1>l, <1>n, <1>m, <1>k, <1>a, <1>s, <1>7, <2>0 DEF Limits, Early, Destroy, hostVars, Leave
  <2>3. Alone(d)' BY <1>t, <1>d, <1>e, <1>n, <1>m, <1>k, <1>a, <1>s, <1>7, <2>0 DEF Alone, Inside, Early, Destroy, hostVars, Leave
  <2> QED BY <2>1, <2>2, <2>3
<1>8. CASE DropHandle(c)
  <2>0. Started(c) BY <1>8 DEF DropHandle, Started
  <2>1. Kept(d)' BY <1>t, <1>d, <1>n, <1>k, <1>a, <1>s, <1>8, <2>0 DEF Kept, DropHandle, hostVars, treeVars
  <2>2. Limits(d)' BY <1>t, <1>w, <1>d, <1>f, <1>l, <1>n, <1>m, <1>k, <1>a, <1>s, <1>8, <2>0 DEF Limits, Early, DropHandle, hostVars, treeVars
  <2>3. Alone(d)' BY <1>t, <1>d, <1>e, <1>n, <1>m, <1>k, <1>a, <1>s, <1>8, <2>0 DEF Alone, Inside, Early, DropHandle, hostVars, treeVars
  <2> QED BY <2>1, <2>2, <2>3
<1>9. CASE Remove(c)
  <2>0. Started(c) BY <1>9 DEF Remove, Started
  <2>1. Kept(d)' BY <1>t, <1>d, <1>n, <1>k, <1>a, <1>s, <1>9, <2>0 DEF Kept, Remove, hostVars, treeVars, RemoveDir
  <2>2. Limits(d)' BY <1>t, <1>w, <1>d, <1>f, <1>l, <1>n, <1>m, <1>k, <1>a, <1>s, <1>9, <2>0 DEF Limits, Early, Remove, hostVars, treeVars, RemoveDir
  <2>3. Alone(d)' BY <1>t, <1>d, <1>e, <1>n, <1>m, <1>k, <1>a, <1>s, <1>9, <2>0 DEF Alone, Inside, Early, Remove, hostVars, treeVars, RemoveDir
  <2> QED BY <2>1, <2>2, <2>3
<1>10. CASE Bail(c) \/ DestroyFails(c)
  <2>0. /\ UNCHANGED <<cg, written, maker, inside, inforce, events>>
        /\ hpc[c] # "gone" /\ hpc'[c] # "create"
    BY <1>t, <1>10, ErrorStep DEF treeVars
  <2> QED BY <1>k, <1>a, <2>0 DEF Kept, Limits, Alone
<1> QED BY <1>1, <1>2, <1>3, <1>4, <1>5, <1>6, <1>7, <1>8, <1>9, <1>10 DEF NamedStep

\* A new name is above all earlier ones of its host.
LEMMA TakeInv == ASSUME IInv, NEW c \in Capsule, TakeId(c) PROVE IInv'
<1>t. /\ hpc \in [Capsule -> Places] /\ name \in [Capsule -> Name]
      /\ worker \in [Capsule -> WorkerStates]
  BY DEF IInv, TypeOK
<1>h. host[c] \in Proc /\ next \in [Proc -> 1..MaxId + 1] /\ MaxId \in Nat BY TreeAssumption DEF IInv, TypeOK
<1> USE DEF Goto, Started
<1>1. TypeOK' BY NextType DEF IInv, Next
<1>2. Hosts' BY <1>t DEF IInv, Hosts, TakeId, Live
<1>i. \A n \in Name : c \notin inside[n] BY DEF IInv, Members, Inside, TakeId
<1>w. written[c] = {} /\ cg[c] = "none" BY DEF IInv, Members, Early, TakeId
<1>o. \A d \in Capsule : d # c => name'[d] = name[d] /\ hpc'[d] = hpc[d] /\ worker'[d] = worker[d]
  BY <1>t DEF TakeId
<1>p. name'[c] = next[host[c]] /\ hpc'[c] = "create" /\ worker'[c] = "waiting" BY <1>t DEF TakeId
<1>q. next'[host[c]] = next[host[c]] + 1 /\ \A q \in Proc : next'[q] >= next[q]
  BY <1>h DEF TakeId
<1>3. Names'
  <2>1. \A d \in Capsule : Started(d)' => name'[d] < next'[host[d]]
    <3> SUFFICES ASSUME NEW d \in Capsule, Started(d)' PROVE name'[d] < next'[host[d]] OBVIOUS
    <3>1. host[d] \in Proc /\ name[d] \in Nat /\ name'[d] \in Nat BY <1>1, <1>t, TreeAssumption DEF TypeOK, Name
    <3>2. next'[host[d]] \in Nat /\ next[host[d]] \in Nat BY <1>1, <1>h, <3>1 DEF TypeOK
    <3>3. CASE d = c BY <1>p, <1>q, <1>h, <3>3
    <3>4. CASE d # c BY <1>o, <1>q, <3>1, <3>2, <3>4 DEF IInv, Names
    <3> QED BY <3>3, <3>4
  <2>2. \A d \in Capsule : Started(d) /\ host[d] = host[c] => name[d] # next[host[c]]
    BY <1>h, <1>t DEF IInv, Names, Name
  <2>3. ASSUME NEW a \in Capsule, NEW b \in Capsule, Started(a)', Started(b)', host[a] = host[b], name'[a] = name'[b]
        PROVE  a = b
    BY <2>2, <2>3, <1>o, <1>p DEF IInv, Names
  <2> QED BY <2>1, <2>3 DEF Names
<1>4. Members'
  <2>1. UNCHANGED <<cg, written, maker, inside, events>> BY DEF TakeId, treeVars
  <2>2. Inside' BY <1>i, <1>o, <2>1 DEF IInv, Members, Inside
  <2>3. Entered' BY <1>w, <1>o, <2>1 DEF IInv, Members, Entered
  <2>4. Early
    BY DEF IInv, Members
  <2>5. ASSUME NEW d \in Capsule
        PROVE  /\ hpc'[d] \in {"idle", "create", "enter"} => written'[d] = {}
               /\ hpc'[d] \in {"create", "enter", "limit", "sync", "bailsync"} => worker'[d] = "waiting"
               /\ hpc'[d] = "idle" => cg'[d] = "none"
    <3>1. CASE d = c BY <1>w, <1>p, <2>1, <3>1
    <3>2. CASE d # c BY <1>o, <2>1, <2>4, <3>2 DEF Early
    <3> QED BY <3>1, <3>2
  <2>6. Early' BY <2>1, <2>4, <2>5 DEF Early
  <2> QED BY <2>2, <2>3, <2>6 DEF Members
<1>5. Mine'
  <2>1. UNCHANGED <<up, cg, written, maker, inside, inforce, events>> BY DEF TakeId, treeVars
  <2>2. ASSUME NEW d \in Capsule, Live(d)', Started(d)' PROVE (Kept(d) /\ Limits(d) /\ Alone(d))'
    <3>1. CASE d = c BY <1>w, <1>p, <2>1, <3>1 DEF Kept, Limits, Alone
    <3>2. CASE d # c
      <4>1. Kept(d) /\ Limits(d) /\ Alone(d) BY <1>o, <2>1, <2>2, <3>2 DEF IInv, Mine, Live
      <4> QED BY <1>o, <2>1, <3>2, <4>1 DEF Kept, Limits, Alone
    <3> QED BY <3>1, <3>2
  <2> QED BY <2>2 DEF Mine
<1> QED BY <1>1, <1>2, <1>3, <1>4, <1>5 DEF IInv

\* A host that starts has no capsule yet, and is alone.
LEMMA HostInv ==
    ASSUME ~Together, IInv, NEW p \in Proc, StartHost(p) \/ HostDies(p) PROVE IInv'
<1>1. TypeOK' BY NextType DEF IInv, Next
<1>2. UNCHANGED <<next, hpc, name, cg, written, worker, maker, inside, inforce, events>>
  BY DEF StartHost, HostDies, treeVars
<1>u. up \in [Proc -> {"off", "up", "dead"}] /\ host \in [Capsule -> Proc] BY TreeAssumption DEF IInv, TypeOK
<1>3. Hosts' BY <1>2, <1>u DEF IInv, Hosts, StartHost, HostDies, Started
<1>4. Names' /\ Members' BY <1>2 DEF IInv, Names, Members, Inside, Entered, Early, Started
<1>5. ASSUME NEW c \in Capsule, Live(c)', Started(c) PROVE Live(c)
  BY <1>5, <1>u DEF IInv, Hosts, StartHost, HostDies, Live
<1>6. Mine' BY <1>2, <1>5 DEF IInv, Mine, Kept, Limits, Alone, Started
<1> QED BY <1>1, <1>3, <1>4, <1>6 DEF IInv

\* The invariant is kept.
LEMMA NextInv == ASSUME ~Together, IInv, [Next]_vars PROVE IInv'
<1>1. CASE UNCHANGED vars
  BY <1>1 DEF vars, hostVars, treeVars, IInv, TypeOK, Hosts, Names, Members, Inside, Entered, Early,
              Mine, Kept, Limits, Alone, Started, Live
<1>2. ASSUME NEW c \in Capsule, NamedStep(c) PROVE IInv'
  <2>1. TypeOK' BY <1>2, NextType DEF IInv, Next, NamedStep
  <2>2. Hosts' /\ Names' /\ Members' BY <1>2, NamedHosts, NamedMembers
  <2>3. \A d \in Capsule : (Live(d) /\ Started(d))' <=> Live(d) /\ Started(d)
    BY <1>2, NamedFrame DEF Live
  <2>4. Mine' BY <1>2, <2>3, NamedMine DEF Mine
  <2> QED BY <2>1, <2>2, <2>4 DEF IInv
<1> QED BY <1>1, <1>2, TakeInv, HostInv DEF Next, NamedStep
-----------------------------------------------------------------------------
\* Every variable keeps its type, also when host processes run together:
\* destroy makes no more than three attempts.
THEOREM TypeCorrect == Spec => []TypeOK
<1>1. Init => TypeOK BY InitInv DEF IInv
<1>2. TypeOK /\ [Next]_vars => TypeOK'
  <2>1. CASE UNCHANGED vars BY <2>1 DEF vars, hostVars, treeVars, TypeOK
  <2> QED BY <2>1, NextType
<1> QED BY <1>1, <1>2, PTL DEF Spec

LEMMA Invariant == ASSUME ~Together PROVE Spec => []IInv
BY InitInv, NextInv, PTL DEF Spec

\* If host processes run one after another, a process put into its directory
\* stays there, and under its own limits as long as its host lives.
THEOREM LimitsAreKept == ASSUME ~Together PROVE Spec => []LimitsHold
<1>1. IInv => LimitsHold
  <2> SUFFICES ASSUME IInv, NEW c \in Capsule, worker[c] = "running", "procs" \in written[c]
               PROVE  /\ c \in inside[name[c]] /\ maker[name[c]] # None
                      /\ Live(c) => \A l \in written[c] \cap Limit : inforce[name[c]][l] = c
    BY DEF LimitsHold
  <2>1. name[c] \in Name BY DEF IInv, TypeOK
  <2>2. c \in inside[name[c]] BY DEF IInv, Members, Entered
  <2>3. maker[name[c]] # None /\ Started(c) BY <2>1, <2>2 DEF IInv, Members, Inside
  <2> QED BY <2>2, <2>3 DEF IInv, Mine, Limits
<1> QED BY <1>1, Invariant, PTL

\* If host processes run one after another, a violation read from a directory
\* the capsule has made is that of its own worker.
THEOREM ReportIsOwn == ASSUME ~Together PROVE Spec => ReportOwn
<1>1. ASSUME IInv, Next, NEW c \in Capsule, report'[c] \notin {report[c], None}, cg[c] = "made"
      PROVE  <<c, report'[c]>> \in events[name[c]]
  <2>t. report \in [Capsule -> Violation \cup {None}] /\ events \in [Name -> SUBSET (Capsule \X Violation)]
        /\ name \in [Capsule -> Name]
    BY <1>1 DEF IInv, TypeOK
  <2>d. ASSUME NEW d \in Capsule, Destroy(d) PROVE Destroy(c)
    <3>1. report' = [report EXCEPT ![d] = detect_violation(d)] BY <2>d DEF Destroy
    <3> QED BY <1>1, <2>d, <2>t, <3>1
  <2>o. ASSUME NEW d \in Capsule,
               \/ TakeId(d) \/ Create(d) \/ AddPid(d) \/ ApplyLimit(d) \/ Sync(d)
               \/ WorkerEnds(d) \/ LimitHit(d) \/ DropHandle(d) \/ Remove(d)
               \/ Bail(d) \/ DestroyFails(d)
        PROVE  report' = report
    BY <2>o DEF TakeId, Create, AddPid, ApplyLimit, Sync, WorkerEnds, LimitHit, DropHandle, Remove,
                Bail, BailSync, BailKill, BailWait, DestroyFails
  <2>h. ASSUME NEW p \in Proc, StartHost(p) \/ HostDies(p) PROVE report' = report
    BY <2>h DEF StartHost, HostDies
  <2>1. Destroy(c)
    BY <1>1, <2>d, <2>o, <2>h DEF Next
  <2>2. \A e \in events[name[c]] : e[1] = c
    BY <1>1, <2>1 DEF IInv, Mine, Alone, Destroy, Started
  <2>3. report'[c] = detect_violation(c) BY <2>1, <2>t DEF Destroy
  <2> DEFINE S == events[name[c]]
             seen == {e[2] : e \in S}
  <2>s. S \subseteq Capsule \X {"Memory", "MaxPids"} BY <2>t DEF Violation
  <2>n. report'[c] # None BY <1>1
  <2>v. report'[c] = IF ~Exists(c) \/ seen = {} THEN None ELSE IF "Memory" \in seen THEN "Memory" ELSE "MaxPids"
    BY <2>3 DEF detect_violation
  <2>4. PICK e \in S : e[2] = report'[c]
    <3> HIDE DEF S
    <3>1. \A e \in S : e[2] \in {"Memory", "MaxPids"} BY <2>s
    <3>2. seen \subseteq {"Memory", "MaxPids"} BY <3>1
    <3> HIDE DEF seen
    <3>3. report'[c] \in seen BY <2>n, <2>v, <3>2
    <3> QED BY <3>3 DEF seen
  <2>5. e = <<e[1], e[2]>> BY <2>t, <2>4
  <2> QED BY <2>2, <2>4, <2>5
<1>2. IInv /\ [Next]_vars => [\A c \in Capsule : report'[c] \notin {report[c], None} /\ cg[c] = "made" =>
         <<c, report'[c]>> \in events[name[c]]]_vars
  BY <1>1
<1> QED BY <1>2, Invariant, PTL DEF Spec, ReportOwn

\* If host processes run one after another, a directory that is removed has no
\* process in it, and no capsule of a living host still counts on it: a name left
\* behind by an earlier host is not taken away from the capsule that found it.
THEOREM DirectoryStays == ASSUME ~Together PROVE Spec => UsedDirStays
<1>1. ASSUME IInv, Next, NEW n \in Name, maker[n] # None, maker'[n] = None
      PROVE  /\ inside[n] = {}
             /\ \A c \in Capsule : Live(c) /\ name[c] = n /\ cg[c] \in {"made", "found"} =>
                  hpc[c] \in {"remove", "gone"}
  <2>t. maker \in [Name -> Capsule \cup {None}] /\ name \in [Capsule -> Name] /\ None \notin Capsule
    BY <1>1, TreeAssumption DEF IInv, TypeOK
  <2>c. ASSUME NEW d \in Capsule, Create(d) PROVE maker'[n] # None
    <3>1. maker' \in {maker, [maker EXCEPT ![name[d]] = d]} BY <2>c DEF Create
    <3> QED BY <1>1, <2>t, <3>1
  <2>o. ASSUME NEW d \in Capsule,
               \/ TakeId(d) \/ AddPid(d) \/ ApplyLimit(d) \/ Sync(d) \/ WorkerEnds(d) \/ LimitHit(d)
               \/ Destroy(d) \/ DropHandle(d) \/ Bail(d) \/ DestroyFails(d)
        PROVE  maker' = maker
    BY <2>o DEF TakeId, AddPid, ApplyLimit, Sync, WorkerEnds, LimitHit, Destroy, DropHandle,
                Bail, BailSync, BailKill, BailWait, DestroyFails, treeVars
  <2>h. ASSUME NEW p \in Proc, StartHost(p) \/ HostDies(p) PROVE maker' = maker
    BY <2>h DEF StartHost, HostDies, treeVars
  <2>1. PICK d \in Capsule : Remove(d)
    BY <1>1, <2>c, <2>o, <2>h DEF Next
  <2>2. maker' # maker BY <1>1
  <2>3. /\ Live(d) /\ hpc[d] = "remove" /\ inside[name[d]] = {}
        /\ maker' = [maker EXCEPT ![name[d]] = None]
    BY <2>1, <2>2 DEF Remove, RemoveDir, treeVars
  <2>4. name[d] = n BY <1>1, <2>3, <2>t
  <2>5. ASSUME NEW c \in Capsule, Live(c), name[c] = n, cg[c] \in {"made", "found"}
        PROVE  hpc[c] \in {"remove", "gone"}
    <3>1. Started(c) BY <1>1, <2>5 DEF IInv, Members, Early, Started
    <3>2. c = d BY <1>1, <2>3, <2>4, <2>5, <3>1, LiveAlone DEF Started
    <3> QED BY <2>3, <3>2
  <2> QED BY <2>3, <2>4, <2>5
<1>2. IInv /\ [Next]_vars => [\A n \in Name : maker[n] # None /\ maker'[n] = None =>
         /\ inside[n] = {}
         /\ \A c \in Capsule : Live(c) /\ name[c] = n /\ cg[c] \in {"made", "found"} =>
              hpc[c] \in {"remove", "gone"}]_vars
  BY <1>1
<1> QED BY <1>2, Invariant, PTL DEF Spec, UsedDirStays
-----------------------------------------------------------------------------
(* A required cgroup, when its files can be written.                        *)

\* Without the cgroup that is required a worker runs only between the sync byte
\* and the SIGKILL of the error path, and a worker that has one is in it, under
\* every limit of its spec.
Confined ==
    \A c \in Capsule : worker[c] = "running" =>
        /\ required[c] => cg[c] # "dummy" \/ hpc[c] = "bailkill"
        /\ Live(c) /\ cg[c] # "dummy" =>
             c \in inside[name[c]] /\ \A l \in want[c] : inforce[name[c]][l] = c

\* How far the writes of a spawn have come.
Progress(c) ==
    /\ hpc[c] \in {"enter", "limit"} => cg[c] \in {"made", "found"}
    /\ hpc[c] = "limit" => "procs" \in written[c] /\ want[c] \ written[c] # {}
    /\ hpc[c] \in {"sync", "run", "remove", "gone"} /\ cg[c] # "dummy" =>
         "procs" \in written[c] /\ want[c] \subseteq written[c]
    /\ cg[c] = "dummy" => hpc[c] \in {"sync", "run", "remove", "gone", "bailsync", "bailkill", "bailwait"}
    /\ hpc[c] \in {"bailsync", "bailkill", "bailwait"} => cg[c] = "dummy"
    /\ cg[c] = "dummy" /\ required[c] =>
         \/ hpc[c] \in {"bailsync", "bailkill"}
         \/ hpc[c] \in {"bailwait", "gone"} /\ worker[c] \in {"killed", "dead"}
    /\ worker[c] = "running" => hpc[c] \in {"run", "remove", "gone", "bailkill"}
    /\ hpc[c] = "idle" => worker[c] = "none" /\ cg[c] = "none"

LEMMA ProgressStep ==
    ASSUME {"enter", "limit"} \cap MayFail = {}, IInv, NEW c \in Capsule, Progress(c),
           TakeId(c) \/ NamedStep(c)
    PROVE  Progress(c)'
<1>t. /\ hpc \in [Capsule -> Places] /\ cg \in [Capsule -> {"none", "made", "found", "dummy"}]
      /\ worker \in [Capsule -> WorkerStates]
  BY DEF IInv, TypeOK
<1>w. written \in [Capsule -> SUBSET (Limit \cup {"procs"})] /\ want[c] \subseteq Limit
  BY TreeAssumption DEF IInv, TypeOK
<1>k. Live(c) /\ Started(c) /\ hpc[c] # "gone" /\ cg[c] \in {"made", "found"} => Exists(c)
  BY DEF IInv, Mine, Kept, Exists
<1> USE DEF Goto
<1>1. CASE TakeId(c) BY <1>1, <1>t DEF TakeId, Progress
<1>2. CASE Create(c)
  <2>1. worker[c] = "waiting" /\ required[c] \in BOOLEAN BY <1>2, TreeAssumption DEF Create, IInv, Members, Early
  <2> QED BY <1>2, <1>t, <2>1 DEF Create, Progress
<1>3. CASE AddPid(c)
  <2>1. Exists(c) BY <1>3, <1>k DEF AddPid, Progress, Started
  <2>2. written'[c] = written[c] \cup {"procs"} BY <1>3, <1>w, <2>1 DEF AddPid
  <2>3. written[c] = {} /\ "procs" \notin Limit BY <1>3 DEF AddPid, IInv, Members, Early, Limit
  <2>4. want[c] \ written'[c] = want[c] BY <1>w, <2>2, <2>3
  <2>5. UNCHANGED <<cg, worker>> /\ hpc'[c] = IF want[c] = {} THEN "sync" ELSE "limit" BY <1>3, <1>t DEF AddPid
  <2> QED BY <1>3, <2>2, <2>4, <2>5 DEF AddPid, Progress
<1>4. CASE ApplyLimit(c)
  <2> DEFINE left == want[c] \ written[c]
             l == First(left)
  <2>1. Exists(c) BY <1>4, <1>k DEF ApplyLimit, Progress, Started
  <2>2. left # {} /\ left \subseteq {"memory", "cpu", "pids"} BY <1>4, <1>w DEF ApplyLimit, Progress, Limit
  <2>3. l \in left BY <2>2 DEF First
  <2>4. /\ written' = [written EXCEPT ![c] = @ \cup {l}] /\ UNCHANGED <<cg, worker>>
        /\ hpc' = [hpc EXCEPT ![c] = IF left = {l} THEN "sync" ELSE "limit"]
    BY <1>4, <2>1 DEF ApplyLimit
  <2> HIDE DEF l
  <2>5. written'[c] = written[c] \cup {l} BY <1>w, <2>4
  <2>6. want[c] \ written'[c] = left \ {l} BY <2>5
  <2>7. IF left = {l} THEN want[c] \subseteq written'[c] ELSE want[c] \ written'[c] # {} BY <2>3, <2>6
  <2>8. hpc'[c] = IF left = {l} THEN "sync" ELSE "limit" BY <1>t, <2>4
  <2> QED BY <1>4, <2>4, <2>5, <2>7, <2>8 DEF ApplyLimit, Progress
<1>5. CASE Sync(c) BY <1>5, <1>t DEF Sync, Progress
<1>6. CASE WorkerEnds(c) BY <1>6, <1>t DEF WorkerEnds, Leave, Progress
<1>7. CASE LimitHit(c) BY <1>7, <1>t DEF LimitHit, Leave, Progress
<1>8. CASE Destroy(c) BY <1>8, <1>t DEF Destroy, Leave, Progress
<1>9. CASE DropHandle(c) BY <1>9, <1>t DEF DropHandle, Progress
<1>10. CASE Remove(c) BY <1>10, <1>t DEF Remove, Progress
<1>11. CASE BailSync(c) BY <1>11, <1>t DEF BailSync, Progress
<1>12. CASE BailKill(c)
  <2>1. worker'[c] \in {"killed", "dead"} /\ hpc'[c] = "bailwait" /\ UNCHANGED <<cg, written>>
    BY <1>12, <1>t DEF BailKill
  <2> QED BY <1>12, <2>1 DEF BailKill, Progress
<1>13. CASE BailWait(c)
  <2>1. worker[c] \in {"killed", "dead"} \/ ~required[c] BY <1>13 DEF BailWait, Progress
  <2> QED BY <1>13, <1>t, <2>1 DEF BailWait, Progress
<1>14. CASE DestroyFails(c) BY <1>14, <1>t DEF DestroyFails, Progress
<1> QED
  BY <1>1, <1>2, <1>3, <1>4, <1>5, <1>6, <1>7, <1>8, <1>9, <1>10, <1>11, <1>12, <1>13, <1>14 DEF NamedStep, Bail

\* If host processes run one after another and add_pid and apply_limits can write
\* their files, a worker with cgroup_required runs outside a cgroup only between
\* the sync byte and the SIGKILL of spawn's error path (for good, if the host dies
\* there), and one that has a cgroup is under all its limits while its host lives,
\* also if a directory an earlier host left behind was taken over.
THEOREM RequiredIsConfined ==
    ASSUME ~Together, {"enter", "limit"} \cap MayFail = {} PROVE Spec => []Confined
<1> DEFINE Inv == \A c \in Capsule : Progress(c)
<1>1. Init => Inv BY DEF Init, Progress
<1>2. ASSUME IInv, Inv, [Next]_vars PROVE Inv'
  <2> SUFFICES ASSUME NEW d \in Capsule PROVE Progress(d)' OBVIOUS
  <2>1. ASSUME NEW c \in Capsule, NamedStep(c), c # d PROVE Progress(d)'
    BY <1>2, <2>1, NamedFrame DEF Progress
  <2>2. ASSUME NEW c \in Capsule, TakeId(c), c # d PROVE Progress(d)'
    BY <1>2, <2>2 DEF TakeId, Goto, Progress, IInv, TypeOK
  <2>3. TakeId(d) \/ NamedStep(d) => Progress(d)' BY <1>2, ProgressStep
  <2>4. ASSUME \/ UNCHANGED vars
               \/ \E p \in Proc : StartHost(p) \/ HostDies(p)
        PROVE  Progress(d)'
    <3>1. UNCHANGED <<hpc, cg, written, worker>> BY <2>4 DEF vars, StartHost, HostDies
    <3> QED BY <1>2, <3>1 DEF Progress
  <2> QED BY <1>2, <2>1, <2>2, <2>3, <2>4 DEF Next, NamedStep
<1>3. ASSUME IInv, Inv PROVE Confined
  <2> SUFFICES ASSUME NEW c \in Capsule, worker[c] = "running"
               PROVE  /\ required[c] => cg[c] # "dummy" \/ hpc[c] = "bailkill"
                      /\ Live(c) /\ cg[c] # "dummy" =>
                           c \in inside[name[c]] /\ \A l \in want[c] : inforce[name[c]][l] = c
    BY DEF Confined
  <2>1. required[c] => cg[c] # "dummy" \/ hpc[c] = "bailkill" BY <1>3 DEF Progress
  <2>2. ASSUME Live(c), cg[c] # "dummy" PROVE c \in inside[name[c]] /\ \A l \in want[c] : inforce[name[c]][l] = c
    <3>1. "procs" \in written[c] /\ want[c] \subseteq written[c] BY <1>3, <2>2 DEF Progress
    <3>2. want[c] \subseteq Limit /\ name[c] \in Name BY <1>3, TreeAssumption DEF IInv, TypeOK
    <3>3. c \in inside[name[c]] BY <1>3, <3>1 DEF IInv, Members, Entered
    <3>4. maker[name[c]] # None /\ Started(c) BY <1>3, <3>2, <3>3 DEF IInv, Members, Inside
    <3>5. Limits(c) BY <1>3, <2>2, <3>4 DEF IInv, Mine
    <3> QED BY <3>1, <3>2, <3>3, <3>4, <3>5 DEF Limits
  <2> QED BY <2>1, <2>2
<1>4. IInv /\ Inv /\ [Next]_vars => Inv' BY <1>2
<1>5. IInv /\ Inv => Confined BY <1>3
<1> HIDE DEF Inv
<1> QED BY <1>1, <1>4, <1>5, Invariant, PTL DEF Spec
=============================================================================
