----------------------- MODULE NamespaceCapsuleProofs ------------------------
(* Theorems about NamespaceCapsule, for any number of capsules, any specs and *)
(* any faults.                                                               *)
EXTENDS MCNamespaceCapsule, TLAPS

BeforeSync == {"close", "maps", "veth", "cgroup", "sync", "bailsync"}

\* What the handle's place says of the child and of what was allocated for it.
LifeInv(c) ==
  /\ hpc[c] \in {"open", "clone"} => child[c] = "none"
  /\ hpc[c] \in {"open"} \cup SpawnSteps => wd[c] = "none"
  /\ hpc[c] \in {"open", "clone"} \cup BeforeSync => ~synced[c] /\ ~killed[c]
  /\ hpc[c] \in BeforeSync => child[c] = "wait"
  /\ child[c] \in {"setup", "bailing", "exec", "run", "exiting"} => synced[c]
  /\ child[c] \in {"none", "wait", "setup", "bailing", "exec"} => worker[c] = "none"
  /\ child[c] = "run" => worker[c] = "running"
  /\ child[c] = "exiting" => worker[c] \in {"exit0", "exit1", "signal", "initfail"}
  /\ child[c] \in {"zombie", "reaped"} =>
       worker[c] \in Status /\ status[c] \in {InitCode(worker[c]), "sigkill"}
  /\ hpc[c] = "diag" => child[c] = "reaped"
  /\ hpc[c] \in {"finish", "gone"} => child[c] \in {"none", "reaped"}

\* A status in the report is the reaped child's.
ReportInv(c) ==
  exit[c] \in ChildStatus =>
    /\ hpc[c] \in {"diag", "finish", "gone"}
    /\ child[c] = "reaped"
    /\ exit[c] = status[c]

\* The host's set-up steps come in order, and the sync byte after all of them
\* or on the error path.
ConfInv(c) ==
  /\ hpc[c] \in {"veth", "cgroup", "sync"} => "maps" \in ready[c]
  /\ hpc[c] \in {"cgroup", "sync"} /\ spec[c].egress => "veth" \in ready[c]
  /\ hpc[c] = "sync" /\ spec[c].required => "cgroup" \in ready[c]
  /\ synced[c] => Needed(c) \subseteq ready[c] \/ hpc[c] \in {"bailkill", "bailwait"}

\* A message is in the pipe of a spawn exactly if its own child has given up.
MsgInv(c) ==
  /\ hpc[c] = "clone" => ~diagMsg[c]
  /\ child[c] \in {"wait", "setup", "exec", "run", "exiting"} => ~diagMsg[c]
  /\ child[c] = "bailing" => diagMsg[c]
  /\ child[c] \in {"zombie", "reaped"} =>
       /\ status[c] = "bail" => diagMsg[c]
       /\ diagMsg[c] => worker[c] \in {"bail", "sigkill"}
  /\ initError[c] => /\ hpc[c] \in {"finish", "gone"} /\ diagMsg[c]
                     /\ child[c] = "reaped"
  /\ hpc[c] \in {"finish", "gone"} /\ exit[c] \in ChildStatus /\ diagMsg[c] => initError[c]

\* With spawns that do not overlap, the write end of a pipe is held by its
\* spawn and by its own child only; a child left behind holds ends of spawns that
\* failed.
PipeInv ==
  /\ \A c, d \in Capsule : hpc[c] \in SpawnSteps /\ hpc[d] \in SpawnSteps => c = d
  /\ \A c \in Capsule :
       /\ hpc[c] = "clone" => diagW[c] = {Host}
       /\ hpc[c] = "close" => diagW[c] \subseteq {Host, c}
       /\ hpc[c] \notin {"open", "clone", "close"} /\ child[c] # "none" => diagW[c] \subseteq {c}
       /\ child[c] \in {"zombie", "reaped"} => c \notin diagW[c]
  /\ \A c, d \in Capsule : d \in leftW[c] => child[d] = "none" /\ hpc[d] \notin SpawnSteps

Life == TypeOK /\ \A c \in Capsule : LifeInv(c) /\ ReportInv(c)
USE HostAssumption, SpecsAssumption, C1Assumption
USE DEF HPC, SpawnSteps, DestroySteps, Status, ChildStatus, InitCode, spawnVars, leftVars, childVars, reportVars, BeforeSync,
        Goto, Alive, SendKill

\* The actions, by who takes them.
SpawnStep(c) ==
  \/ StageFails(c) \/ SpawnPipes(c) \/ Clone(c) \/ CloneFails(c) \/ CloseEnds(c)
  \/ WriteMaps(c) \/ MoveVeth(c) \/ MakeCgroup(c) \/ SyncChild(c)
  \/ BailSync(c) \/ BailKill(c) \/ BailWait(c)

HandleStep(c) ==
  \/ Kill(c) \/ DestroyCancel(c) \/ DestroyLock(c) \/ DestroyWait(c)
  \/ DestroyReap(c) \/ DestroyDiag(c) \/ DestroyFinish(c) \/ DropHandle(c)

OthersStep(c) ==
  \/ WatchdogKill(c) \/ WatchdogMark(c) \/ WatchdogCancelled(c) \/ ChildSynced(c)
  \/ ChildExec(c) \/ ChildBail(c) \/ ChildBailed(c) \/ InitFails(c)
  \/ WorkerStarts(c) \/ WorkerEnds(c) \/ ChildExit(c)
  \/ ChildKilled(c) \/ LeftDies(c) \/ LimitHit(c) \/ ChildOom(c)

\* A new capsule has no child and nothing allocated for one.
LEMMA InitLife == Init => Life
<1> SUFFICES ASSUME Init PROVE Life OBVIOUS
<1>1. TypeOK
  <2>2. reason \in [Capsule -> Reason] BY DEF Init, All, Reason
  <2>3. ready \in [Capsule -> SUBSET SetupSteps] BY DEF Init, All
  <2>4. spec \in [Capsule -> SpecType] BY DEF Init
  <2>5. /\ counted \in [Capsule -> SUBSET {"Memory", "MaxPids"}]
        /\ diagW \in [Capsule -> SUBSET (Capsule \cup {Host})]
    BY DEF Init, All
  <2>6. network \in [Capsule -> BOOLEAN] BY <2>4 DEF Init, SpecType
  <2>7. killedBy \in [Capsule -> Reason] BY DEF Init, All, Reason
  <2> QED BY <2>2, <2>3, <2>4, <2>5, <2>6, <2>7 DEF Init, All, TypeOK
<1>2. \A c \in Capsule : LifeInv(c) /\ ReportInv(c)
  BY DEF Init, All, LifeInv, ReportInv
<1> QED BY <1>1, <1>2 DEF Life

\* A removal leaves something there or not.
LEMMA RemovalType ==
  ASSUME TypeOK, NEW c \in Capsule
  PROVE  /\ \A b \in BOOLEAN : MayStay(b) \subseteq BOOLEAN
         /\ Rmdir(c) \subseteq BOOLEAN
<1>1. cgroupDir[c] \in BOOLEAN BY DEF TypeOK
<1>2. \A b \in BOOLEAN : MayStay(b) \subseteq BOOLEAN BY DEF MayStay
<1> QED BY <1>1, <1>2 DEF Rmdir

\* spawn and its error path.
LEMMA SpawnType == ASSUME Life, NEW c \in Capsule, SpawnStep(c) PROVE TypeOK'
<1>1. CASE SpawnPipes(c) BY <1>1 DEF Life, LifeInv, TypeOK, SpawnPipes
<1>2. CASE Clone(c) BY <1>2 DEF Life, LifeInv, TypeOK, Clone
<1>3. CASE CloneFails(c)
  <2>1. staged' \in [Capsule -> BOOLEAN]
    <3>1. PICK there \in MayStay(TRUE) : staged' = [staged EXCEPT ![c] = there]
      BY <1>3 DEF CloneFails
    <3>2. there \in BOOLEAN BY RemovalType DEF Life
    <3> QED BY <3>1, <3>2 DEF Life, TypeOK
  <2> QED BY <1>3, <2>1 DEF Life, TypeOK, CloneFails
<1>4. CASE CloseEnds(c) BY <1>4 DEF Life, LifeInv, TypeOK, CloseEnds
<1>5. CASE WriteMaps(c)
  <2>1. ready' \in [Capsule -> SUBSET SetupSteps]
    BY <1>5 DEF Life, TypeOK, WriteMaps, Setup, SetupSteps
  <2>2. hpc' \in [Capsule -> HPC] BY <1>5 DEF Life, TypeOK, WriteMaps, Setup
  <2> QED BY <1>5, <2>1, <2>2 DEF Life, TypeOK, WriteMaps
<1>6. CASE MoveVeth(c)
  <2>1. ready' \in [Capsule -> SUBSET SetupSteps]
    BY <1>6 DEF Life, TypeOK, MoveVeth, Setup, SetupSteps
  <2>2. hpc' \in [Capsule -> HPC] BY <1>6 DEF Life, TypeOK, MoveVeth, Setup
  <2> QED BY <1>6, <2>1, <2>2 DEF Life, TypeOK, MoveVeth
<1>7. CASE MakeCgroup(c)
  <2>1. ready' \in [Capsule -> SUBSET SetupSteps]
    BY <1>7 DEF Life, TypeOK, MakeCgroup, SetupSteps
  <2>2. hpc' \in [Capsule -> HPC]
    <3>1. hpc' = [hpc EXCEPT ![c] = "sync"] \/ hpc' = [hpc EXCEPT ![c] = "bailsync"]
      BY <1>7 DEF MakeCgroup
    <3> QED BY <3>1 DEF Life, TypeOK
  <2>3. cgroupDir' \in [Capsule -> BOOLEAN]
    <3>1. cgroupDir' = [cgroupDir EXCEPT ![c] = TRUE] \/ cgroupDir' = cgroupDir BY <1>7 DEF MakeCgroup
    <3> QED BY <3>1 DEF Life, TypeOK
  <2>4. UNCHANGED <<spec, synced, staged, childVars, leftVars, wd, killedBy, network, reportVars>>
    BY <1>7 DEF MakeCgroup
  <2> QED BY <2>1, <2>2, <2>3, <2>4 DEF Life, TypeOK
<1>8. CASE SyncChild(c) BY <1>8 DEF Life, LifeInv, TypeOK, SyncChild
<1>9. CASE BailSync(c) BY <1>9 DEF Life, LifeInv, TypeOK, BailSync
<1>10. CASE BailKill(c) BY <1>10 DEF Life, LifeInv, TypeOK, BailKill
<1>11. CASE BailWait(c)
  <2>1. staged' \in [Capsule -> BOOLEAN]
    <3>1. PICK there \in MayStay(TRUE) : staged' = [staged EXCEPT ![c] = there]
      BY <1>11 DEF BailWait
    <3>2. there \in BOOLEAN BY RemovalType DEF Life
    <3> QED BY <3>1, <3>2 DEF Life, TypeOK
  <2>2. left' \in [Capsule -> {"none", "running", "dying", "zombie"}]
    BY <1>11 DEF Life, TypeOK, BailWait
  <2>3. leftW' \in [Capsule -> SUBSET Capsule] BY <1>11 DEF Life, TypeOK, BailWait
  <2>4. diagW' \in [Capsule -> SUBSET (Capsule \cup {Host})]
    BY <1>11 DEF Life, TypeOK, BailWait
  <2>5. ready' \in [Capsule -> SUBSET SetupSteps] BY <1>11 DEF Life, TypeOK, BailWait
  <2> QED BY <1>11, <2>1, <2>2, <2>3, <2>4, <2>5, ZenonT(60) DEF Life, TypeOK, BailWait
<1>12. CASE StageFails(c) BY <1>12 DEF Life, LifeInv, TypeOK, StageFails
<1> QED BY <1>1, <1>2, <1>3, <1>4, <1>5, <1>6, <1>7, <1>8, <1>9, <1>10, <1>11,
           <1>12 DEF SpawnStep

\* spawn and its error path keep Life.
LEMMA SpawnLife == ASSUME Life, TypeOK', NEW c \in Capsule, SpawnStep(c) PROVE Life'
<1> SUFFICES ASSUME NEW d \in Capsule PROVE LifeInv(d)' /\ ReportInv(d)'
  BY DEF Life
<1>1. CASE SpawnPipes(c) BY <1>1 DEF Life, LifeInv, ReportInv, TypeOK, SpawnPipes
<1>2. CASE Clone(c) BY <1>2 DEF Life, LifeInv, ReportInv, TypeOK, Clone
<1>3. CASE CloneFails(c) BY <1>3 DEF Life, LifeInv, ReportInv, TypeOK, CloneFails, MayStay
<1>4. CASE CloseEnds(c) BY <1>4 DEF Life, LifeInv, ReportInv, TypeOK, CloseEnds
<1>5. CASE WriteMaps(c) BY <1>5 DEF Life, LifeInv, ReportInv, TypeOK, WriteMaps, Setup
<1>6. CASE MoveVeth(c) BY <1>6 DEF Life, LifeInv, ReportInv, TypeOK, MoveVeth, Setup
<1>7. CASE MakeCgroup(c) BY <1>7 DEF Life, LifeInv, ReportInv, TypeOK, MakeCgroup
<1>8. CASE SyncChild(c) BY <1>8 DEF Life, LifeInv, ReportInv, TypeOK, SyncChild
<1>9. CASE BailSync(c) BY <1>9 DEF Life, LifeInv, ReportInv, TypeOK, BailSync
<1>10. CASE BailKill(c) BY <1>10 DEF Life, LifeInv, ReportInv, TypeOK, BailKill
<1>11. CASE BailWait(c) BY <1>11 DEF Life, LifeInv, ReportInv, TypeOK, BailWait, MayStay
<1>12. CASE StageFails(c) BY <1>12 DEF Life, LifeInv, ReportInv, TypeOK, StageFails
<1> QED BY <1>1, <1>2, <1>3, <1>4, <1>5, <1>6, <1>7, <1>8, <1>9, <1>10, <1>11,
           <1>12 DEF SpawnStep

\* kill, destroy and the drop of the handle.
LEMMA HandleType == ASSUME Life, NEW c \in Capsule, HandleStep(c) PROVE TypeOK'
<1>1. CASE Kill(c) BY <1>1 DEF Life, LifeInv, TypeOK, Kill
<1>2. CASE DestroyCancel(c) BY <1>2 DEF Life, LifeInv, TypeOK, DestroyCancel
<1>3. CASE DestroyLock(c) BY <1>3 DEF Life, LifeInv, TypeOK, DestroyLock
<1>4. CASE DestroyWait(c)
  <2>1. exit' \in [Capsule -> ChildStatus \cup {"none", "unknown"}]
    BY <1>4 DEF Life, LifeInv, TypeOK, DestroyWait, Reap, WaitError
  <2>2. hpc' \in [Capsule -> HPC]
    <3>1. \E label \in HPC : hpc' = [hpc EXCEPT ![c] = label]
      BY <1>4 DEF DestroyWait, Reap, WaitError
    <3> QED BY <3>1 DEF Life, TypeOK
  <2>3. killed' \in [Capsule -> BOOLEAN]
    BY <1>4 DEF Life, TypeOK, DestroyWait, Reap, WaitError
  <2>4. cgroupDir' \in [Capsule -> BOOLEAN]
    <3>1. \/ UNCHANGED cgroupDir
          \/ \E there \in Rmdir(c) : cgroupDir' = [cgroupDir EXCEPT ![c] = there]
      BY <1>4 DEF DestroyWait, Reap, WaitError
    <3>2. Rmdir(c) \subseteq BOOLEAN BY RemovalType DEF Life
    <3> QED BY <3>1, <3>2 DEF Life, TypeOK
  <2>5. child' \in [Capsule -> {"none", "wait", "setup", "bailing", "exec", "run", "exiting",
                                "zombie", "reaped"}]
    BY <1>4 DEF Life, TypeOK, DestroyWait, Reap, WaitError
  <2> QED BY <1>4, <2>1, <2>2, <2>3, <2>4, <2>5 DEF Life, TypeOK, DestroyWait
<1>5. CASE DestroyReap(c)
  <2>1. exit' \in [Capsule -> ChildStatus \cup {"none", "unknown"}]
    BY <1>5 DEF Life, LifeInv, TypeOK, DestroyReap, Reap, WaitError
  <2>2. hpc' \in [Capsule -> HPC]
    <3>1. \E label \in HPC : hpc' = [hpc EXCEPT ![c] = label]
      BY <1>5 DEF DestroyReap, Reap, WaitError
    <3> QED BY <3>1 DEF Life, TypeOK
  <2>3. killed' \in [Capsule -> BOOLEAN]
    BY <1>5 DEF Life, TypeOK, DestroyReap, Reap, WaitError
  <2>4. cgroupDir' \in [Capsule -> BOOLEAN]
    <3>1. \/ UNCHANGED cgroupDir
          \/ \E there \in Rmdir(c) : cgroupDir' = [cgroupDir EXCEPT ![c] = there]
      BY <1>5 DEF DestroyReap, Reap, WaitError
    <3>2. Rmdir(c) \subseteq BOOLEAN BY RemovalType DEF Life
    <3> QED BY <3>1, <3>2 DEF Life, TypeOK
  <2>5. child' \in [Capsule -> {"none", "wait", "setup", "bailing", "exec", "run", "exiting",
                                "zombie", "reaped"}]
    BY <1>5 DEF Life, TypeOK, DestroyReap, Reap, WaitError
  <2> QED BY <1>5, <2>1, <2>2, <2>3, <2>4, <2>5 DEF Life, TypeOK, DestroyReap
<1>6. CASE DestroyDiag(c) BY <1>6 DEF Life, LifeInv, TypeOK, DestroyDiag
<1>7. CASE DestroyFinish(c)
  <2>1. cgroupDir' \in [Capsule -> BOOLEAN] BY <1>7, RemovalType DEF Life, TypeOK, DestroyFinish
  <2>2. staged' \in [Capsule -> BOOLEAN] BY <1>7, RemovalType DEF Life, TypeOK, DestroyFinish
  <2>3. network' \in [Capsule -> BOOLEAN] BY <1>7, RemovalType DEF Life, TypeOK, DestroyFinish
  <2>4. killedBy' \in [Capsule -> Reason] /\ reason' \in [Capsule -> Reason]
    BY <1>7 DEF Life, TypeOK, DestroyFinish, DetectViolation, Reason
  <2> QED BY <1>7, <2>1, <2>2, <2>3, <2>4 DEF Life, TypeOK, DestroyFinish
<1>8. CASE DropHandle(c)
  <2>1. cgroupDir' \in [Capsule -> BOOLEAN] BY <1>8, RemovalType DEF Life, TypeOK, DropHandle
  <2> QED BY <1>8, <2>1 DEF Life, TypeOK, DropHandle
<1> QED BY <1>1, <1>2, <1>3, <1>4, <1>5, <1>6, <1>7, <1>8 DEF HandleStep

\* kill, destroy and the drop of the handle keep Life.
LEMMA HandleLife == ASSUME Life, TypeOK', NEW c \in Capsule, HandleStep(c) PROVE Life'
<1> SUFFICES ASSUME NEW d \in Capsule PROVE LifeInv(d)' /\ ReportInv(d)'
  BY DEF Life
<1>1. CASE Kill(c) BY <1>1 DEF Life, LifeInv, ReportInv, TypeOK, Kill
<1>2. CASE DestroyCancel(c) BY <1>2 DEF Life, LifeInv, ReportInv, TypeOK, DestroyCancel
<1>3. CASE DestroyLock(c) BY <1>3 DEF Life, LifeInv, ReportInv, TypeOK, DestroyLock
<1>4. CASE DestroyWait(c)
  BY <1>4 DEF Life, LifeInv, ReportInv, TypeOK, DestroyWait, Reap, WaitError
<1>5. CASE DestroyReap(c)
  BY <1>5 DEF Life, LifeInv, ReportInv, TypeOK, DestroyReap, Reap, WaitError
<1>6. CASE DestroyDiag(c) BY <1>6 DEF Life, LifeInv, ReportInv, TypeOK, DestroyDiag
<1>7. CASE DestroyFinish(c)
  BY <1>7 DEF Life, LifeInv, ReportInv, TypeOK, DestroyFinish, DetectViolation
<1>8. CASE DropHandle(c) BY <1>8 DEF Life, LifeInv, ReportInv, TypeOK, DropHandle
<1> QED BY <1>1, <1>2, <1>3, <1>4, <1>5, <1>6, <1>7, <1>8 DEF HandleStep

\* The watchdog, the child and the kernel.
LEMMA OthersType == ASSUME Life, NEW c \in Capsule, OthersStep(c) PROVE TypeOK'
<1>1. CASE WatchdogKill(c) BY <1>1 DEF Life, LifeInv, TypeOK, WatchdogKill
<1>2. CASE WatchdogMark(c) BY <1>2 DEF Life, LifeInv, TypeOK, WatchdogMark, Reason
<1>3. CASE WatchdogCancelled(c) BY <1>3 DEF Life, LifeInv, TypeOK, WatchdogCancelled
<1>4. CASE ChildSynced(c) BY <1>4 DEF Life, LifeInv, TypeOK, ChildSynced
<1>5. CASE ChildExec(c) BY <1>5 DEF Life, LifeInv, TypeOK, ChildExec
<1>6. CASE ChildBail(c) BY <1>6 DEF Life, LifeInv, TypeOK, ChildBail
<1>7. CASE ChildBailed(c) BY <1>7 DEF Life, LifeInv, TypeOK, ChildBailed, ChildEnds
<1>8. CASE ChildExit(c) BY <1>8 DEF Life, LifeInv, TypeOK, ChildExit, ChildEnds
<1>9. CASE ChildKilled(c) BY <1>9 DEF Life, LifeInv, TypeOK, ChildKilled, ChildEnds
<1>10. CASE LimitHit(c) BY <1>10 DEF Life, LifeInv, TypeOK, LimitHit
<1>11. CASE ChildOom(c) BY <1>11 DEF Life, LifeInv, TypeOK, ChildOom, ChildEnds
<1>12. CASE InitFails(c) BY <1>12 DEF Life, LifeInv, TypeOK, InitFails, InitStep
<1>13. CASE WorkerStarts(c) BY <1>13 DEF Life, LifeInv, TypeOK, WorkerStarts, InitStep
<1>14. CASE WorkerEnds(c) BY <1>14 DEF Life, LifeInv, TypeOK, WorkerEnds, InitStep
<1>15. CASE LeftDies(c) BY <1>15 DEF Life, LifeInv, TypeOK, LeftDies
<1> QED BY <1>1, <1>2, <1>3, <1>4, <1>5, <1>6, <1>7, <1>8, <1>9, <1>10, <1>11,
           <1>12, <1>13, <1>14, <1>15 DEF OthersStep

\* Watchdog, child and kernel keep Life.
LEMMA OthersLife == ASSUME Life, TypeOK', NEW c \in Capsule, OthersStep(c) PROVE Life'
<1> SUFFICES ASSUME NEW d \in Capsule PROVE LifeInv(d)' /\ ReportInv(d)'
  BY DEF Life
<1>1. CASE WatchdogKill(c) BY <1>1 DEF Life, LifeInv, ReportInv, TypeOK, WatchdogKill
<1>2. CASE WatchdogMark(c) BY <1>2 DEF Life, LifeInv, ReportInv, TypeOK, WatchdogMark
<1>3. CASE WatchdogCancelled(c) BY <1>3 DEF Life, LifeInv, ReportInv, TypeOK, WatchdogCancelled
<1>4. CASE ChildSynced(c) BY <1>4 DEF Life, LifeInv, ReportInv, TypeOK, ChildSynced
<1>5. CASE ChildExec(c) BY <1>5 DEF Life, LifeInv, ReportInv, TypeOK, ChildExec
<1>6. CASE ChildBail(c) BY <1>6 DEF Life, LifeInv, ReportInv, TypeOK, ChildBail
<1>7. CASE ChildBailed(c) BY <1>7 DEF Life, LifeInv, ReportInv, TypeOK, ChildBailed, ChildEnds
<1>8. CASE ChildExit(c) BY <1>8 DEF Life, LifeInv, ReportInv, TypeOK, ChildExit, ChildEnds
<1>9. CASE ChildKilled(c) BY <1>9 DEF Life, LifeInv, ReportInv, TypeOK, ChildKilled, ChildEnds
<1>10. CASE LimitHit(c) BY <1>10 DEF Life, LifeInv, ReportInv, TypeOK, LimitHit
<1>11. CASE ChildOom(c) BY <1>11 DEF Life, LifeInv, ReportInv, TypeOK, ChildOom, ChildEnds
<1>12. CASE InitFails(c) BY <1>12 DEF Life, LifeInv, ReportInv, TypeOK, InitFails, InitStep
<1>13. CASE WorkerStarts(c) BY <1>13 DEF Life, LifeInv, ReportInv, TypeOK, WorkerStarts, InitStep
<1>14. CASE WorkerEnds(c) BY <1>14 DEF Life, LifeInv, ReportInv, TypeOK, WorkerEnds, InitStep
<1>15. CASE LeftDies(c) BY <1>15 DEF Life, LifeInv, ReportInv, TypeOK, LeftDies
<1> QED BY <1>1, <1>2, <1>3, <1>4, <1>5, <1>6, <1>7, <1>8, <1>9, <1>10, <1>11,
           <1>12, <1>13, <1>14, <1>15 DEF OthersStep

\* Every step is a step of one capsule.
LEMMA NextIsAStep ==
  ASSUME Next
  PROVE  \E c \in Capsule : SpawnStep(c) \/ HandleStep(c) \/ OthersStep(c)
BY DEF Next, Spawning, Destroying, Watchdog, Starting, ZkInit, SpawnStep, HandleStep, OthersStep

\* Life is inductive.
LEMMA NextLife == Life /\ [Next]_vars => Life'
<1> SUFFICES ASSUME Life, [Next]_vars PROVE Life' OBVIOUS
<1>1. CASE Next
  BY <1>1, NextIsAStep, SpawnType, SpawnLife, HandleType, HandleLife, OthersType, OthersLife
<1>2. CASE UNCHANGED vars BY <1>2 DEF vars, Life, TypeOK, LifeInv, ReportInv
<1> QED BY <1>1, <1>2

\* Every variable keeps its type, through every interleaving of hosts, children
\* and watchdogs.
THEOREM TypeCorrect == Spec => []TypeOK
<1>1. Life => TypeOK BY DEF Life
<1> QED BY <1>1, InitLife, NextLife, PTL DEF Spec

-----------------------------------------------------------------------------
(* The sync barrier.                                                        *)

Conf == \A c \in Capsule : ConfInv(c)

\* spawn sets the child up in order and writes the sync byte last.
LEMMA SpawnConf ==
  ASSUME Life, Conf, NEW c \in Capsule, SpawnStep(c)
  PROVE  Conf'
<1> SUFFICES ASSUME NEW d \in Capsule PROVE ConfInv(d)'
  BY DEF Conf
<1> USE DEF Life, LifeInv, TypeOK, Conf, ConfInv, Needed
<1>1. CASE SpawnPipes(c) BY <1>1 DEF SpawnPipes
<1>2. CASE Clone(c) BY <1>2 DEF Clone
<1>3. CASE CloneFails(c) BY <1>3 DEF CloneFails
<1>4. CASE CloseEnds(c) BY <1>4 DEF CloseEnds
<1>5. CASE WriteMaps(c) BY <1>5 DEF WriteMaps, Setup
<1>6. CASE MoveVeth(c) BY <1>6 DEF MoveVeth, Setup
<1>7. CASE MakeCgroup(c) BY <1>7 DEF MakeCgroup
<1>8. CASE SyncChild(c) BY <1>8 DEF SyncChild
<1>9. CASE BailSync(c) BY <1>9 DEF BailSync
<1>10. CASE BailKill(c) BY <1>10 DEF BailKill
<1>11. CASE BailWait(c) BY <1>11 DEF BailWait
<1>12. CASE StageFails(c) BY <1>12 DEF StageFails
<1> QED BY <1>1, <1>2, <1>3, <1>4, <1>5, <1>6, <1>7, <1>8, <1>9, <1>10, <1>11,
           <1>12 DEF SpawnStep

\* The handle's other calls leave the set-up alone.
LEMMA HandleConf == ASSUME Life, Conf, NEW c \in Capsule, HandleStep(c) PROVE Conf'
<1> SUFFICES ASSUME NEW d \in Capsule PROVE ConfInv(d)'
  BY DEF Conf
<1> USE DEF HandleStep, Kill, DestroyCancel, DestroyLock, DestroyWait, Reap,
            WaitError, DestroyReap, DestroyDiag, DestroyFinish, DetectViolation,
            DropHandle
<1>1. UNCHANGED <<spec, ready, synced>> OBVIOUS
<1>2. hpc[d]' = hpc[d] \/ (hpc[d] \notin SpawnSteps /\ hpc[d]' \notin SpawnSteps)
  BY DEF Life, TypeOK
<1> QED BY <1>1, <1>2 DEF Conf, ConfInv, Needed

\* The child passes its barrier only after the sync byte.
LEMMA OthersConf == ASSUME Life, Conf, NEW c \in Capsule, OthersStep(c) PROVE Conf'
<1> SUFFICES ASSUME NEW d \in Capsule PROVE ConfInv(d)'
  BY DEF Conf
<1> USE DEF OthersStep, WatchdogKill, WatchdogMark, WatchdogCancelled,
            ChildSynced, ChildExec, ChildBail, ChildBailed, ChildEnds, InitFails, WorkerStarts,
            WorkerEnds, InitStep, ChildExit, ChildKilled, LeftDies, LimitHit, ChildOom
<1>1. UNCHANGED <<spec, ready, synced>> OBVIOUS
<1>2. hpc[d]' = hpc[d] \/ (hpc[d] \notin SpawnSteps /\ hpc[d]' \notin SpawnSteps)
  BY DEF Life, TypeOK
<1> QED BY <1>1, <1>2 DEF Conf, ConfInv, Needed

\* A child passes the sync barrier only after its maps are written, its veth is
\* moved and a required cgroup is made, or with its death warrant signed.
THEOREM Configured == Spec => []ConfiguredOrDoomed
<1>1. Init => Conf BY DEF Init, All, Conf, ConfInv
<1>2. Life /\ Conf /\ [Next]_vars => Conf'
  <2> SUFFICES ASSUME Life, Conf, [Next]_vars PROVE Conf' OBVIOUS
  <2>1. CASE Next BY <2>1, NextIsAStep, SpawnConf, HandleConf, OthersConf
  <2>2. CASE UNCHANGED vars BY <2>2 DEF vars, Conf, ConfInv, Needed
  <2> QED BY <2>1, <2>2
<1>3. Life /\ Conf => ConfiguredOrDoomed
  BY DEF Life, LifeInv, Conf, ConfInv, ConfiguredOrDoomed
<1> QED BY <1>1, <1>2, <1>3, InitLife, NextLife, PTL DEF Spec

\* Every step of spawn leads one handle on.
LEMMA SpawnMoves ==
  ASSUME Life, NEW c \in Capsule, SpawnStep(c)
  PROVE  /\ \A d \in Capsule \ {c} : hpc[d]' = hpc[d]
         /\ \/ hpc[c] = "open" /\ hpc[c]' \in {"open", "clone"}
            \/ hpc[c] = "clone" /\ hpc[c]' \in {"close", "open"}
            \/ hpc[c] = "close" /\ hpc[c]' = "maps"
            \/ hpc[c] = "maps" /\ hpc[c]' \in {"veth", "cgroup"}
            \/ hpc[c] = "veth" /\ hpc[c]' = "cgroup"
            \/ hpc[c] \in {"maps", "veth", "cgroup"} /\ hpc[c] \in MayFail /\ hpc[c]' = "bailsync"
            \/ hpc[c] = "cgroup" /\ hpc[c]' = "sync"
            \/ hpc[c] = "sync" /\ hpc[c]' = "spawned"
            \/ hpc[c] = "bailsync" /\ hpc[c]' = "bailkill"
            \/ hpc[c] = "bailkill" /\ hpc[c]' = "bailwait"
            \/ hpc[c] = "bailwait" /\ hpc[c]' = "open"
<1> USE DEF Life, TypeOK
<1>1. CASE SpawnPipes(c) BY <1>1 DEF SpawnPipes
<1>2. CASE Clone(c) BY <1>2 DEF Clone
<1>3. CASE CloneFails(c) BY <1>3 DEF CloneFails
<1>4. CASE CloseEnds(c) BY <1>4 DEF CloseEnds
<1>5. CASE WriteMaps(c) BY <1>5 DEF WriteMaps, Setup
<1>6. CASE MoveVeth(c) BY <1>6 DEF MoveVeth, Setup
<1>7. CASE MakeCgroup(c) BY <1>7 DEF MakeCgroup
<1>8. CASE SyncChild(c) BY <1>8 DEF SyncChild
<1>9. CASE BailSync(c) BY <1>9 DEF BailSync
<1>10. CASE BailKill(c) BY <1>10 DEF BailKill
<1>11. CASE BailWait(c) BY <1>11 DEF BailWait
<1>12. CASE StageFails(c) BY <1>12 DEF StageFails
<1> QED BY <1>1, <1>2, <1>3, <1>4, <1>5, <1>6, <1>7, <1>8, <1>9, <1>10, <1>11,
           <1>12 DEF SpawnStep

\* Without an error in the set-up, spawn never takes its error path.
LEMMA NoBail ==
  ASSUME {"maps", "veth", "cgroup"} \cap MayFail = {}
  PROVE  Spec => [](\A c \in Capsule : hpc[c] \notin {"bailsync", "bailkill", "bailwait"})
<1> DEFINE Straight == \A c \in Capsule : hpc[c] \notin {"bailsync", "bailkill", "bailwait"}
<1>1. Init => Straight BY DEF Init, All
<1>2. Life /\ Straight /\ [Next]_vars => Straight'
  <2> SUFFICES ASSUME Life, Straight, [Next]_vars PROVE Straight' OBVIOUS
  <2>1. ASSUME NEW c \in Capsule, SpawnStep(c) PROVE Straight'
    BY <2>1, SpawnMoves DEF Life, TypeOK
  <2>2. ASSUME NEW c \in Capsule, HandleStep(c) PROVE Straight'
    BY <2>2 DEF Life, TypeOK, HandleStep, Kill, DestroyCancel, DestroyLock, DestroyWait, Reap,
                WaitError, DestroyReap, DestroyDiag, DestroyFinish, DropHandle
  <2>3. ASSUME NEW c \in Capsule, OthersStep(c) PROVE Straight'
    BY <2>3 DEF OthersStep, WatchdogKill, WatchdogMark, WatchdogCancelled, ChildSynced,
                ChildExec, ChildBail, ChildBailed, ChildEnds, InitFails, WorkerStarts, WorkerEnds,
                InitStep, ChildExit, ChildKilled, LeftDies, LimitHit, ChildOom
  <2>4. CASE UNCHANGED vars BY <2>4 DEF vars
  <2> QED BY <2>1, <2>2, <2>3, <2>4, NextIsAStep
<1> QED BY <1>1, <1>2, InitLife, NextLife, PTL DEF Spec

\* do_clone's comment, "configure it before we let the child run", holds as long
\* as no set-up step fails: the error path, which writes the sync byte before it
\* kills, is the only way for a child to run unconfigured.
THEOREM RunsConfigured ==
  ASSUME {"maps", "veth", "cgroup"} \cap MayFail = {}
  PROVE  Spec => []RunsOnlyConfigured
<1>1. Spec => []ConfiguredOrDoomed BY Configured
<1>2. Spec => [](\A c \in Capsule : hpc[c] \notin {"bailsync", "bailkill", "bailwait"})
  BY NoBail
<1>3. /\ ConfiguredOrDoomed
      /\ \A c \in Capsule : hpc[c] \notin {"bailsync", "bailkill", "bailwait"}
      => RunsOnlyConfigured
  BY DEF ConfiguredOrDoomed, RunsOnlyConfigured
<1> QED BY <1>1, <1>2, <1>3, PTL

-----------------------------------------------------------------------------
(* The diagnostic pipe.                                                     *)

Msg == \A c \in Capsule : MsgInv(c)

\* A spawn starts with an empty diagnostic pipe.
LEMMA SpawnMsg == ASSUME Life, Msg, NEW c \in Capsule, SpawnStep(c) PROVE Msg'
<1> SUFFICES ASSUME NEW d \in Capsule PROVE MsgInv(d)'
  BY DEF Msg
<1> USE DEF Life, LifeInv, ReportInv, TypeOK, Msg, MsgInv
<1>1. CASE SpawnPipes(c) BY <1>1 DEF SpawnPipes
<1>2. CASE Clone(c) BY <1>2 DEF Clone
<1>3. CASE CloneFails(c) BY <1>3 DEF CloneFails
<1>4. CASE CloseEnds(c) BY <1>4 DEF CloseEnds
<1>5. CASE WriteMaps(c) BY <1>5 DEF WriteMaps, Setup
<1>6. CASE MoveVeth(c) BY <1>6 DEF MoveVeth, Setup
<1>7. CASE MakeCgroup(c) BY <1>7 DEF MakeCgroup
<1>8. CASE SyncChild(c) BY <1>8 DEF SyncChild
<1>9. CASE BailSync(c) BY <1>9 DEF BailSync
<1>10. CASE BailKill(c) BY <1>10 DEF BailKill
<1>11. CASE BailWait(c) BY <1>11 DEF BailWait
<1>12. CASE StageFails(c) BY <1>12 DEF StageFails
<1> QED BY <1>1, <1>2, <1>3, <1>4, <1>5, <1>6, <1>7, <1>8, <1>9, <1>10, <1>11,
           <1>12 DEF SpawnStep

\* destroy copies what is in the pipe into the report.
LEMMA HandleMsg == ASSUME Life, Msg, NEW c \in Capsule, HandleStep(c) PROVE Msg'
<1> SUFFICES ASSUME NEW d \in Capsule PROVE MsgInv(d)'
  BY DEF Msg
<1> USE DEF Life, LifeInv, ReportInv, TypeOK, Msg, MsgInv
<1>1. CASE Kill(c) BY <1>1 DEF Kill
<1>2. CASE DestroyCancel(c) BY <1>2 DEF DestroyCancel
<1>3. CASE DestroyLock(c) BY <1>3 DEF DestroyLock
<1>4. CASE DestroyWait(c) BY <1>4 DEF DestroyWait, Reap, WaitError
<1>5. CASE DestroyReap(c) BY <1>5 DEF DestroyReap, Reap, WaitError
<1>6. CASE DestroyDiag(c) BY <1>6 DEF DestroyDiag
<1>7. CASE DestroyFinish(c) BY <1>7 DEF DestroyFinish, DetectViolation
<1>8. CASE DropHandle(c) BY <1>8 DEF DropHandle
<1> QED BY <1>1, <1>2, <1>3, <1>4, <1>5, <1>6, <1>7, <1>8 DEF HandleStep

\* Only a child that gives up writes to the pipe.
LEMMA OthersMsg == ASSUME Life, Msg, NEW c \in Capsule, OthersStep(c) PROVE Msg'
<1> SUFFICES ASSUME NEW d \in Capsule PROVE MsgInv(d)'
  BY DEF Msg
<1> USE DEF Life, LifeInv, ReportInv, TypeOK, Msg, MsgInv
<1>1. CASE WatchdogKill(c) BY <1>1 DEF WatchdogKill
<1>2. CASE WatchdogMark(c) BY <1>2 DEF WatchdogMark
<1>3. CASE WatchdogCancelled(c) BY <1>3 DEF WatchdogCancelled
<1>4. CASE ChildSynced(c) BY <1>4 DEF ChildSynced
<1>5. CASE ChildExec(c) BY <1>5 DEF ChildExec
<1>6. CASE ChildBail(c) BY <1>6 DEF ChildBail
<1>7. CASE ChildBailed(c) BY <1>7 DEF ChildBailed, ChildEnds
<1>8. CASE ChildExit(c) BY <1>8 DEF ChildExit, ChildEnds
<1>9. CASE ChildKilled(c) BY <1>9 DEF ChildKilled, ChildEnds
<1>10. CASE LimitHit(c) BY <1>10 DEF LimitHit
<1>11. CASE ChildOom(c) BY <1>11 DEF ChildOom, ChildEnds
<1>12. CASE InitFails(c) BY <1>12 DEF InitFails, InitStep
<1>13. CASE WorkerStarts(c) BY <1>13 DEF WorkerStarts, InitStep
<1>14. CASE WorkerEnds(c) BY <1>14 DEF WorkerEnds, InitStep
<1>15. CASE LeftDies(c) BY <1>15 DEF LeftDies
<1> QED BY <1>1, <1>2, <1>3, <1>4, <1>5, <1>6, <1>7, <1>8, <1>9, <1>10, <1>11,
           <1>12, <1>13, <1>14, <1>15 DEF OthersStep

\* A child that gave up is reported with its message, and a message is reported
\* only of a child whose worker never started.
THEOREM InitErrorIsHonest == Spec => []InitErrorHonest
<1>1. Init => Msg BY DEF Init, All, Msg, MsgInv
<1>2. Life /\ Msg /\ [Next]_vars => Msg'
  <2> SUFFICES ASSUME Life, Msg, [Next]_vars PROVE Msg' OBVIOUS
  <2>1. CASE Next BY <2>1, NextIsAStep, SpawnMsg, HandleMsg, OthersMsg
  <2>2. CASE UNCHANGED vars BY <2>2 DEF vars, Msg, MsgInv
  <2> QED BY <2>1, <2>2
<1>3. Life /\ Msg => InitErrorHonest
  BY DEF Life, ReportInv, Msg, MsgInv, InitErrorHonest
<1> QED BY <1>1, <1>2, <1>3, InitLife, NextLife, PTL DEF Spec

\* If spawns do not overlap, clone copies only the capsule's own pipe.
LEMMA SpawnPipe ==
  ASSUME Serial, Life, PipeInv, NEW c \in Capsule, SpawnStep(c)
  PROVE  PipeInv'
<1> USE DEF Life, LifeInv, TypeOK, PipeInv
<1>1. CASE SpawnPipes(c) BY <1>1 DEF SpawnPipes
<1>2. CASE Clone(c) BY <1>2 DEF Clone
<1>3. CASE CloneFails(c) BY <1>3 DEF CloneFails
<1>4. CASE CloseEnds(c) BY <1>4 DEF CloseEnds
<1>5. CASE WriteMaps(c)
  <2>1. UNCHANGED <<child, diagW, leftW>> BY <1>5 DEF WriteMaps
  <2>2. hpc[c] = "maps" /\ hpc[c]' \in {"veth", "cgroup", "bailsync"} BY <1>5 DEF WriteMaps, Setup
  <2>3. \A d \in Capsule : d # c => hpc[d]' = hpc[d] BY <1>5 DEF WriteMaps, Setup
  <2> HIDE DEF Life, LifeInv, TypeOK
  <2> QED BY <2>1, <2>2, <2>3
<1>6. CASE MoveVeth(c)
  <2>1. UNCHANGED <<child, diagW, leftW>> BY <1>6 DEF MoveVeth
  <2>2. hpc[c] = "veth" /\ hpc[c]' \in {"cgroup", "bailsync"} BY <1>6 DEF MoveVeth, Setup
  <2>3. \A d \in Capsule : d # c => hpc[d]' = hpc[d] BY <1>6 DEF MoveVeth, Setup
  <2> HIDE DEF Life, LifeInv, TypeOK
  <2> QED BY <2>1, <2>2, <2>3
<1>7. CASE MakeCgroup(c)
  <2>1. UNCHANGED <<child, diagW, leftW>> BY <1>7 DEF MakeCgroup
  <2>2. hpc[c] = "cgroup" /\ hpc[c]' \in {"sync", "bailsync"} BY <1>7 DEF MakeCgroup
  <2>3. \A d \in Capsule : d # c => hpc[d]' = hpc[d] BY <1>7 DEF MakeCgroup
  <2> HIDE DEF Life, LifeInv, TypeOK
  <2> QED BY <2>1, <2>2, <2>3
<1>8. CASE SyncChild(c) BY <1>8 DEF SyncChild
<1>9. CASE BailSync(c) BY <1>9 DEF BailSync
<1>10. CASE BailKill(c) BY <1>10 DEF BailKill
<1>11. CASE BailWait(c)
  <2>1. \A e, d \in Capsule : d \in leftW'[e] => d \in leftW[e] \/ (e = c /\ d # c /\ c \in diagW[d])
    <3>1. \/ leftW' = leftW
          \/ leftW' = [leftW EXCEPT ![c] = {d \in Capsule \ {c} : c \in diagW[d]}]
      BY <1>11 DEF BailWait
    <3>2. leftW \in [Capsule -> SUBSET Capsule] OBVIOUS
    <3> HIDE DEF Life, LifeInv, TypeOK, PipeInv
    <3> TAKE e, d \in Capsule
    <3>3. CASE e # c BY <3>1, <3>2, <3>3
    <3>4. CASE e = c BY <3>1, <3>2, <3>4
    <3> QED BY <3>3, <3>4
  <2>2. \A d \in Capsule : diagW'[d] \subseteq diagW[d] BY <1>11 DEF BailWait
  <2>3. /\ hpc'[c] = "open" /\ child'[c] = "none"
        /\ \A d \in Capsule : d # c => hpc'[d] = hpc[d] /\ child'[d] = child[d]
    <3>1. /\ child' = [child EXCEPT ![c] = "none"]
          /\ hpc' = [hpc EXCEPT ![c] = "open"]
      BY <1>11 DEF BailWait
    <3> QED BY <3>1
  <2>4. \A d \in Capsule : d # c => hpc[d] \notin SpawnSteps BY <1>11 DEF BailWait
  <2>5. \A d \in Capsule : d # c /\ c \in diagW[d] => child[d] = "none" BY <2>4, HostAssumption
  <2>6. hpc[c] = "bailwait" BY <1>11 DEF BailWait
  <2> HIDE DEF Life, LifeInv, TypeOK
  <2>7. \A e, d \in Capsule : hpc'[e] \in SpawnSteps /\ hpc'[d] \in SpawnSteps => e = d
    BY <2>3, <2>4
  <2>8. ASSUME NEW d \in Capsule
        PROVE  /\ hpc'[d] = "clone" => diagW'[d] = {Host}
               /\ hpc'[d] = "close" => diagW'[d] \subseteq {Host, d}
               /\ (hpc'[d] \notin {"open", "clone", "close"} /\ child'[d] # "none"
                     => diagW'[d] \subseteq {d})
               /\ child'[d] \in {"zombie", "reaped"} => d \notin diagW'[d]
    <3>1. CASE d = c BY <3>1, <2>3
    <3>2. CASE d # c
      <4>1. hpc'[d] = hpc[d] /\ child'[d] = child[d] /\ hpc[d] \notin SpawnSteps
        BY <3>2, <2>3, <2>4
      <4> QED BY <4>1, <2>2
    <3> QED BY <3>1, <3>2
  <2>9. ASSUME NEW e \in Capsule, NEW d \in Capsule, d \in leftW'[e]
        PROVE  child'[d] = "none" /\ hpc'[d] \notin SpawnSteps
    <3>1. d # c /\ child[d] = "none" /\ hpc[d] \notin SpawnSteps
      BY <2>9, <2>1, <2>4, <2>5, <2>6
    <3> QED BY <3>1, <2>3
  <2> QED BY <2>7, <2>8, <2>9
<1>12. CASE StageFails(c) BY <1>12 DEF StageFails
<1> QED BY <1>1, <1>2, <1>3, <1>4, <1>5, <1>6, <1>7, <1>8, <1>9, <1>10, <1>11,
           <1>12 DEF SpawnStep

\* destroy and kill open no pipe.
LEMMA HandlePipe == ASSUME Life, PipeInv, NEW c \in Capsule, HandleStep(c) PROVE PipeInv'
<1> USE DEF HandleStep, Kill, DestroyCancel, DestroyLock, DestroyWait, DestroyReap,
            DestroyDiag, DestroyFinish, DropHandle, Reap, WaitError
<1>1. diagW' = diagW /\ leftW' = leftW OBVIOUS
<1>2. ASSUME NEW d \in Capsule
      PROVE  \/ hpc[d]' = hpc[d]
             \/ /\ hpc[d] \notin SpawnSteps /\ hpc[d]' \notin SpawnSteps
                /\ hpc[d] = "open" => child[d] = "none"
  BY DEF Life, LifeInv, TypeOK
<1>3. ASSUME NEW d \in Capsule
      PROVE  child[d]' = child[d] \/ (child[d] = "zombie" /\ child[d]' = "reaped")
  BY DEF Life, TypeOK
<1>4. ASSUME NEW d \in Capsule PROVE hpc[d]' = "open" => hpc[d] = "open"
  BY DEF Life, TypeOK
<1> QED BY <1>1, <1>2, <1>3, <1>4 DEF PipeInv

\* A child that ends closes its write end.
LEMMA OthersPipe ==
  ASSUME Serial, Life, PipeInv, NEW c \in Capsule, OthersStep(c)
  PROVE  PipeInv'
<1> USE DEF Life, LifeInv, TypeOK, PipeInv
<1>1. CASE WatchdogKill(c) BY <1>1 DEF WatchdogKill
<1>2. CASE WatchdogMark(c) BY <1>2 DEF WatchdogMark
<1>3. CASE WatchdogCancelled(c) BY <1>3 DEF WatchdogCancelled
<1>4. CASE ChildSynced(c) BY <1>4 DEF ChildSynced
<1>5. CASE ChildExec(c) BY <1>5 DEF ChildExec
<1>6. CASE ChildBail(c) BY <1>6 DEF ChildBail
<1>7. CASE ChildBailed(c) BY <1>7 DEF ChildBailed, ChildEnds
<1>8. CASE ChildExit(c) BY <1>8 DEF ChildExit, ChildEnds
<1>9. CASE ChildKilled(c) BY <1>9 DEF ChildKilled, ChildEnds
<1>10. CASE LimitHit(c) BY <1>10 DEF LimitHit
<1>11. CASE ChildOom(c) BY <1>11 DEF ChildOom, ChildEnds
<1>12. CASE InitFails(c) BY <1>12 DEF InitFails, InitStep
<1>13. CASE WorkerStarts(c) BY <1>13 DEF WorkerStarts, InitStep
<1>14. CASE WorkerEnds(c) BY <1>14 DEF WorkerEnds, InitStep
<1>15. CASE LeftDies(c) BY <1>15 DEF LeftDies
<1> QED BY <1>1, <1>2, <1>3, <1>4, <1>5, <1>6, <1>7, <1>8, <1>9, <1>10, <1>11,
           <1>12, <1>13, <1>14, <1>15 DEF OthersStep

\* If spawns do not overlap, destroy's read of the diagnostic pipe never waits
\* for another process.
THEOREM DiagNeverWaits ==
  ASSUME Serial
  PROVE  Spec => []DiagReaderAlone
<1>1. Init => PipeInv BY DEF Init, All, PipeInv
<1>2. Life /\ PipeInv /\ [Next]_vars => PipeInv'
  <2> SUFFICES ASSUME Life, PipeInv, [Next]_vars PROVE PipeInv' OBVIOUS
  <2>1. CASE Next BY <2>1, NextIsAStep, SpawnPipe, HandlePipe, OthersPipe
  <2>2. CASE UNCHANGED vars BY <2>2 DEF vars, PipeInv
  <2> QED BY <2>1, <2>2
<1>3. Life /\ PipeInv => DiagReaderAlone
  BY DEF Life, LifeInv, PipeInv, Writers, DiagReaderAlone
<1> QED BY <1>1, <1>2, <1>3, InitLife, NextLife, PTL DEF Spec

-----------------------------------------------------------------------------
(* The CapsuleHandle contract.                                              *)

\* To the user, the end of spawn is the contract's Spawn.
LEMMA SpawnContract ==
  ASSUME Life, NEW c \in Capsule, SpawnStep(c)
  PROVE  [Contract!Next]_(Contract!vars)
<1> USE DEF Life, LifeInv, ReportInv, TypeOK, PhaseOf, WorkerOf, ReportOf, Contract!vars,
            Contract!Next, Contract!Spawn, Contract!End, Contract!Destroy, Contract!Abandon, Told
<1>1. CASE SpawnPipes(c) BY <1>1 DEF SpawnPipes
<1>2. CASE Clone(c) BY <1>2 DEF Clone
<1>3. CASE CloneFails(c) BY <1>3 DEF CloneFails
<1>4. CASE CloseEnds(c) BY <1>4 DEF CloseEnds
<1>5. CASE WriteMaps(c) BY <1>5 DEF WriteMaps, Setup
<1>6. CASE MoveVeth(c) BY <1>6 DEF MoveVeth, Setup
<1>7. CASE MakeCgroup(c) BY <1>7 DEF MakeCgroup
<1>8. CASE SyncChild(c) BY <1>8 DEF SyncChild
<1>9. CASE BailSync(c) BY <1>9 DEF BailSync
<1>10. CASE BailKill(c) BY <1>10 DEF BailKill
<1>11. CASE BailWait(c) BY <1>11 DEF BailWait
<1>12. CASE StageFails(c) BY <1>12 DEF StageFails
<1> QED BY <1>1, <1>2, <1>3, <1>4, <1>5, <1>6, <1>7, <1>8, <1>9, <1>10, <1>11,
           <1>12 DEF SpawnStep

\* To the user, destroy's look at the child is the contract's Destroy or Abandon.
LEMMA HandleContract ==
  ASSUME Life, NEW c \in Capsule, HandleStep(c)
  PROVE  [Contract!Next]_(Contract!vars)
<1> USE DEF Life, LifeInv, ReportInv, TypeOK, PhaseOf, WorkerOf, ReportOf, Contract!vars,
            Contract!Next, Contract!Spawn, Contract!End, Contract!Destroy, Contract!Abandon, Told
<1>1. CASE Kill(c) BY <1>1 DEF Kill
<1>2. CASE DestroyCancel(c) BY <1>2 DEF DestroyCancel
<1>3. CASE DestroyLock(c) BY <1>3 DEF DestroyLock
<1>4. CASE DestroyWait(c) BY <1>4 DEF DestroyWait, Reap, WaitError
<1>5. CASE DestroyReap(c) BY <1>5 DEF DestroyReap, Reap, WaitError
<1>6. CASE DestroyDiag(c) BY <1>6 DEF DestroyDiag
<1>7. CASE DestroyFinish(c) BY <1>7 DEF DestroyFinish, DetectViolation
<1>8. CASE DropHandle(c) BY <1>8 DEF DropHandle
<1> QED BY <1>1, <1>2, <1>3, <1>4, <1>5, <1>6, <1>7, <1>8 DEF HandleStep

\* To the user, watchdog, child and kernel only ever end the worker.
LEMMA OthersContract ==
  ASSUME Life, NEW c \in Capsule, OthersStep(c)
  PROVE  [Contract!Next]_(Contract!vars)
<1> USE DEF Life, LifeInv, ReportInv, TypeOK, PhaseOf, WorkerOf, ReportOf, Contract!vars,
            Contract!Next, Contract!Spawn, Contract!End, Contract!Destroy, Contract!Abandon, Told
<1>1. CASE WatchdogKill(c) BY <1>1 DEF WatchdogKill
<1>2. CASE WatchdogMark(c) BY <1>2 DEF WatchdogMark
<1>3. CASE WatchdogCancelled(c) BY <1>3 DEF WatchdogCancelled
<1>4. CASE ChildSynced(c) BY <1>4 DEF ChildSynced
<1>5. CASE ChildExec(c) BY <1>5 DEF ChildExec
<1>6. CASE ChildBail(c) BY <1>6 DEF ChildBail
<1>7. CASE ChildBailed(c) BY <1>7 DEF ChildBailed, ChildEnds
<1>8. CASE ChildExit(c) BY <1>8 DEF ChildExit, ChildEnds
<1>9. CASE ChildKilled(c) BY <1>9 DEF ChildKilled, ChildEnds
<1>10. CASE LimitHit(c) BY <1>10 DEF LimitHit
<1>11. CASE ChildOom(c) BY <1>11 DEF ChildOom, ChildEnds
<1>12. CASE InitFails(c) BY <1>12 DEF InitFails, InitStep
<1>13. CASE WorkerStarts(c) BY <1>13 DEF WorkerStarts, InitStep
<1>14. CASE WorkerEnds(c) BY <1>14 DEF WorkerEnds, InitStep
<1>15. CASE LeftDies(c) BY <1>15 DEF LeftDies
<1> QED BY <1>1, <1>2, <1>3, <1>4, <1>5, <1>6, <1>7, <1>8, <1>9, <1>10, <1>11,
           <1>12, <1>13, <1>14, <1>15 DEF OthersStep

\* The Namespace backend implements the CapsuleHandle contract: the user of any
\* capsule c1 sees one worker and one report, which tells of that worker.
THEOREM Refinement == Spec => ImplementsCapsule
<1>1. Init => Contract!Init
  BY DEF Init, All, Contract!Init, PhaseOf, WorkerOf, ReportOf
<1>2. Life /\ [Next]_vars => [Contract!Next]_(Contract!vars)
  <2> SUFFICES ASSUME Life, [Next]_vars PROVE [Contract!Next]_(Contract!vars) OBVIOUS
  <2>1. CASE Next BY <2>1, NextIsAStep, SpawnContract, HandleContract, OthersContract
  <2>2. CASE UNCHANGED vars
    BY <2>2 DEF vars, PhaseOf, WorkerOf, ReportOf, Contract!vars
  <2> QED BY <2>1, <2>2
<1> QED BY <1>1, <1>2, InitLife, NextLife, PTL DEF Spec, ImplementsCapsule, Contract!Spec

\* An exit code in a report of the Namespace backend is zk-init's for the end of
\* its own worker, and a signal the one that reached zk-init, whatever is killed,
\* times out or fails meanwhile; and the report is never revised.
THEOREM ReportIsTrue == Spec => []Contract!ReportTrue /\ Contract!ReportFinal
<1> DEFINE Made == Contract!ReportTrue /\ Contract!ReportMade
<1>1. Contract!Init => Made BY DEF Contract!Init, Contract!ReportTrue, Contract!ReportMade, Told, Status
<1>2. Made /\ [Contract!Next]_(Contract!vars) => Made'
  BY DEF Contract!Next, Contract!Spawn, Contract!End, Contract!Destroy, Contract!Abandon, Contract!vars, Contract!ReportTrue, Contract!ReportMade, Told, Status
<1>3. [Contract!Next]_(Contract!vars) => [Contract!Closed]_(Contract!vars)
  BY DEF Contract!Next, Contract!Spawn, Contract!End, Contract!Destroy, Contract!Abandon, Contract!Closed
<1> QED BY <1>1, <1>2, <1>3, Refinement, PTL DEF ImplementsCapsule, Contract!Spec, Contract!ReportFinal

-----------------------------------------------------------------------------
(* The safety halves of CallsReturn and WorkerEventuallyEnds.                *)

\* The most steps the call under way on c still has to take.
StepsLeft(c) ==
  CASE hpc[c] = "clone"     -> 9
    [] hpc[c] = "close"     -> 8
    [] hpc[c] = "maps"      -> 7
    [] hpc[c] = "veth"      -> 6
    [] hpc[c] = "cgroup"    -> 5
    [] hpc[c] = "sync"      -> 4
    [] hpc[c] = "bailsync"  -> 3
    [] hpc[c] = "bailkill"  -> 2
    [] hpc[c] = "bailwait"  -> 1
    [] hpc[c] = "cancelled" -> 5
    [] hpc[c] = "wait"      -> 4
    [] hpc[c] = "reap"      -> 3
    [] hpc[c] = "diag"      -> 2
    [] hpc[c] = "finish"    -> 1
    [] OTHER                -> 0

\* Ended or about to be: what a blocking waitpid waits for.
EndsSoon(c) == child[c] = "zombie" \/ (Alive(c) /\ killed[c])

\* What every call waits for is there or on its way: both blocking waits are for
\* a child that has ended or been sent SIGKILL, the first wait finds a child, and
\* nobody keeps the diagnostic pipe open.
CallsCanStep ==
  \A c \in Capsule :
    /\ hpc[c] \in {"bailwait", "reap"} => EndsSoon(c)
    /\ hpc[c] = "wait" => child[c] = "zombie" \/ Alive(c)
    /\ hpc[c] = "diag" => Writers(c) = {}

\* While a call is under way on a handle every step is one of that call, which
\* leaves it less to do, or leaves it where it was.
CallStep ==
  \A c \in Capsule : hpc[c] \in SpawnSteps \cup DestroySteps =>
    \/ hpc'[c] = hpc[c]
    \/ (Spawning(c) \/ Destroying(c)) /\ StepsLeft(c)' \in 0 .. StepsLeft(c) - 1

\* No step of a child, a watchdog or another capsule undoes a step of a call.
CallsAdvance == [][CallStep]_vars

\* A spawned worker under a timeout has a SIGKILL on its way, or the one who will
\* send it is there: the watchdog, or a destroy that has not looked yet.  (The
\* handle of a dropped capsule takes the watchdog with it.)
KillerAppointed ==
  \A c \in Capsule :
    (spec[c].timeout /\ Alive(c) /\ hpc[c] \notin SpawnSteps \cup {"dropped"}) =>
      \/ killed[c]
      \/ hpc[c] = "spawned" /\ wd[c] = "armed"
      \/ hpc[c] \in {"cancelled", "wait"}

\* A child is there to be waited for until destroy reaps it, and both waits come
\* after a kill.
ChaseInv(c) ==
  /\ hpc[c] \in {"bailkill", "bailwait", "spawned", "wait", "reap"} => child[c] = "zombie" \/ Alive(c)
  /\ hpc[c] = "cancelled" => child[c] # "reaped"
  /\ hpc[c] \in {"bailwait", "reap", "failed"} => (Alive(c) => killed[c])
  /\ (hpc[c] = "spawned" /\ spec[c].timeout /\ Alive(c)) => wd[c] = "armed" \/ killed[c]

Chase == \A c \in Capsule : ChaseInv(c)

\* A SIGKILL is on its way to a live child once it is sent.
LEMMA KillReaches ==
  ASSUME Life, NEW c \in Capsule, SendKill(c)
  PROVE  Alive(c) => killed'[c]
<1>1. killed \in [Capsule -> BOOLEAN] BY DEF Life, TypeOK
<1>2. killed' = [killed EXCEPT ![c] = killed[c] \/ Alive(c)] BY DEF SendKill
<1> HIDE DEF Alive, SendKill
<1> QED BY <1>1, <1>2

\* spawn arms the watchdog as it hands the child over, and its error path kills first.
LEMMA SpawnChase == ASSUME Life, Chase, NEW c \in Capsule, SpawnStep(c) PROVE Chase'
<1> SUFFICES ASSUME NEW d \in Capsule PROVE ChaseInv(d)'
  BY DEF Chase
<1> USE DEF Life, LifeInv, TypeOK, SpecType, Chase, ChaseInv
<1>1. CASE SpawnPipes(c) BY <1>1 DEF SpawnPipes
<1>2. CASE Clone(c) BY <1>2 DEF Clone
<1>3. CASE CloneFails(c) BY <1>3 DEF CloneFails
<1>4. CASE CloseEnds(c) BY <1>4 DEF CloseEnds
<1>5. CASE WriteMaps(c) BY <1>5 DEF WriteMaps, Setup
<1>6. CASE MoveVeth(c) BY <1>6 DEF MoveVeth, Setup
<1>7. CASE MakeCgroup(c) BY <1>7 DEF MakeCgroup
<1>8. CASE SyncChild(c) BY <1>8 DEF SyncChild
<1>9. CASE BailSync(c) BY <1>9 DEF BailSync
<1>10. CASE BailKill(c)
  <2>1. CASE c # d BY <1>10, <2>1 DEF BailKill
  <2>2. CASE c = d
    <3>1. SendKill(c) /\ UNCHANGED <<spec, child, wd>> BY <1>10 DEF BailKill
    <3>2. Alive(c) => killed'[c] BY <3>1, KillReaches
    <3>3. hpc[c] = "bailkill" /\ hpc'[c] = "bailwait" BY <1>10 DEF BailKill
    <3> QED BY <2>2, <3>1, <3>2, <3>3
  <2> QED BY <2>1, <2>2
<1>11. CASE BailWait(c) BY <1>11 DEF BailWait
<1>12. CASE StageFails(c) BY <1>12 DEF StageFails
<1> QED BY <1>1, <1>2, <1>3, <1>4, <1>5, <1>6, <1>7, <1>8, <1>9, <1>10, <1>11,
           <1>12 DEF SpawnStep

\* destroy kills before it waits.
LEMMA HandleChase == ASSUME Life, Chase, NEW c \in Capsule, HandleStep(c) PROVE Chase'
<1> SUFFICES ASSUME NEW d \in Capsule PROVE ChaseInv(d)'
  BY DEF Chase
<1> USE DEF Life, LifeInv, TypeOK, SpecType, Chase, ChaseInv
<1>1. CASE Kill(c) BY <1>1 DEF Kill
<1>2. CASE DestroyCancel(c) BY <1>2 DEF DestroyCancel
<1>3. CASE DestroyLock(c) BY <1>3 DEF DestroyLock
<1>4. CASE DestroyWait(c)
  <2>1. CASE c # d BY <1>4, <2>1 DEF DestroyWait, Reap, WaitError
  <2>2. CASE c = d /\ Reap(c) BY <1>4, <2>2 DEF DestroyWait, Reap
  <2>3. CASE c = d /\ child[c] = "zombie" /\ WaitError(c) BY <1>4, <2>3 DEF DestroyWait, WaitError
  <2>4. CASE c = d /\ Alive(c) /\ SendKill(c) /\ Goto(c, "reap") /\ UNCHANGED child
    <3>1. SendKill(c) /\ UNCHANGED child BY <2>4
    <3>2. Alive(c) => killed'[c] BY <3>1, KillReaches
    <3>3. hpc[c] = "wait" /\ hpc'[c] = "reap" BY <1>4, <2>4 DEF DestroyWait
    <3> QED BY <2>4, <3>1, <3>2, <3>3
  <2> QED BY <1>4, <2>1, <2>2, <2>3, <2>4 DEF DestroyWait
<1>5. CASE DestroyReap(c)
  <2>1. CASE c # d BY <1>5, <2>1 DEF DestroyReap, Reap, WaitError
  <2>2. CASE c = d /\ Reap(c) BY <1>5, <2>2 DEF DestroyReap, Reap
  <2>3. CASE c = d /\ WaitError(c) BY <1>5, <2>3 DEF DestroyReap, WaitError
  <2> QED BY <1>5, <2>1, <2>2, <2>3 DEF DestroyReap
<1>6. CASE DestroyDiag(c) BY <1>6 DEF DestroyDiag
<1>7. CASE DestroyFinish(c) BY <1>7 DEF DestroyFinish, DetectViolation
<1>8. CASE DropHandle(c) BY <1>8 DEF DropHandle
<1> QED BY <1>1, <1>2, <1>3, <1>4, <1>5, <1>6, <1>7, <1>8 DEF HandleStep

\* The watchdog leaves its post only after a kill or a cancel.
LEMMA OthersChase == ASSUME Life, Chase, NEW c \in Capsule, OthersStep(c) PROVE Chase'
<1> SUFFICES ASSUME NEW d \in Capsule PROVE ChaseInv(d)'
  BY DEF Chase
<1> USE DEF Life, LifeInv, TypeOK, SpecType, Chase, ChaseInv
<1>1. CASE WatchdogKill(c) BY <1>1 DEF WatchdogKill
<1>2. CASE WatchdogMark(c) BY <1>2 DEF WatchdogMark
<1>3. CASE WatchdogCancelled(c) BY <1>3 DEF WatchdogCancelled
<1>4. CASE ChildSynced(c) BY <1>4 DEF ChildSynced
<1>5. CASE ChildExec(c) BY <1>5 DEF ChildExec
<1>6. CASE ChildBail(c) BY <1>6 DEF ChildBail
<1>7. CASE ChildBailed(c) BY <1>7 DEF ChildBailed, ChildEnds
<1>8. CASE ChildExit(c) BY <1>8 DEF ChildExit, ChildEnds
<1>9. CASE ChildKilled(c) BY <1>9 DEF ChildKilled, ChildEnds
<1>10. CASE LimitHit(c) BY <1>10 DEF LimitHit
<1>11. CASE ChildOom(c) BY <1>11 DEF ChildOom, ChildEnds
<1>12. CASE InitFails(c) BY <1>12 DEF InitFails, InitStep
<1>13. CASE WorkerStarts(c) BY <1>13 DEF WorkerStarts, InitStep
<1>14. CASE WorkerEnds(c) BY <1>14 DEF WorkerEnds, InitStep
<1>15. CASE LeftDies(c) BY <1>15 DEF LeftDies
<1> QED BY <1>1, <1>2, <1>3, <1>4, <1>5, <1>6, <1>7, <1>8, <1>9, <1>10, <1>11,
           <1>12, <1>13, <1>14, <1>15 DEF OthersStep

\* Chase holds in every state.
LEMMA AlwaysChase == Spec => [](Life /\ Chase)
<1>1. Init => Chase BY DEF Init, All, Chase, ChaseInv
<1>2. Life /\ Chase /\ [Next]_vars => Chase'
  <2> SUFFICES ASSUME Life, Chase, [Next]_vars PROVE Chase' OBVIOUS
  <2>1. CASE Next BY <2>1, NextIsAStep, SpawnChase, HandleChase, OthersChase
  <2>2. CASE UNCHANGED vars BY <2>2 DEF vars, Chase, ChaseInv
  <2> QED BY <2>1, <2>2
<1> QED BY <1>1, <1>2, InitLife, NextLife, PTL DEF Spec

-----------------------------------------------------------------------------
(* Clean-up.                                                                *)

\* What spawn made is there until destroy finishes or the handle is given up, and
\* nobody is left behind without a SIGKILL.
UseInv(c) ==
  /\ left[c] # "running"
  /\ hpc[c] \in SpawnSteps => staged[c]
  /\ hpc[c] \in {"spawned", "cancelled", "wait"} /\ child[c] # "none" => staged[c]
  /\ hpc[c] \notin {"gone", "failed", "dropped"} /\ "cgroup" \in ready[c] => cgroupDir[c]
  /\ hpc[c] \notin {"gone", "dropped"} /\ spec[c].egress => network[c]

Use == \A c \in Capsule : UseInv(c)

\* spawn's error path removes the staged file only as it gives up the child.
LEMMA SpawnUse == ASSUME Life, Chase, Use, NEW c \in Capsule, SpawnStep(c) PROVE Use'
<1> SUFFICES ASSUME NEW d \in Capsule PROVE UseInv(d)'
  BY DEF Use
<1> USE DEF Life, LifeInv, TypeOK, SpecType, Use, UseInv
<1>1. CASE SpawnPipes(c) BY <1>1 DEF SpawnPipes
<1>2. CASE Clone(c) BY <1>2 DEF Clone
<1>3. CASE CloneFails(c) BY <1>3 DEF CloneFails
<1>4. CASE CloseEnds(c) BY <1>4 DEF CloseEnds
<1>5. CASE WriteMaps(c)
  <2>1. UNCHANGED <<spec, child, left, staged, cgroupDir, network>> BY <1>5 DEF WriteMaps
  <2>2. hpc[d]' = hpc[d] \/ (hpc[d] \in SpawnSteps /\ hpc[d]' \in SpawnSteps)
    BY <1>5 DEF WriteMaps, Setup
  <2>3. "cgroup" \in ready[d]' => "cgroup" \in ready[d]
    <3>1. UNCHANGED ready \/ \E x \in {"maps", "veth"} : ready' = [ready EXCEPT ![c] = @ \cup {x}]
      BY <1>5 DEF WriteMaps, Setup
    <3>2. ready \in [Capsule -> SUBSET SetupSteps] OBVIOUS
    <3> HIDE DEF Life, LifeInv, TypeOK, SpecType, Use, UseInv
    <3> QED BY <3>1, <3>2
  <2> QED BY <2>1, <2>2, <2>3
<1>6. CASE MoveVeth(c)
  <2>1. UNCHANGED <<spec, child, left, staged, cgroupDir, network>> BY <1>6 DEF MoveVeth
  <2>2. hpc[d]' = hpc[d] \/ (hpc[d] \in SpawnSteps /\ hpc[d]' \in SpawnSteps)
    BY <1>6 DEF MoveVeth, Setup
  <2>3. "cgroup" \in ready[d]' => "cgroup" \in ready[d]
    <3>1. UNCHANGED ready \/ \E x \in {"maps", "veth"} : ready' = [ready EXCEPT ![c] = @ \cup {x}]
      BY <1>6 DEF MoveVeth, Setup
    <3>2. ready \in [Capsule -> SUBSET SetupSteps] OBVIOUS
    <3> HIDE DEF Life, LifeInv, TypeOK, SpecType, Use, UseInv
    <3> QED BY <3>1, <3>2
  <2> QED BY <2>1, <2>2, <2>3
<1>7. CASE MakeCgroup(c)
  <2>1. UNCHANGED <<spec, child, left, staged, network>> BY <1>7 DEF MakeCgroup
  <2>2. hpc[d]' = hpc[d] \/ (hpc[d] \in SpawnSteps /\ hpc[d]' \in SpawnSteps)
    BY <1>7 DEF MakeCgroup
  <2>3. \/ UNCHANGED <<ready, cgroupDir>>
        \/ cgroupDir[d]' = TRUE
        \/ ready[d]' = ready[d] /\ cgroupDir[d]' = cgroupDir[d]
    BY <1>7 DEF MakeCgroup
  <2> QED BY <2>1, <2>2, <2>3
<1>8. CASE SyncChild(c) BY <1>8 DEF SyncChild
<1>9. CASE BailSync(c) BY <1>9 DEF BailSync
<1>10. CASE BailKill(c) BY <1>10 DEF BailKill
<1>11. CASE BailWait(c)
  <2>1. left[d]' # "running" BY <1>11 DEF BailWait, Chase, ChaseInv
  <2>2. CASE c # d BY <1>11, <2>1, <2>2 DEF BailWait
  <2>3. CASE c = d
    <3>1. hpc[d]' = "open" /\ ready[d]' = {} /\ UNCHANGED <<spec, network>> BY <1>11, <2>3 DEF BailWait
    <3>2. hpc[d] = "bailwait" BY <1>11, <2>3 DEF BailWait
    <3> QED BY <2>1, <3>1, <3>2
  <2> QED BY <2>2, <2>3
<1>12. CASE StageFails(c) BY <1>12 DEF StageFails
<1> QED BY <1>1, <1>2, <1>3, <1>4, <1>5, <1>6, <1>7, <1>8, <1>9, <1>10, <1>11,
           <1>12 DEF SpawnStep

\* destroy removes nothing before it has reaped the child or failed to.
LEMMA HandleUse == ASSUME Life, Use, NEW c \in Capsule, HandleStep(c) PROVE Use'
<1> SUFFICES ASSUME NEW d \in Capsule PROVE UseInv(d)'
  BY DEF Use
<1> USE DEF Life, LifeInv, TypeOK, SpecType, Use, UseInv
<1>1. CASE Kill(c) BY <1>1 DEF Kill
<1>2. CASE DestroyCancel(c) BY <1>2 DEF DestroyCancel
<1>3. CASE DestroyLock(c) BY <1>3 DEF DestroyLock
<1>4. CASE DestroyWait(c) BY <1>4 DEF DestroyWait, Reap, WaitError
<1>5. CASE DestroyReap(c)
  <2>1. UNCHANGED <<spec, left, staged, ready, network>> BY <1>5 DEF DestroyReap
  <2>2. \/ hpc[d]' = hpc[d] /\ child[d]' = child[d] /\ cgroupDir[d]' = cgroupDir[d]
        \/ hpc[d] = "reap" /\ hpc[d]' = "diag" /\ cgroupDir[d]' = cgroupDir[d]
        \/ hpc[d] = "reap" /\ hpc[d]' = "failed"
    <3>1. CASE Reap(c) BY <1>5, <3>1 DEF DestroyReap, Reap
    <3>2. CASE WaitError(c) BY <1>5, <3>2 DEF DestroyReap, WaitError
    <3> QED BY <1>5, <3>1, <3>2 DEF DestroyReap
  <2> QED BY <2>1, <2>2
<1>6. CASE DestroyDiag(c) BY <1>6 DEF DestroyDiag
<1>7. CASE DestroyFinish(c) BY <1>7 DEF DestroyFinish
<1>8. CASE DropHandle(c) BY <1>8 DEF DropHandle
<1> QED BY <1>1, <1>2, <1>3, <1>4, <1>5, <1>6, <1>7, <1>8 DEF HandleStep

\* Nobody else removes anything.
LEMMA OthersUse == ASSUME Life, Use, NEW c \in Capsule, OthersStep(c) PROVE Use'
<1> SUFFICES ASSUME NEW d \in Capsule PROVE UseInv(d)'
  BY DEF Use
<1> USE DEF OthersStep, WatchdogKill, WatchdogMark, WatchdogCancelled,
            ChildSynced, ChildExec, ChildBail, ChildBailed, ChildEnds, InitFails, WorkerStarts,
            WorkerEnds, InitStep, ChildExit, ChildKilled, LeftDies, LimitHit, ChildOom
<1>1. UNCHANGED <<spec, hpc, ready, staged, cgroupDir, network>> OBVIOUS
<1>2. left[d]' \in {left[d], "zombie"} BY DEF Life, TypeOK
<1>3. child[d] = "none" => child[d]' = "none" BY DEF Life, TypeOK
<1> QED BY <1>1, <1>2, <1>3 DEF Use, UseInv

\* Whichever call or clean-up fails and whichever wait is interrupted, a capsule
\* that is done with, or whose spawn has failed, has no process that runs without
\* a SIGKILL on its way, and nothing is taken from a child that nobody has killed.
THEOREM CleanUpIsOrderly == Spec => []CleansUpInOrder
<1>1. Init => Use BY DEF Init, All, Use, UseInv
<1>2. Life /\ Chase /\ Use /\ [Next]_vars => Use'
  <2> SUFFICES ASSUME Life, Chase, Use, [Next]_vars PROVE Use' OBVIOUS
  <2>1. CASE Next BY <2>1, NextIsAStep, SpawnUse, HandleUse, OthersUse
  <2>2. CASE UNCHANGED vars BY <2>2 DEF vars, Use, UseInv
  <2> QED BY <2>1, <2>2
<1>3. Life /\ Chase /\ Use => LeftBehindIsDoomed
  BY DEF Life, LifeInv, Chase, ChaseInv, Use, UseInv, LeftBehindIsDoomed
<1>4. Life /\ Chase /\ Use => KeepsWhatItUses
  BY DEF Life, LifeInv, TypeOK, Chase, ChaseInv, Use, UseInv, KeepsWhatItUses
<1> QED BY <1>1, <1>2, <1>3, <1>4, AlwaysChase, PTL DEF Spec, CleansUpInOrder

-----------------------------------------------------------------------------
(* The steps of a call.                                                     *)

\* A step of one handle's call leaves that call less to do and the others alone.
LEMMA StepCounts ==
  ASSUME Life, NEW c \in Capsule, SpawnStep(c) \/ HandleStep(c) \/ OthersStep(c)
  PROVE  CallStep
<1> SUFFICES ASSUME NEW d \in Capsule, hpc[d] \in SpawnSteps \cup DestroySteps, hpc'[d] # hpc[d]
             PROVE  /\ Spawning(d) \/ Destroying(d)
                    /\ StepsLeft(d)' \in 0 .. StepsLeft(d) - 1
  BY DEF CallStep
<1>1. ~OthersStep(c)
  BY DEF OthersStep, WatchdogKill, WatchdogMark, WatchdogCancelled, ChildSynced, ChildExec,
         ChildBail, ChildBailed, ChildEnds, InitFails, WorkerStarts, WorkerEnds, InitStep,
         ChildExit, ChildKilled, LeftDies, LimitHit, ChildOom
<1>2. CASE SpawnStep(c)
  <2>1. c = d BY <1>2, SpawnMoves
  <2>2. Spawning(d) BY <1>2, <2>1 DEF SpawnStep, Spawning, SpawnPipes, StageFails
  <2>3. StepsLeft(d)' \in 0 .. StepsLeft(d) - 1 BY <1>2, <2>1, SpawnMoves DEF StepsLeft
  <2> QED BY <2>1, <2>2, <2>3
<1>3. CASE HandleStep(c)
  <2>1. c = d /\ Destroying(d)
    BY <1>3 DEF Life, TypeOK, HandleStep, Destroying, Kill, DestroyCancel, DestroyLock,
                DestroyWait, Reap, WaitError, DestroyReap, DestroyDiag, DestroyFinish, DropHandle
  <2>2. StepsLeft(d)' \in 0 .. StepsLeft(d) - 1
    BY <2>1 DEF Life, TypeOK, StepsLeft, Destroying, DestroyLock,
                DestroyWait, Reap, WaitError, DestroyReap, DestroyDiag, DestroyFinish
  <2> QED BY <2>1, <2>2
<1> QED BY <1>1, <1>2, <1>3

\* If spawns do not overlap, spawn takes at most nine steps and destroy five, on
\* every path, and whatever one of them waits for has happened or is under way:
\* no waitpid is for a child that nobody has killed, and the diagnostic read never
\* waits.  No other capsule, watchdog or child can send a call back.
THEOREM CallsAreBounded ==
  ASSUME Serial
  PROVE  Spec => []CallsCanStep /\ CallsAdvance
<1>1. Spec => []DiagReaderAlone BY DiagNeverWaits
<1>2. Life /\ Chase /\ DiagReaderAlone => CallsCanStep
  BY DEF Life, LifeInv, TypeOK, Chase, ChaseInv, DiagReaderAlone, CallsCanStep, EndsSoon
<1>3. Life /\ [Next]_vars => [CallStep]_vars BY NextIsAStep, StepCounts
<1> QED BY <1>1, <1>2, <1>3, AlwaysChase, PTL DEF Spec, CallsAdvance

\* From the return of spawn to the report, through every race of watchdog, kill
\* and destroy, a worker with a timeout never runs with nobody left to kill it.
THEOREM TimeoutIsEnforced == Spec => []KillerAppointed
<1>1. Life /\ Chase => KillerAppointed
  BY DEF Life, LifeInv, TypeOK, Chase, ChaseInv, KillerAppointed
<1> QED BY <1>1, AlwaysChase, PTL
=============================================================================
