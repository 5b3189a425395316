---------------------- MODULE FirecrackerCapsuleProofs -----------------------
(* Theorems about FirecrackerCapsule, for any set of faults.                 *)
EXTENDS FirecrackerCapsule, TLAPS

Closed == {"reason", "export", "copy", "remove", "gone"}
NotSpawned == {"create", "open", "failed"} \cup SpawnSteps

\* Where the handle is determines whether it has a VM process, and only a
\* running one has a guest.
VmInv ==
  /\ hpc \in {"create", "open", "failed"} \cup PrepareSteps => vm = "none"
  /\ hpc \in BootSteps \cup {"spawned", "grace"} => vm \in {"running", "dead"}
  /\ hpc \in Closed \cup {"take"} => vm \in {"none", "reaped"}
  /\ hpc \notin Closed \cup {"take"} => vm # "reaped"
  /\ guest # "off" => vm = "running"

\* The watchdog records its reason before it kills, and kills nothing once
\* destroy has reaped the VM.
KillInv ==
  /\ (wd = "kill" \/ "watchdog" \in killers) => killedBy = "WallClock"
  /\ (hpc \in {"export", "copy", "remove", "gone"} /\ "watchdog" \in killers) => reason = "WallClock"

\* What the host has been told of the worker is how it ended, and was told
\* after the sync.
ToldInv ==
  /\ guest \in {"ended", "synced", "told"} => status \in Status
  /\ guest \in {"synced", "told"} => saved
  /\ guest \in {"boot", "listening", "accepted", "run", "ended", "synced"} =>
       statusLine = "none" /\ noted = "none"
  /\ statusLine # "none" => saved /\ status = statusLine
  /\ noted # "none" => saved /\ status = noted

\* The reader starts when spawn returns; before the guest, nothing is in the
\* control connection.
QuietInv ==
  /\ hpc \in NotSpawned => reader = "none"
  /\ reader = "none" => noted = "none"
  /\ reader = "mark" => noted # "none"
  /\ hpc \in {"create", "open", "api"} \cup PrepareSteps => statusLine = "none" /\ guest = "off"

\* What destroy reports, and what it has copied by then.
ReportInv ==
  /\ hpc \notin Closed => exit = "none"
  /\ exit \in Status => saved
  /\ hpc \notin {"remove", "gone"} => exported = "none"
  /\ exported = "stale" => exit \notin Status \/ "seed" \in left

\* What the host has mounted and not given up is what it is just using, and the
\* workspace image is given up only if a step of seeding it failed.
MountInv ==
  /\ mounts \ left \subseteq CASE hpc = "staging" -> {"rootfs"}
                               [] hpc = "seed"    -> {"seed"}
                               [] hpc = "copy"    -> {"export"}
                               [] OTHER           -> {}
  /\ "seed" \in left => {"stage", "umount"} \cap MayFail # {}

\* What a VM uses is there from before it is started until it has been reaped.
Using == {"vmkill", "vmwait", "spawned", "grace"} \cup SpawnSteps
UseInv ==
  /\ hpc \in {"open", "dropped"} \cup Using => stateDir
  /\ hpc \in {"seed", "start"} \cup BootSteps => image
  /\ vm \in {"running", "dead"} => image
  /\ (spec.egress /\ hpc \in {"open", "dropped"} \cup Using) => tap /\ caFile
  /\ (spec.egress /\ hpc \in {"open"} \cup Using) => proxyUp
  /\ hpc \in {"create", "failed", "gone"} => ~proxyUp

IInv == TypeOK /\ VmInv /\ KillInv /\ ToldInv /\ QuietInv /\ ReportInv /\ MountInv /\ UseInv

USE DEF HPC, PrepareSteps, BootSteps, SpawnSteps, DestroySteps, Closed, NotSpawned, Using,
        Status, Told, MountPoints, guestVars, vmVars, mountVars, readVars, wdVars, egressVars, hostVars, reportVars

\* Before create there is nothing.
LEMMA InitIInv == Init => IInv
<1> SUFFICES ASSUME Init PROVE IInv OBVIOUS
<1> USE DEF Init
<1>1. spec \in [timeout : BOOLEAN, egress : BOOLEAN, workspace : BOOLEAN] OBVIOUS
<1>2. TypeOK BY <1>1 DEF TypeOK
<1>3. VmInv /\ KillInv /\ ToldInv /\ QuietInv /\ ReportInv /\ MountInv /\ UseInv
  BY DEF VmInv, KillInv, ToldInv, QuietInv, ReportInv, MountInv, UseInv
<1> QED BY <1>2, <1>3 DEF IInv

\* create, and the steps of spawn before the VM process, with their error paths.
LEMMA PrepareIInv ==
  ASSUME IInv, Create \/ StageRootfs \/ Prepare
  PROVE  IInv'
<1> USE DEF IInv, Create, StartEgress, MayStay, StageRootfs, Prepare, StagePayload, Umount,
            MakeImage, Seed, StartVm
<1>1. TypeOK'
  <2>1. spec' \in [timeout : BOOLEAN, egress : BOOLEAN, workspace : BOOLEAN] BY DEF TypeOK
  <2>2. hpc' \in HPC BY DEF TypeOK
  <2>3. vm' \in {"none", "running", "dead", "reaped"} BY DEF TypeOK
  <2>4. killers' \subseteq {"handle", "watchdog"} BY DEF TypeOK
  <2>5. guest' \in {"off", "boot", "listening", "accepted", "run", "ended", "synced", "told"}
    BY DEF TypeOK
  <2>6. status' \in Status \cup {"none", "lost"} /\ UNCHANGED <<statusLine, readyLine>>
    BY DEF TypeOK
  <2>7. saved' \in BOOLEAN BY DEF TypeOK
  <2>8. asked' \in BOOLEAN BY DEF TypeOK
  <2>9. UNCHANGED <<readVars, wdVars, reportVars>> OBVIOUS
  <2>10. stateDir' \in BOOLEAN /\ image' \in BOOLEAN BY DEF TypeOK
  <2>11. mounts' \subseteq MountPoints /\ left' \subseteq MountPoints BY DEF TypeOK
  <2>12. proxyUp' \in BOOLEAN /\ tap' \in BOOLEAN /\ caFile' \in BOOLEAN BY DEF TypeOK
  <2> QED BY <2>1, <2>2, <2>3, <2>4, <2>5, <2>6, <2>7, <2>8, <2>9, <2>10, <2>11, <2>12
          DEF TypeOK
<1>2. VmInv' BY DEF TypeOK, VmInv, QuietInv
<1>3. KillInv' BY DEF TypeOK, VmInv, KillInv
<1>4. ToldInv' BY DEF TypeOK, VmInv, ToldInv, QuietInv
<1>5. QuietInv' BY DEF TypeOK, VmInv, QuietInv
<1>6. ReportInv' BY DEF TypeOK, VmInv, ToldInv, QuietInv, ReportInv
<1>7. MountInv' BY DEF TypeOK, MountInv
<1>8. UseInv'
  <2>1. CASE Create
    <3>1. hpc = "create" /\ hpc' \in {"open", "failed"} /\ vm' = vm /\ spec' = spec BY <2>1
    <3>2. hpc' = "open" => stateDir' BY <2>1
    <3>3. hpc' = "open" /\ spec.egress => tap' /\ caFile' /\ proxyUp' BY <2>1
    <3>4. hpc' = "failed" => ~proxyUp' BY <2>1 DEF UseInv
    <3>5. vm = "none" BY <3>1 DEF VmInv
    <3> QED BY <3>1, <3>2, <3>3, <3>4, <3>5 DEF UseInv
  <2>2. CASE StageRootfs \/ StagePayload \/ Seed \/ StartVm
    <3>1. UNCHANGED <<spec, stateDir, image, egressVars>> BY <2>2
    <3>2. /\ hpc \in {"open"} \cup PrepareSteps
          /\ hpc' \in {"open", "api"} \cup PrepareSteps
      BY <2>2
    <3>3. hpc' \in {"seed", "start", "api"} => hpc \in {"seed", "start"} BY <2>2
    <3>4. vm' # vm => hpc = "start" BY <2>2
    <3>5. vm = "none" BY <3>2 DEF VmInv
    <3> HIDE DEF StageRootfs, StagePayload, Seed, StartVm, Prepare, Create, MakeImage
    <3> QED BY <3>1, <3>2, <3>3, <3>4, <3>5 DEF UseInv
  <2>3. CASE MakeImage
    <3>1. UNCHANGED <<spec, vm, stateDir, egressVars>> BY <2>3
    <3>2. hpc = "image" /\ hpc' \in {"open", "seed", "start"} BY <2>3
    <3>3. hpc' \in {"seed", "start"} => image' BY <2>3
    <3>4. vm = "none" BY <3>2 DEF VmInv
    <3> QED BY <3>1, <3>2, <3>3, <3>4 DEF UseInv
  <2> QED BY <2>1, <2>2, <2>3
<1> QED BY <1>1, <1>2, <1>3, <1>4, <1>5, <1>6, <1>7, <1>8

\* The steps of spawn that have a VM process.
LEMMA BootIInv ==
  ASSUME IInv, Boot
  PROVE  IInv'
<1> USE DEF IInv, Boot, Configure, Connect, ReadReady, ReadyFails, Bail, BailWait, SendKill
<1>1. TypeOK'
  <2>1. spec' \in [timeout : BOOLEAN, egress : BOOLEAN, workspace : BOOLEAN] BY DEF TypeOK
  <2>2. hpc' \in HPC BY DEF TypeOK
  <2>3. vm' \in {"none", "running", "dead", "reaped"} BY DEF TypeOK
  <2>4. killers' \subseteq {"handle", "watchdog"} BY DEF TypeOK
  <2>5. guest' \in {"off", "boot", "listening", "accepted", "run", "ended", "synced", "told"}
    BY DEF TypeOK
  <2>6. statusLine' \in Status \cup {"none"} /\ readyLine' \in BOOLEAN BY DEF TypeOK
  <2>7. /\ reader' \in {"none", "reading", "mark", "done"}
        /\ wd' \in {"none", "armed", "mark", "kill", "done"}
    BY DEF TypeOK
  <2>8. UNCHANGED <<asked, status, saved, noted, exited, cancel, killedBy, hostVars, reportVars>>
    OBVIOUS
  <2> QED BY <2>1, <2>2, <2>3, <2>4, <2>5, <2>6, <2>7, <2>8 DEF TypeOK
<1>2. VmInv' BY DEF TypeOK, VmInv, QuietInv
<1>3. KillInv' BY DEF TypeOK, VmInv, KillInv
<1>4. ToldInv' BY DEF TypeOK, VmInv, ToldInv, QuietInv
<1>5. QuietInv' BY DEF TypeOK, VmInv, QuietInv
<1>6. ReportInv' BY DEF TypeOK, VmInv, ToldInv, QuietInv, ReportInv
<1>7. MountInv' BY DEF TypeOK, MountInv
<1>8. UseInv' BY DEF TypeOK, VmInv, UseInv
<1> QED BY <1>1, <1>2, <1>3, <1>4, <1>5, <1>6, <1>7, <1>8

\* zk-init, the worker and the VM process.
LEMMA GuestIInv ==
  ASSUME IInv, Guest \/ VmKilled \/ VmDies
  PROVE  IInv'
<1> USE DEF IInv, Guest, GuestListens, GuestReady, WorkerEnds, GuestSync, GuestTell,
            VmKilled, VmDies, VmEnds
<1>1. TypeOK'
  <2>1. spec' \in [timeout : BOOLEAN, egress : BOOLEAN, workspace : BOOLEAN] BY DEF TypeOK
  <2>2. vm' \in {"none", "running", "dead", "reaped"} BY DEF TypeOK
  <2>3. guest' \in {"off", "boot", "listening", "accepted", "run", "ended", "synced", "told"}
    BY DEF TypeOK
  <2>4. status' \in Status \cup {"none", "lost"} BY DEF TypeOK
  <2>5. statusLine' \in Status \cup {"none"} BY DEF TypeOK, ToldInv
  <2>6. saved' \in BOOLEAN /\ readyLine' \in BOOLEAN BY DEF TypeOK
  <2>7. asked' \in BOOLEAN /\ UNCHANGED <<hpc, killers, readVars, wdVars, hostVars, reportVars>>
    BY DEF TypeOK
  <2> QED BY <2>1, <2>2, <2>3, <2>4, <2>5, <2>6, <2>7 DEF TypeOK
<1>2. VmInv' BY DEF TypeOK, VmInv, QuietInv
<1>3. KillInv' BY DEF TypeOK, VmInv, KillInv
<1>4. ToldInv' BY DEF TypeOK, VmInv, ToldInv, QuietInv
<1>5. QuietInv' BY DEF TypeOK, VmInv, QuietInv
<1>6. ReportInv' BY DEF TypeOK, VmInv, ToldInv, QuietInv, ReportInv
<1>7. MountInv' BY DEF TypeOK, MountInv
<1>8. UseInv' BY DEF TypeOK, VmInv, UseInv
<1> QED BY <1>1, <1>2, <1>3, <1>4, <1>5, <1>6, <1>7, <1>8

\* The reader and the watchdog.
LEMMA ThreadsIInv ==
  ASSUME IInv, Reader \/ Watchdog
  PROVE  IInv'
<1> USE DEF IInv, Reader, ReaderStore, ReaderMark, ReaderEof, Watchdog, WatchdogExpire,
            WatchdogQuit, WatchdogMark, WatchdogKill, SendKill
<1>1. TypeOK'
  <2>1. spec' \in [timeout : BOOLEAN, egress : BOOLEAN, workspace : BOOLEAN] BY DEF TypeOK
  <2>2. killers' \subseteq {"handle", "watchdog"} BY DEF TypeOK
  <2>3. reader' \in {"none", "reading", "mark", "done"} BY DEF TypeOK
  <2>4. noted' \in Status \cup {"none"} /\ exited' \in BOOLEAN BY DEF TypeOK
  <2>5. wd' \in {"none", "armed", "mark", "kill", "done"} BY DEF TypeOK
  <2>6. killedBy' \in {"none", "WallClock"} BY DEF TypeOK
  <2>7. /\ statusLine' \in Status \cup {"none"}
        /\ UNCHANGED <<hpc, asked, vm, guest, status, saved, readyLine, cancel, hostVars, reportVars>>
    BY DEF TypeOK
  <2> QED BY <2>1, <2>2, <2>3, <2>4, <2>5, <2>6, <2>7 DEF TypeOK
<1>2. VmInv' BY DEF TypeOK, VmInv, QuietInv
<1>3. KillInv' BY DEF TypeOK, VmInv, KillInv
<1>4. ToldInv' BY DEF TypeOK, VmInv, ToldInv, QuietInv
<1>5. QuietInv' BY DEF TypeOK, VmInv, QuietInv
<1>6. ReportInv' BY DEF TypeOK, VmInv, ToldInv, QuietInv, ReportInv
<1>7. MountInv' BY DEF TypeOK, MountInv
<1>8. UseInv' BY DEF TypeOK, VmInv, UseInv
<1> QED BY <1>1, <1>2, <1>3, <1>4, <1>5, <1>6, <1>7, <1>8

\* kill, the first step of destroy, and the drop.
LEMMA CallerIInv ==
  ASSUME IInv, Terminate \/ Kill \/ GraceOver \/ DestroyCancel \/ DropHandle
  PROVE  IInv'
<1> USE DEF IInv, Terminate, Kill, GraceOver, Write, DestroyCancel, DropHandle, SendKill
<1>1. TypeOK'
  <2>1. spec' \in [timeout : BOOLEAN, egress : BOOLEAN, workspace : BOOLEAN] BY DEF TypeOK
  <2>2. hpc' \in HPC BY DEF TypeOK
  <2>3. killers' \subseteq {"handle", "watchdog"} BY DEF TypeOK
  <2>4. asked' \in BOOLEAN BY DEF TypeOK
  <2>5. cancel' \in BOOLEAN /\ proxyUp' \in BOOLEAN BY DEF TypeOK
  <2>6. UNCHANGED <<vm, guestVars, readVars, wd, killedBy, stateDir, mountVars, image, tap, caFile,
                    reportVars>>
    OBVIOUS
  <2> QED BY <2>1, <2>2, <2>3, <2>4, <2>5, <2>6 DEF TypeOK
<1>2. VmInv' BY DEF TypeOK, VmInv, QuietInv
<1>3. KillInv' BY DEF TypeOK, VmInv, KillInv
<1>4. ToldInv' BY DEF TypeOK, VmInv, ToldInv, QuietInv
<1>5. QuietInv' BY DEF TypeOK, VmInv, QuietInv
<1>6. ReportInv' BY DEF TypeOK, VmInv, ToldInv, QuietInv, ReportInv
<1>7. MountInv' BY DEF TypeOK, MountInv
<1>8. UseInv' BY DEF TypeOK, VmInv, UseInv
<1> QED BY <1>1, <1>2, <1>3, <1>4, <1>5, <1>6, <1>7, <1>8

\* The other steps of destroy.
LEMMA DestroyIInv ==
  ASSUME IInv, DestroyGoesOn
  PROVE  IInv'
<1> USE DEF IInv, DestroyGoesOn, DestroyKill, DestroyWait, DestroyTake, DestroyReason,
            DestroyExport, DestroyCopy, InImage, Umount, DestroyRemove, MayStay, SendKill
<1>1. TypeOK'
  <2>1. spec' \in [timeout : BOOLEAN, egress : BOOLEAN, workspace : BOOLEAN] BY DEF TypeOK
  <2>2. hpc' \in HPC BY DEF TypeOK
  <2>3. vm' \in {"none", "running", "dead", "reaped"} BY DEF TypeOK
  <2>4. killers' \subseteq {"handle", "watchdog"} BY DEF TypeOK
  <2>5. /\ mounts' \subseteq MountPoints /\ left' \subseteq MountPoints
        /\ stateDir' \in BOOLEAN /\ image' \in BOOLEAN
    BY DEF TypeOK
  <2>6. proxyUp' \in BOOLEAN /\ tap' \in BOOLEAN /\ caFile' \in BOOLEAN BY DEF TypeOK
  <2>7. exit' \in Status \cup {"none", "unknown"} BY DEF TypeOK
  <2>8. reason' \in {"none", "WallClock"} BY DEF TypeOK
  <2>9. exported' \in {"none", "partial", "stale", "complete"} BY DEF TypeOK
  <2>10. UNCHANGED <<asked, guestVars, readVars, wdVars>> OBVIOUS
  <2> QED BY <2>1, <2>2, <2>3, <2>4, <2>5, <2>6, <2>7, <2>8, <2>9, <2>10 DEF TypeOK
<1>2. VmInv' BY DEF TypeOK, VmInv, QuietInv
<1>3. KillInv' BY DEF TypeOK, VmInv, KillInv
<1>4. ToldInv' BY ZenonT(60) DEF TypeOK, VmInv, ToldInv, QuietInv
<1>5. QuietInv' BY DEF TypeOK, VmInv, QuietInv
<1>6. ReportInv' BY ZenonT(60) DEF TypeOK, VmInv, ToldInv, QuietInv, ReportInv
<1>7. MountInv' BY DEF TypeOK, MountInv
<1>8. UseInv'
  <2>1. CASE DestroyRemove
    <3>1. hpc' = "gone" /\ ~proxyUp' /\ vm' = vm BY <2>1
    <3>2. vm \notin {"running", "dead"} BY <2>1 DEF VmInv
    <3> QED BY <3>1, <3>2 DEF UseInv
  <2>2. CASE ~DestroyRemove
    <3>1. UNCHANGED <<spec, stateDir, image, tap, caFile, proxyUp>> BY <2>2
    <3>2. /\ hpc' \in Using => hpc \in Using
          /\ hpc' \notin {"create", "open", "dropped", "failed", "gone"}
      BY <2>2
    <3>3. hpc' \notin {"seed", "start"} \cup BootSteps BY <2>2
    <3>4. vm' \in {"running", "dead"} => vm \in {"running", "dead"} BY <2>2
    <3> QED BY <3>1, <3>2, <3>3, <3>4 DEF UseInv
  <2> QED BY <2>1, <2>2
<1> QED BY <1>1, <1>2, <1>3, <1>4, <1>5, <1>6, <1>7, <1>8

\* IInv is inductive.
LEMMA NextIInv == IInv /\ [Next]_vars => IInv'
<1> SUFFICES ASSUME IInv, [Next]_vars PROVE IInv' OBVIOUS
<1>1. CASE Next
  BY <1>1, PrepareIInv, BootIInv, GuestIInv, ThreadsIInv, CallerIInv, DestroyIInv
  DEF Next, SpawnGoesOn
<1>2. CASE UNCHANGED vars
  BY <1>2 DEF vars, IInv, TypeOK, VmInv, KillInv, ToldInv, QuietInv, ReportInv, MountInv, UseInv
<1> QED BY <1>1, <1>2

\* IInv holds in every state.
LEMMA Invariance == Spec => []IInv
BY InitIInv, NextIInv, PTL DEF Spec

\* Type correctness of the handle, the VM, the guest, the threads and the report.
THEOREM TypeCorrect == Spec => []TypeOK
BY Invariance, PTL DEF IInv

\* A reported status comes with a workspace that has the worker's last writes,
\* whatever kills the VM and whenever, unless the host had given up the image's
\* mount before the VM was started.
THEOREM ExportIsComplete == Spec => []ExportComplete
<1>1. IInv => ExportComplete BY DEF IInv, ReportInv, ExportComplete
<1> QED BY <1>1, Invariance, PTL

\* No image is mounted on the host while a VM runs, but for a mount whose umount
\* failed or was skipped.
THEOREM ImageIsUnshared == Spec => []ImageUnshared
<1>1. IInv => ImageUnshared BY DEF IInv, VmInv, MountInv, ImageUnshared
<1> QED BY <1>1, Invariance, PTL

\* The workspace image is not mounted on the host while a VM runs on it.
SeedUnmounted == vm = "running" => "seed" \notin mounts

\* If umount works and no step of staging fails, there is no such mount of the
\* workspace: a root file system left mounted, a failed boot and a retried spawn
\* do not bring one about.
THEOREM SeedIsUnmounted ==
  ASSUME {"stage", "umount"} \cap MayFail = {}
  PROVE  Spec => []SeedUnmounted
<1>1. IInv => SeedUnmounted BY DEF IInv, VmInv, MountInv, SeedUnmounted
<1> QED BY <1>1, Invariance, PTL

\* Files and network outlive the VM process, and no handle ends before it was
\* reaped, although destroy ignores every error on its way.
THEOREM CleanUpIsOrderly == Spec => []CleansUpInOrder
<1>1. IInv => CleansUpInOrder BY DEF IInv, TypeOK, VmInv, UseInv, CleansUpInOrder
<1> QED BY <1>1, Invariance, PTL

\* A kill by the watchdog is always reported as the wall clock's.
THEOREM TimeoutReported == Spec => []TimeoutIsReported
<1>1. IInv => TimeoutIsReported BY DEF IInv, KillInv, TimeoutIsReported
<1> QED BY <1>1, Invariance, PTL

-----------------------------------------------------------------------------
(* Refinement: every step is a step of Capsule or changes nothing it shows.  *)

\* An initial state is one of the contract.
LEMMA CapsuleInit == Init => C!Init
BY DEF Init, C!Init

\* The user's worker starts when spawn has read READY.
LEMMA SpawnRefines ==
  ASSUME IInv, Create \/ StageRootfs \/ SpawnGoesOn
  PROVE  [C!Next]_C!vars
<1> USE DEF IInv, QuietInv, C!vars
<1>1. CASE Create BY <1>1 DEF Create, C!Next, C!Abandon
<1>2. CASE StageRootfs \/ StagePayload \/ MakeImage \/ Seed \/ StartVm
  BY <1>2 DEF StageRootfs, StagePayload, MakeImage, Seed, StartVm
<1>3. CASE ReadReady BY <1>3 DEF ReadReady, C!Next, C!Spawn
<1>4. CASE Configure \/ Connect \/ ReadyFails \/ Bail \/ BailWait
  BY <1>4 DEF Configure, Connect, ReadyFails, Bail, BailWait
<1> QED BY <1>1, <1>2, <1>3, <1>4 DEF SpawnGoesOn, Prepare, Boot

\* What happens in the guest shows only once the host knows of it.
LEMMA GuestRefines ==
  ASSUME IInv, Guest \/ VmKilled \/ VmDies
  PROVE  [C!Next]_C!vars
BY DEF IInv, ToldInv, C!vars, Guest, GuestListens, GuestReady, WorkerEnds, GuestSync,
       GuestTell, VmKilled, VmDies, VmEnds

\* The reader ends the worker for the user, with the status it really has.
LEMMA ThreadsRefine ==
  ASSUME IInv, Reader \/ Watchdog
  PROVE  [C!Next]_C!vars
<1> USE DEF IInv, TypeOK, C!vars
<1>1. CASE ReaderStore
  <2>1. /\ noted = "none" \/ noted = status
        /\ status \in Status /\ noted' = status
    BY <1>1 DEF ReaderStore, ToldInv
  <2> QED BY <1>1, <2>1 DEF ReaderStore, C!Next, C!End
<1>2. CASE ReaderMark \/ ReaderEof BY <1>2 DEF ReaderMark, ReaderEof
<1>3. CASE Watchdog
  BY <1>3 DEF Watchdog, WatchdogExpire, WatchdogQuit, WatchdogMark, WatchdogKill
<1> QED BY <1>1, <1>2, <1>3 DEF Reader

\* destroy takes effect for the user when it takes the stored status.
LEMMA DestroyRefines ==
  ASSUME IInv,
         DestroyGoesOn \/ Terminate \/ Kill \/ GraceOver \/ DestroyCancel \/ DropHandle
  PROVE  [C!Next]_C!vars
<1> USE DEF IInv, C!vars
<1>1. CASE DestroyTake
  BY <1>1 DEF DestroyTake, TypeOK, ToldInv, QuietInv, C!Next, C!Destroy
<1>2. CASE DropHandle BY <1>2 DEF DropHandle, C!Next, C!Abandon
<1>3. CASE \/ DestroyKill \/ DestroyWait \/ DestroyReason \/ DestroyExport \/ DestroyCopy
           \/ DestroyRemove
  BY <1>3 DEF DestroyKill, DestroyWait, DestroyReason, DestroyExport, DestroyCopy, DestroyRemove
<1>4. CASE Terminate \/ Kill \/ GraceOver \/ DestroyCancel
  BY <1>4 DEF Terminate, Kill, GraceOver, DestroyCancel
<1> QED BY <1>1, <1>2, <1>3, <1>4 DEF DestroyGoesOn

\* Every step is one of the contract or invisible to the user.
LEMMA NextRefines == IInv /\ [Next]_vars => [C!Next]_C!vars
<1> SUFFICES ASSUME IInv, [Next]_vars PROVE [C!Next]_C!vars OBVIOUS
<1>1. CASE Next
  BY <1>1, SpawnRefines, GuestRefines, ThreadsRefine, DestroyRefines DEF Next
<1>2. CASE UNCHANGED vars BY <1>2 DEF vars, C!vars
<1> QED BY <1>1, <1>2

\* The Firecracker backend implements the CapsuleHandle contract: one worker, and
\* a report whose status, if it has one, is the worker's own, with zk-init, the
\* control connection, the watchdog and a VM that may die at any time between.
THEOREM Refinement == Spec => ImplementsCapsule
BY CapsuleInit, NextRefines, Invariance, PTL DEF Spec, ImplementsCapsule, C!Spec

\* A report of the Firecracker backend with a status has the one its worker ended
\* with, whatever is killed, times out or fails meanwhile, and is never revised.
THEOREM ReportIsTrue == Spec => []C!ReportTrue /\ C!ReportFinal
<1> DEFINE Made == C!ReportTrue /\ C!ReportMade
<1>1. C!Init => Made BY DEF C!Init, C!ReportTrue, C!ReportMade, Status
<1>2. Made /\ [C!Next]_(C!vars) => Made'
  BY DEF C!Next, C!Spawn, C!End, C!Destroy, C!Abandon, C!vars, C!ReportTrue, C!ReportMade, Status
<1>3. [C!Next]_(C!vars) => [C!Closed]_(C!vars)
  BY DEF C!Next, C!Spawn, C!End, C!Destroy, C!Abandon, C!Closed
<1> QED BY <1>1, <1>2, <1>3, Refinement, PTL DEF ImplementsCapsule, C!Spec, C!ReportFinal

-----------------------------------------------------------------------------
(* The safety halves of CallsReturn and WorkerEventuallyEnds.                *)

Calls == SpawnSteps \cup DestroySteps \cup {"grace"}

\* The most steps the call under way still has to take.
StepsLeft ==
  CASE hpc = "staging"  -> 9
    [] hpc = "image"    -> 8
    [] hpc = "seed"     -> 7
    [] hpc = "start"    -> 6
    [] hpc = "api"      -> 5
    [] hpc = "connect"  -> 4
    [] hpc = "ready"    -> 3
    [] hpc = "bail"     -> 2
    [] hpc = "bailwait" -> 1
    [] hpc = "grace"    -> 1
    [] hpc = "vmkill"   -> 7
    [] hpc = "vmwait"   -> 6
    [] hpc = "take"     -> 5
    [] hpc = "reason"   -> 4
    [] hpc = "export"   -> 3
    [] hpc = "copy"     -> 2
    [] hpc = "remove"   -> 1
    [] OTHER            -> 0

\* A wait for the VM process is for one that has ended, or is being killed, or
\* was never started.
WaitsForTheKilled ==
  hpc \in {"bailwait", "vmwait"} =>
    \/ vm = "dead"
    \/ vm = "running" /\ killers # {}
    \/ vm = "none" /\ hpc = "vmwait"

\* While a call is under way every step is one of that call, which leaves it less
\* to do, or leaves it where it was.
CallStep ==
  hpc \in Calls =>
    \/ hpc' = hpc
    \/ (SpawnGoesOn \/ DestroyGoesOn \/ GraceOver) /\ StepsLeft' \in 0 .. StepsLeft - 1

\* No step of the guest, the threads or the VM undoes a step of a call.
CallsAdvance == [][CallStep]_vars

\* A spawned worker under a timeout has a SIGKILL on its way to its VM, or the one
\* who will send it is there: the watchdog, in a dropped handle's place too, or a
\* destroy that is about to.
KillerAppointed ==
  (spec.timeout /\ guest = "run" /\ hpc \notin SpawnSteps) =>
    killers # {} \/ wd \in {"armed", "mark", "kill"} \/ hpc = "vmkill"

\* The watchdog quits only on a cancel, which destroy follows with its own kill,
\* or on a status line, which zk-init writes after the worker; and the worker does
\* not start behind the watchdog's back, because READY comes after its start.
ChaseInv ==
  /\ (hpc \in {"bailwait", "vmwait"} /\ vm = "running") => killers # {}
  /\ cancel => hpc \in DestroySteps \cup {"gone"}
  /\ exited => noted # "none"
  /\ guest \in {"boot", "listening", "accepted"} => hpc \in BootSteps /\ ~readyLine
  /\ hpc \in {"create", "open", "api"} \cup PrepareSteps => ~readyLine
  /\ (spec.timeout /\ guest = "run" /\ hpc \in {"spawned", "grace", "dropped"}) =>
       wd \in {"armed", "mark", "kill"} \/ killers # {}

\* No step leaves a VM that is waited for, or a worker with a timeout, unpursued.
LEMMA NextChase == IInv /\ ChaseInv /\ [Next]_vars => ChaseInv'
<1> SUFFICES ASSUME IInv, ChaseInv, [Next]_vars PROVE ChaseInv' OBVIOUS
<1> USE DEF IInv, TypeOK, VmInv, QuietInv, ToldInv, ChaseInv, SendKill
<1>1. CASE Create \/ StageRootfs \/ StagePayload \/ MakeImage \/ Seed
  <2>1. UNCHANGED <<spec, vmVars, guest, status, readyLine, statusLine, readVars, wdVars>>
    BY <1>1 DEF Create, StageRootfs, StagePayload, MakeImage, Seed
  <2>2. /\ hpc \in {"create", "open"} \cup PrepareSteps
        /\ hpc' \in {"open", "failed"} \cup PrepareSteps
    BY <1>1 DEF Create, StageRootfs, StagePayload, MakeImage, Seed
  <2> QED BY <2>1, <2>2
<1>2. CASE StartVm \/ Configure \/ Connect BY <1>2 DEF StartVm, Configure, Connect
<1>3. CASE ReadReady BY <1>3 DEF ReadReady
<1>4. CASE ReadyFails \/ Bail \/ BailWait BY <1>4 DEF ReadyFails, Bail, BailWait
<1>5. CASE Guest
  <2>1. CASE GuestListens \/ GuestSync \/ GuestTell
    BY <2>1 DEF GuestListens, GuestSync, GuestTell
  <2>2. CASE GuestReady
    <3>1. hpc \notin {"spawned", "grace", "dropped"} BY <2>2 DEF GuestReady
    <3> QED BY <2>2, <3>1 DEF GuestReady
  <2>3. ASSUME NEW s \in Status, WorkerEnds(s) PROVE ChaseInv' BY <2>3 DEF WorkerEnds
  <2> QED BY <1>5, <2>1, <2>2, <2>3 DEF Guest
<1>6. CASE VmKilled \/ VmDies BY <1>6 DEF VmKilled, VmDies, VmEnds
<1>7. CASE Reader BY <1>7 DEF Reader, ReaderStore, ReaderMark, ReaderEof
<1>8. CASE Watchdog
  BY <1>8 DEF Watchdog, WatchdogExpire, WatchdogQuit, WatchdogMark, WatchdogKill
<1>9. CASE Terminate \/ Kill \/ GraceOver \/ DestroyCancel \/ DropHandle
  BY <1>9 DEF Terminate, Kill, GraceOver, Write, DestroyCancel, DropHandle
<1>10. CASE DestroyGoesOn
  <2>1. CASE DestroyKill BY <2>1 DEF DestroyKill
  <2>2. CASE DestroyWait BY <2>2 DEF DestroyWait
  <2>3. CASE DestroyTake \/ DestroyReason \/ DestroyExport \/ DestroyCopy \/ DestroyRemove
    <3>1. UNCHANGED <<spec, vmVars, guestVars, readVars, wdVars>>
      BY <2>3 DEF DestroyTake, DestroyReason, DestroyExport, DestroyCopy, DestroyRemove
    <3>2. hpc' \in {"reason", "export", "copy", "remove", "gone"}
      BY <2>3 DEF DestroyTake, DestroyReason, DestroyExport, DestroyCopy, DestroyRemove
    <3>3. hpc \in DestroySteps
      BY <2>3 DEF DestroyTake, DestroyReason, DestroyExport, DestroyCopy, DestroyRemove
    <3> QED BY <3>1, <3>2, <3>3
  <2> QED BY <1>10, <2>1, <2>2, <2>3 DEF DestroyGoesOn
<1>11. CASE UNCHANGED vars BY <1>11 DEF vars
<1> QED BY <1>1, <1>2, <1>3, <1>4, <1>5, <1>6, <1>7, <1>8, <1>9, <1>10, <1>11
        DEF Next, SpawnGoesOn, Prepare, Boot

\* ChaseInv holds in every state.
LEMMA AlwaysChase == Spec => []ChaseInv
<1>1. Init => ChaseInv BY DEF Init, ChaseInv
<1> QED BY <1>1, NextChase, Invariance, PTL DEF Spec

\* A step moves the call under way on, or does not touch it.
LEMMA StepCounts == IInv /\ [Next]_vars => [CallStep]_vars
<1> SUFFICES ASSUME IInv, Next, hpc \in Calls, hpc' # hpc
             PROVE  /\ SpawnGoesOn \/ DestroyGoesOn \/ GraceOver
                    /\ StepsLeft' \in 0 .. StepsLeft - 1
  BY DEF CallStep, vars
<1> USE DEF Calls
<1>1. ~(Create \/ StageRootfs \/ Terminate \/ Kill \/ DestroyCancel \/ DropHandle)
  BY DEF Create, StageRootfs, Terminate, Kill, DestroyCancel, DropHandle
<1>2. ~(Guest \/ VmKilled \/ VmDies)
  BY DEF Guest, GuestListens, GuestReady, WorkerEnds, GuestSync, GuestTell,
         VmKilled, VmDies, VmEnds
<1>3. ~(Reader \/ Watchdog)
  BY DEF Reader, ReaderStore, ReaderMark, ReaderEof, Watchdog, WatchdogExpire, WatchdogQuit,
         WatchdogMark, WatchdogKill
<1>4. SpawnGoesOn \/ DestroyGoesOn \/ GraceOver BY <1>1, <1>2, <1>3 DEF Next
<1>5. StepsLeft' \in 0 .. StepsLeft - 1
  <2>1. CASE Boot
    BY <2>1 DEF StepsLeft, Boot, Configure, Connect, ReadReady, ReadyFails, Bail, BailWait
  <2>6. CASE Prepare
    BY <2>6 DEF StepsLeft, Prepare, StagePayload, MakeImage, Seed, StartVm
  <2>2. CASE DestroyKill \/ DestroyWait \/ GraceOver
    BY <2>2 DEF StepsLeft, DestroyKill, DestroyWait, GraceOver
  <2>3. CASE DestroyTake \/ DestroyReason BY <2>3 DEF StepsLeft, DestroyTake, DestroyReason
  <2>4. CASE DestroyExport \/ DestroyCopy BY <2>4 DEF StepsLeft, DestroyExport, DestroyCopy
  <2>5. CASE DestroyRemove BY <2>5 DEF StepsLeft, DestroyRemove
  <2> QED BY <1>4, <2>1, <2>2, <2>3, <2>4, <2>5, <2>6 DEF DestroyGoesOn, SpawnGoesOn
<1> QED BY <1>4, <1>5

\* spawn takes at most ten steps, destroy eight, and the two that wait for the VM
\* process wait for one that has been sent SIGKILL: a guest that does nothing, a
\* watchdog or a VM that dies can neither block nor restart them.
THEOREM CallsAreBounded == Spec => []WaitsForTheKilled /\ CallsAdvance
<1>1. IInv /\ ChaseInv => WaitsForTheKilled
  BY DEF IInv, TypeOK, VmInv, ChaseInv, WaitsForTheKilled
<1> QED BY <1>1, StepCounts, AlwaysChase, Invariance, PTL DEF Spec, CallsAdvance

\* A worker with a timeout never runs with nobody left to kill its VM, not after
\* the handle was dropped, and not in the race of a cancel with the deadline.
THEOREM TimeoutIsEnforced == Spec => []KillerAppointed
<1>1. IInv /\ ChaseInv => KillerAppointed
  BY DEF IInv, TypeOK, VmInv, QuietInv, ToldInv, ChaseInv, KillerAppointed
<1> QED BY <1>1, AlwaysChase, Invariance, PTL
=============================================================================
