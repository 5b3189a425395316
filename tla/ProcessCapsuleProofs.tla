------------------------ MODULE ProcessCapsuleProofs -------------------------
(* Theorems about ProcessCapsule, for any number of polls and any faults.    *)
EXTENDS ProcessCapsule, TLAPS

\* Where the handle is determines what is known of the child: it is in the
\* state exactly while the handle is open and spawned, and only destroy and
\* what follows it reap.
ChildInv ==
  /\ hpc = "none" => child = "none"
  /\ hpc \in {"none", "open", "lock", "dropped"} => (child = "none" => ~stored)
  /\ hpc \in {"none", "open", "lock"} => /\ child # "none" => stored
                                         /\ child # "reaped"
  /\ hpc = "dropped" => (stored => child # "reaped")
  /\ hpc \in {"try", "poll"} => child \in {"running", "zombie"}
  /\ hpc \in {"try", "poll", "egress", "report", "gone", "failed"} => ~stored
  /\ child \in {"zombie", "reaped"} => status \in Status

\* A worker that the handle has stopped looking after is being killed.
DoomInv ==
  (/\ hpc \in {"poll", "egress", "report", "gone", "failed", "dropped"}
   /\ ~stored /\ child = "running") => killers # {}

\* Nothing is recorded before the worker was reaped.
ExitInv == hpc \in {"none", "open", "lock", "try", "poll"} => exit = "unknown"

EgressInv ==
  /\ hpc \in {"none", "report", "gone", "failed", "dropped"} => ~proxyUp
  /\ (spec.egress /\ hpc \in {"open", "lock", "try", "poll"}) => proxyUp /\ caFile
  /\ hpc \in {"report", "gone"} => (caFile => "remove" \in MayFail)

PollInv == hpc = "poll" => polled < Polls
PolledInv == hpc \in {"none", "open", "lock", "try"} => polled = 0

IInv == TypeOK /\ ChildInv /\ DoomInv /\ ExitInv /\ EgressInv /\ PollInv /\ PolledInv

USE PollsAssumption DEF HPC, Status, Told, stateVars, workerVars, egressVars

\* Before create there is no child, proxy or file.
LEMMA InitIInv == Init => IInv
<1> SUFFICES ASSUME Init PROVE IInv OBVIOUS
<1> USE DEF Init
<1>1. TypeOK
  <2>1. spec \in [timeout : BOOLEAN, egress : BOOLEAN] OBVIOUS
  <2>2. polled \in 0 .. Polls OBVIOUS
  <2> QED BY <2>1, <2>2 DEF TypeOK
<1>2. ChildInv /\ DoomInv /\ ExitInv /\ EgressInv /\ PollInv /\ PolledInv
  BY DEF ChildInv, DoomInv, ExitInv, EgressInv, PollInv, PolledInv
<1> QED BY <1>1, <1>2 DEF IInv

\* create, spawn, kill and the drop of the handle.
LEMMA CallerIInv ==
  ASSUME IInv,
         \/ Create \/ Spawn \/ DestroyCancel \/ DropHandle \/ DropState
         \/ \E sig \in {"term", "kill"} : Kill(sig)
  PROVE  IInv'
<1> USE DEF IInv, Create, Spawn, DestroyCancel, DropHandle, DropState, Kill, SendKill
<1>1. TypeOK'
  <2>1. spec' \in [timeout : BOOLEAN, egress : BOOLEAN] BY DEF TypeOK
  <2>2. polled' \in 0 .. Polls BY DEF TypeOK
  <2>3. proxyUp' \in BOOLEAN /\ caFile' \in BOOLEAN BY DEF TypeOK
  <2>4. killers' \subseteq {"caller", "watchdog", "destroy", "drop"} BY DEF TypeOK
  <2>5. termed' \in BOOLEAN BY DEF TypeOK
  <2>6. hpc' \in HPC /\ stored' \in BOOLEAN /\ cancel' \in BOOLEAN BY DEF TypeOK
  <2>7. /\ wd' \in {"none", "armed", "mark", "done"}
        /\ child' \in {"none", "running", "zombie", "reaped"}
    BY DEF TypeOK
  <2>8. UNCHANGED <<lock, exit, killedBy, reported, status>> OBVIOUS
  <2> QED BY <2>1, <2>2, <2>3, <2>4, <2>5, <2>6, <2>7, <2>8 DEF TypeOK
<1>2. ChildInv' BY DEF TypeOK, ChildInv
<1>3. DoomInv' BY DEF TypeOK, ChildInv, DoomInv
<1>4. ExitInv' BY DEF ExitInv
<1>5. EgressInv' BY DEF TypeOK, EgressInv
<1>6. PollInv' /\ PolledInv' BY DEF PollInv, PolledInv
<1> QED BY <1>1, <1>2, <1>3, <1>4, <1>5, <1>6

\* The steps of destroy.
LEMMA DestroyIInv == ASSUME IInv, Destroy PROVE IInv'
<1> USE DEF IInv, Destroy, DestroyLock, DestroyTry, DestroyPoll, DestroyEgress,
            DestroyReport, Reap, WaitError, SendKill
<1>1. TypeOK'
  <2>1. spec' \in [timeout : BOOLEAN, egress : BOOLEAN] BY DEF TypeOK
  <2>2. polled' \in 0 .. Polls BY DEF TypeOK, PollInv
  <2>3. exit' \in Status \cup {"unknown"} BY DEF TypeOK, ChildInv
  <2>4. killers' \subseteq {"caller", "watchdog", "destroy", "drop"} BY DEF TypeOK
  <2>5. hpc' \in HPC /\ stored' \in BOOLEAN BY DEF TypeOK
  <2>6. child' \in {"none", "running", "zombie", "reaped"} BY DEF TypeOK
  <2>7. lock' \in {"free", "handle"} BY DEF TypeOK
  <2>8. reported' \in {"unset", "none", "WallClock"} BY DEF TypeOK
  <2>9. proxyUp' \in BOOLEAN /\ caFile' \in BOOLEAN BY DEF TypeOK
  <2>10. UNCHANGED <<killedBy, cancel, wd, status, termed>> OBVIOUS
  <2> QED BY <2>1, <2>2, <2>3, <2>4, <2>5, <2>6, <2>7, <2>8, <2>9, <2>10 DEF TypeOK
<1>2. ChildInv' BY DEF TypeOK, ChildInv
<1>3. DoomInv' BY DEF TypeOK, ChildInv, DoomInv
<1>4. ExitInv' BY DEF ExitInv
<1>5. EgressInv' BY DEF EgressInv
<1>6. PollInv' /\ PolledInv' BY DEF TypeOK, PollInv, PolledInv
<1> QED BY <1>1, <1>2, <1>3, <1>4, <1>5, <1>6

\* The watchdog, the worker and the kernel.
LEMMA OthersIInv ==
  ASSUME IInv,
         \/ Watchdog \/ WorkerExit \/ WorkerTerminated \/ WorkerKilled \/ OrphanReaped
  PROVE  IInv'
<1> USE DEF IInv, Watchdog, WatchdogKill, WatchdogMark, WatchdogCancelled,
            WorkerExit, WorkerTerminated, WorkerKilled, WorkerEnds, OrphanReaped, SendKill
<1>1. TypeOK'
  <2>1. spec' \in [timeout : BOOLEAN, egress : BOOLEAN] BY DEF TypeOK
  <2>2. polled' \in 0 .. Polls BY DEF TypeOK
  <2>3. killers' \subseteq {"caller", "watchdog", "destroy", "drop"} BY DEF TypeOK
  <2> QED BY <2>1, <2>2, <2>3 DEF TypeOK
<1>2. ChildInv' BY DEF TypeOK, ChildInv
<1>3. DoomInv' BY DEF TypeOK, ChildInv, DoomInv
<1>4. ExitInv' BY DEF ExitInv
<1>5. EgressInv' BY DEF EgressInv
<1>6. PollInv' /\ PolledInv' BY DEF PollInv, PolledInv
<1> QED BY <1>1, <1>2, <1>3, <1>4, <1>5, <1>6

\* IInv is inductive.
LEMMA NextIInv == IInv /\ [Next]_vars => IInv'
<1> SUFFICES ASSUME IInv, [Next]_vars PROVE IInv' OBVIOUS
<1>1. CASE Next BY <1>1, CallerIInv, DestroyIInv, OthersIInv DEF Next
<1>2. CASE UNCHANGED vars
  BY <1>2 DEF vars, IInv, TypeOK, ChildInv, DoomInv, ExitInv, EgressInv, PollInv, PolledInv
<1> QED BY <1>1, <1>2

\* IInv holds in every state.
LEMMA Invariance == Spec => []IInv
BY InitIInv, NextIInv, PTL DEF Spec

\* Type correctness: destroy never polls more often than its bound.
THEOREM TypeCorrect == Spec => []TypeOK
BY Invariance, PTL DEF IInv

\* No process is reaped while the handle is usable, so kill() and an uncancelled
\* watchdog only ever signal the worker's own pid.
THEOREM PidIsPinned == Spec => []PidPinned
<1>1. IInv => PidPinned BY DEF IInv, TypeOK, ChildInv, PidPinned
<1> QED BY <1>1, Invariance, PTL

\* destroy, its error paths and the drop of the handle all leave a worker that
\* is dead or being killed.
THEOREM NobodyLeftBehind == Spec => []LeftBehindIsDoomed
<1>1. IInv => LeftBehindIsDoomed BY DEF IInv, DoomInv, LeftBehindIsDoomed
<1> QED BY <1>1, Invariance, PTL

\* Egress is served exactly as long as it may be used: the proxy and the CA file
\* of a capsule are there until destroy has done with the worker, no proxy outlives
\* its handle, and only a failing remove_file leaves the CA file of a capsule that
\* was reported.
THEOREM EgressIsReleased == Spec => [](EgressInStep /\ CaFileGoes)
<1>1. IInv => EgressInStep /\ CaFileGoes BY DEF IInv, EgressInv, EgressInStep, CaFileGoes
<1> QED BY <1>1, Invariance, PTL

-----------------------------------------------------------------------------
(* Refinement: every step is a step of Capsule or changes nothing it shows.  *)

\* An initial state is one of the contract.
LEMMA CapsuleInit == Init => C!Init
BY DEF Init, C!Init

\* create, spawn, kill, the cancel, and the drops.
LEMMA CallerRefines ==
  ASSUME IInv,
         \/ Create \/ Spawn \/ DestroyCancel \/ DropHandle \/ DropState
         \/ \E sig \in {"term", "kill"} : Kill(sig)
  PROVE  [C!Next]_C!vars
<1> USE DEF IInv, C!vars
<1>1. CASE Create \/ DropHandle
  BY <1>1 DEF Create, DropHandle, C!Next, C!Abandon
<1>2. CASE Spawn BY <1>2 DEF Spawn, ChildInv, C!Next, C!Spawn
<1>3. CASE DestroyCancel \/ DropState \/ \E sig \in {"term", "kill"} : Kill(sig)
  BY <1>3 DEF DestroyCancel, DropState, Kill
<1> QED BY <1>1, <1>2, <1>3

\* destroy takes effect for the user when it last looks at the worker.
LEMMA DestroyRefines == ASSUME IInv, Destroy PROVE [C!Next]_C!vars
<1> USE DEF IInv, C!vars
<1>1. CASE DestroyLock
  BY <1>1 DEF DestroyLock, TypeOK, ChildInv, ExitInv, C!Next, C!Destroy
<1>2. CASE DestroyTry
  BY <1>2 DEF DestroyTry, Reap, WaitError, ChildInv, C!Next, C!Destroy, C!Abandon
<1>3. CASE DestroyPoll
  BY <1>3 DEF DestroyPoll, Reap, WaitError, ChildInv, ExitInv, C!Next, C!Destroy, C!Abandon
<1>4. CASE DestroyEgress \/ DestroyReport
  BY <1>4 DEF DestroyEgress, DestroyReport
<1> QED BY <1>1, <1>2, <1>3, <1>4 DEF Destroy

\* To the user, watchdog and kernel only ever end the worker.
LEMMA OthersRefine ==
  ASSUME IInv,
         \/ Watchdog \/ WorkerExit \/ WorkerTerminated \/ WorkerKilled \/ OrphanReaped
  PROVE  [C!Next]_C!vars
<1> USE DEF IInv, C!vars
<1>1. CASE Watchdog
  BY <1>1 DEF Watchdog, WatchdogKill, WatchdogMark, WatchdogCancelled
<1>2. ASSUME NEW s \in Status, WorkerEnds(s) PROVE [C!Next]_C!vars
  BY <1>2 DEF WorkerEnds, C!Next, C!End
<1>3. CASE OrphanReaped BY <1>3 DEF OrphanReaped
<1> QED BY <1>1, <1>2, <1>3 DEF WorkerExit, WorkerTerminated, WorkerKilled

\* Every step is one of the contract or invisible to the user.
LEMMA NextRefines == IInv /\ [Next]_vars => [C!Next]_C!vars
<1> SUFFICES ASSUME IInv, [Next]_vars PROVE [C!Next]_C!vars OBVIOUS
<1>1. CASE Next BY <1>1, CallerRefines, DestroyRefines, OthersRefine DEF Next
<1>2. CASE UNCHANGED vars BY <1>2 DEF vars, C!vars
<1> QED BY <1>1, <1>2

\* The Process backend implements the CapsuleHandle contract: one worker, one
\* report, and in it the status the worker had when destroy last looked, with
\* the watchdog, kill() and a worker that resists the kill all interleaved.
THEOREM Refinement == Spec => ImplementsCapsule
BY CapsuleInit, NextRefines, Invariance, PTL DEF Spec, ImplementsCapsule, C!Spec

\* A report of the Process backend with a status has the one its worker ended
\* with, whatever is killed, times out or fails meanwhile, and is never revised.
THEOREM ReportIsTrue == Spec => []C!ReportTrue /\ C!ReportFinal
<1> DEFINE Made == C!ReportTrue /\ C!ReportMade
<1>1. C!Init => Made BY DEF C!Init, C!ReportTrue, C!ReportMade, Status
<1>2. Made /\ [C!Next]_(C!vars) => Made'
  BY DEF C!Next, C!Spawn, C!End, C!Destroy, C!Abandon, C!vars, C!ReportTrue, C!ReportMade, Status
<1>3. [C!Next]_(C!vars) => [C!Closed]_(C!vars)
  BY DEF C!Next, C!Spawn, C!End, C!Destroy, C!Abandon, C!Closed
<1> QED BY <1>1, <1>2, <1>3, Refinement, PTL DEF ImplementsCapsule, C!Spec, C!ReportFinal

-----------------------------------------------------------------------------
(* The safety half of DestroyReturns: destroy is never stuck, and it counts   *)
(* down.  With the fairness of FairSpec this is what makes it return.         *)

DestroyPlaces == {"lock", "try", "poll", "egress", "report"}

\* The most steps destroy still has to take.
StepsLeft ==
  CASE hpc = "lock"   -> Polls + 4
    [] hpc = "try"    -> Polls + 3
    [] hpc = "poll"   -> Polls - polled + 2
    [] hpc = "egress" -> 2
    [] hpc = "report" -> 1
    [] OTHER          -> 0

\* The mutex is the handle's from the lock to the report, and nobody else keeps
\* it across a step.
LockInv == lock = "handle" <=> hpc \in {"try", "poll", "egress", "report"}

\* Wherever destroy is, what its next step needs is there: the lock is free when
\* it asks for it, and a child it looks at is one it can reap or kill.
DestroyCanStep ==
  /\ hpc = "lock" => lock = "free"
  /\ hpc \in {"try", "poll"} => child \in {"running", "zombie"}

\* While destroy is under way every step is one of destroy, which leaves it less
\* to do, or leaves destroy where it was: neither the watchdog nor the worker can
\* send it back.
DestroyStep ==
  hpc \in DestroyPlaces =>
    \/ UNCHANGED <<hpc, polled>>
    \/ Destroy /\ StepsLeft' \in 0 .. StepsLeft - 1

\* No step of the worker or the watchdog undoes a step of destroy().
DestroyAdvances == [][DestroyStep]_vars

\* Only the handle takes the lock for longer than one step.
LEMMA NextLockInv == IInv /\ LockInv /\ [Next]_vars => LockInv'
<1> SUFFICES ASSUME IInv, LockInv, [Next]_vars PROVE LockInv' OBVIOUS
<1> USE DEF IInv, LockInv
<1>1. CASE \/ Create \/ Spawn \/ DestroyCancel \/ DropHandle \/ DropState
           \/ \E sig \in {"term", "kill"} : Kill(sig)
  BY <1>1 DEF Create, Spawn, DestroyCancel, DropHandle, DropState, Kill
<1>2. CASE Destroy
  BY <1>2 DEF Destroy, DestroyLock, DestroyTry, DestroyPoll, DestroyEgress,
              DestroyReport, Reap, WaitError
<1>3. CASE \/ Watchdog \/ WorkerExit \/ WorkerTerminated \/ WorkerKilled \/ OrphanReaped
  BY <1>3 DEF Watchdog, WatchdogKill, WatchdogMark, WatchdogCancelled,
              WorkerExit, WorkerTerminated, WorkerKilled, WorkerEnds, OrphanReaped
<1>4. CASE UNCHANGED vars BY <1>4 DEF vars
<1> QED BY <1>1, <1>2, <1>3, <1>4 DEF Next

\* Every step of destroy leaves it less to do.
LEMMA DestroyCounts == ASSUME IInv, Destroy PROVE StepsLeft' \in 0 .. StepsLeft - 1
<1> USE DEF IInv, TypeOK, StepsLeft
<1>1. CASE DestroyLock BY <1>1 DEF DestroyLock
<1>2. CASE DestroyTry BY <1>2 DEF DestroyTry, Reap, WaitError, PolledInv
<1>3. CASE DestroyPoll BY <1>3 DEF DestroyPoll, Reap, WaitError, PollInv
<1>4. CASE DestroyEgress BY <1>4 DEF DestroyEgress
<1>5. CASE DestroyReport BY <1>5 DEF DestroyReport
<1> QED BY <1>1, <1>2, <1>3, <1>4, <1>5 DEF Destroy

\* Nobody else moves destroy.
LEMMA OthersLeaveDestroy ==
  ASSUME [Next]_vars, hpc \in DestroyPlaces, ~Destroy
  PROVE  UNCHANGED <<hpc, polled>>
<1> USE DEF DestroyPlaces
<1>1. CASE \/ Create \/ Spawn \/ DestroyCancel \/ DropHandle \/ DropState
           \/ \E sig \in {"term", "kill"} : Kill(sig)
  BY <1>1 DEF Create, Spawn, DestroyCancel, DropHandle, DropState, Kill
<1>2. CASE \/ Watchdog \/ WorkerExit \/ WorkerTerminated \/ WorkerKilled \/ OrphanReaped
  BY <1>2 DEF Watchdog, WatchdogKill, WatchdogMark, WatchdogCancelled,
              WorkerExit, WorkerTerminated, WorkerKilled, WorkerEnds, OrphanReaped
<1>3. CASE UNCHANGED vars BY <1>3 DEF vars
<1> QED BY <1>1, <1>2, <1>3 DEF Next

\* destroy() takes at most Polls + 4 steps, none of which waits for anything: it
\* finds the lock free, and neither the watchdog task nor a worker that resists
\* SIGKILL can block it or send it back.
THEOREM DestroyIsBounded == Spec => []DestroyCanStep /\ DestroyAdvances
<1>1. Init => LockInv BY DEF Init, LockInv
<1>2. IInv /\ LockInv => DestroyCanStep
  BY DEF IInv, TypeOK, ChildInv, LockInv, DestroyCanStep
<1>3. IInv /\ [Next]_vars => [DestroyStep]_vars
  BY DestroyCounts, OthersLeaveDestroy DEF DestroyStep
<1> QED BY <1>1, <1>2, <1>3, NextLockInv, Invariance, PTL DEF Spec, DestroyAdvances

-----------------------------------------------------------------------------
(* The safety half of WorkerEventuallyEnds: somebody is always about to kill  *)
(* a worker that has a timeout.                                              *)

\* A running worker under a timeout has a SIGKILL on its way, or the one who will
\* send it is there: the watchdog, still armed and not cancelled, a destroy that
\* has not looked at the worker yet, or the drop of the state that holds it.
KillerAppointed ==
  (spec.timeout /\ child = "running") =>
    \/ killers # {}
    \/ hpc = "open" /\ wd = "armed" /\ ~cancel
    \/ hpc \in {"lock", "try"}
    \/ hpc = "dropped" /\ stored

\* The watchdog is armed with the worker, and leaves its post only by killing it
\* or because the handle took over.
ArmedInv ==
  /\ hpc \in {"none", "open"} => ~cancel
  /\ (hpc = "open" /\ spec.timeout /\ child = "running" /\ killers = {}) => wd = "armed"

\* A timer that fires kills, and a cancel comes from destroy or from the drop.
LEMMA NextArmedInv == IInv /\ ArmedInv /\ [Next]_vars => ArmedInv'
<1> SUFFICES ASSUME IInv, ArmedInv, [Next]_vars PROVE ArmedInv' OBVIOUS
<1> USE DEF IInv, TypeOK, ChildInv, ArmedInv, SendKill
<1>1. CASE \/ Create \/ Spawn \/ DestroyCancel \/ DropHandle \/ DropState
           \/ \E sig \in {"term", "kill"} : Kill(sig)
  BY <1>1 DEF Create, Spawn, DestroyCancel, DropHandle, DropState, Kill
<1>2. CASE Destroy
  BY <1>2 DEF Destroy, DestroyLock, DestroyTry, DestroyPoll, DestroyEgress,
              DestroyReport, Reap, WaitError
<1>3. CASE \/ Watchdog \/ WorkerExit \/ WorkerTerminated \/ WorkerKilled \/ OrphanReaped
  BY <1>3 DEF Watchdog, WatchdogKill, WatchdogMark, WatchdogCancelled,
              WorkerExit, WorkerTerminated, WorkerKilled, WorkerEnds, OrphanReaped
<1>4. CASE UNCHANGED vars BY <1>4 DEF vars
<1> QED BY <1>1, <1>2, <1>3, <1>4 DEF Next

\* There is no moment in the races of timer, cancel, destroy and drop at which a
\* worker with a timeout runs and nobody is left to kill it.
THEOREM TimeoutIsEnforced == Spec => []KillerAppointed
<1>1. Init => ArmedInv BY DEF Init, ArmedInv
<1>2. IInv /\ ArmedInv => KillerAppointed
  BY DEF IInv, TypeOK, ChildInv, DoomInv, ArmedInv, KillerAppointed
<1> QED BY <1>1, <1>2, NextArmedInv, Invariance, PTL DEF Spec
=============================================================================
