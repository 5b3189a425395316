--------------------------- MODULE ProcessCapsule ----------------------------
(***************************************************************************)
(* One capsule of the Process backend (process.rs): the caller's handle,    *)
(* the watchdog task, the worker process and the per-capsule egress         *)
(* resources.                                                               *)
(*                                                                         *)
(* The caller runs create, spawn, kill and destroy one at a time (&mut self *)
(* and Box<Self>).  The watchdog is a tokio task beside it; the two share   *)
(* the Mutex<ProcessState>.  The worker runs, exits and dies by itself.     *)
(* An error that changes nothing (a second spawn, kill without a child, a   *)
(* failed exec) is a stuttering step.                                       *)
(***************************************************************************)
EXTENDS Naturals

CONSTANTS
  Polls,      \* how often destroy polls a killed worker (20 in the code)
  MayFail     \* which system calls may fail: a subset of Faults

\* "wait": try_wait returns an error; "egress": a step of start_egress fails;
\* "remove": the CA file cannot be removed.
Faults == {"wait", "egress", "remove"}

ASSUME PollsAssumption == Polls \in Nat \ {0}
ASSUME FaultsAssumption == MayFail \subseteq Faults

\* How a worker can end: an exit code, or a signal.
Status == {"exit0", "exit1", "sigterm", "sigkill"}

\* exit_code and exit_signal are taken from the ExitStatus as they are.
Told == [s \in Status |-> {s}]

VARIABLES
  spec,       \* the CapsuleSpec fields that matter: timeout (timeout_sec > 0), egress
  hpc,        \* where the caller's handle is
  lock,       \* who holds the ProcessState mutex: "free" or "handle"
  stored,     \* ProcessState.child is Some
  exit,       \* ProcessState.exit_code / exit_signal, "unknown" when both are None
  killedBy,   \* ProcessState.killed_by
  reported,   \* killed_by as the report carries it, "unset" before the report
  polled,     \* polls made so far by destroy
  cancel,     \* the oneshot was sent, or its sender dropped
  wd,         \* the watchdog task
  child,      \* the worker: "none", "running", "zombie" (ended), "reaped"
  status,     \* how the worker ended
  termed,     \* a SIGTERM was sent to the running worker
  killers,    \* who sent SIGKILL to the running worker
  proxyUp,    \* the egress proxy accepts connections
  caFile      \* the CA temp file exists

stateVars  == <<lock, stored, exit, killedBy>>
workerVars == <<child, status, termed, killers>>
egressVars == <<proxyUp, caFile>>
vars == <<spec, hpc, stateVars, reported, polled, cancel, wd, workerVars, egressVars>>

\* Positions of the handle: before create, usable, the steps of destroy, and
\* its three ends (a report, an error, dropped without destroy).
HPC == {"none", "open", "lock", "try", "poll", "egress", "report",
        "gone", "failed", "dropped"}

TypeOK ==
  /\ spec \in [timeout : BOOLEAN, egress : BOOLEAN]
  /\ hpc \in HPC
  /\ lock \in {"free", "handle"}
  /\ stored \in BOOLEAN
  /\ exit \in Status \cup {"unknown"}
  /\ killedBy \in {"none", "WallClock"}
  /\ reported \in {"unset", "none", "WallClock"}
  /\ polled \in 0 .. Polls
  /\ cancel \in BOOLEAN
  /\ wd \in {"none", "armed", "mark", "done"}
  /\ child \in {"none", "running", "zombie", "reaped"}
  /\ status \in Status \cup {"none"}
  /\ termed \in BOOLEAN
  /\ killers \subseteq {"caller", "watchdog", "destroy", "drop"}
  /\ proxyUp \in BOOLEAN /\ caFile \in BOOLEAN

Init ==
  /\ spec \in [timeout : BOOLEAN, egress : BOOLEAN]
  /\ hpc = "none"
  /\ lock = "free" /\ stored = FALSE /\ exit = "unknown" /\ killedBy = "none"
  /\ reported = "unset" /\ polled = 0 /\ cancel = FALSE /\ wd = "none"
  /\ child = "none" /\ status = "none" /\ termed = FALSE /\ killers = {}
  /\ proxyUp = FALSE /\ caFile = FALSE

-----------------------------------------------------------------------------
(* The caller: create, spawn, kill.                                         *)

\* ProcessCapsule::new with start_egress.  When a step of it fails, the proxy
\* handle (if there is one) is dropped, which closes its accept loop; a write
\* that failed may leave a part of the CA file.
Create ==
  /\ hpc = "none"
  /\ \/ hpc' = "open" /\ proxyUp' = spec.egress /\ caFile' = spec.egress
     \/ /\ spec.egress /\ "egress" \in MayFail
        /\ hpc' = "failed" /\ caFile' \in BOOLEAN /\ UNCHANGED proxyUp
  /\ UNCHANGED <<spec, stateVars, reported, polled, cancel, wd, workerVars>>

\* Mutant: a second spawn is not refused.
SpawnAgain ==
  /\ hpc = "open"
  /\ stored' = TRUE
  /\ child' = "running"
  /\ wd' = IF spec.timeout THEN "armed" ELSE wd
  /\ UNCHANGED <<spec, hpc, lock, exit, killedBy, reported, polled, cancel,
                 status, termed, killers, egressVars>>

\* A successful spawn, and install_timeout_watchdog.
Spawn ==
  /\ hpc = "open" /\ ~stored
  /\ stored' = TRUE
  /\ child' = "running"
  /\ wd' = IF spec.timeout THEN "armed" ELSE wd
  /\ UNCHANGED <<spec, hpc, lock, exit, killedBy, reported, polled, cancel,
                 status, termed, killers, egressVars>>

\* A SIGKILL from `who` reaches the worker only while it runs.
SendKill(who) ==
  killers' = IF child = "running" THEN killers \cup {who} ELSE killers

\* Mutant: kill() polls the child first, which reaps one that has ended.
KillPolls(sig) ==
  /\ hpc = "open" /\ stored
  /\ child' = IF child = "zombie" THEN "reaped" ELSE child
  /\ UNCHANGED <<spec, hpc, stateVars, reported, polled, cancel, wd, status,
                 termed, killers, egressVars>>

\* kill(): the child is Some and its id() is too, because nothing has polled
\* it yet; a signal to a worker that has ended does nothing.
Kill(sig) ==
  /\ hpc = "open" /\ stored
  /\ \/ sig = "term" /\ termed' = (termed \/ child = "running") /\ UNCHANGED killers
     \/ sig = "kill" /\ SendKill("caller") /\ UNCHANGED termed
  /\ UNCHANGED <<spec, hpc, stateVars, reported, polled, cancel, wd, child, status, egressVars>>

-----------------------------------------------------------------------------
(* destroy(), one step per point at which another actor can come in.        *)

\* The cancel oneshot is sent first, before the lock is taken.
DestroyCancel ==
  /\ hpc = "open"
  /\ hpc' = "lock"
  /\ cancel' = TRUE
  /\ UNCHANGED <<spec, stateVars, reported, polled, wd, workerVars, egressVars>>

\* The mutex is held from here to the end; the child is taken out.
DestroyLock ==
  /\ hpc = "lock" /\ lock = "free"
  /\ lock' = "handle"
  /\ stored' = FALSE
  /\ hpc' = IF stored THEN "try" ELSE "egress"
  /\ UNCHANGED <<spec, exit, killedBy, reported, polled, cancel, wd, workerVars, egressVars>>

\* try_wait finds the worker ended: it is reaped and its status recorded.
Reap ==
  /\ child = "zombie"
  /\ child' = "reaped"
  /\ exit' = status
  /\ hpc' = "egress"
  /\ UNCHANGED <<polled, killers, lock, egressVars>>

\* Mutant: the command is built without kill_on_drop.
WaitErrorNoKill ==
  /\ "wait" \in MayFail
  /\ hpc' = "failed"
  /\ lock' = "free"
  /\ proxyUp' = FALSE
  /\ UNCHANGED <<exit, child, killers, polled, caFile>>

\* try_wait fails: an early return drops the child (kill_on_drop), the lock
\* and the egress runtime; dropping the proxy handle stops the proxy, and the
\* CA file is not removed.
WaitError ==
  /\ "wait" \in MayFail
  /\ hpc' = "failed"
  /\ SendKill("drop")
  /\ lock' = "free"
  /\ proxyUp' = FALSE
  /\ UNCHANGED <<exit, child, polled, caFile>>

\* Mutant: destroy waits for the worker instead of killing it.
DestroyTryBlocks ==
  /\ hpc = "try"
  /\ Reap
  /\ UNCHANGED <<spec, stored, killedBy, reported, cancel, wd, status, termed>>

\* The first look: a running worker is sent SIGKILL.
DestroyTry ==
  /\ hpc = "try"
  /\ \/ Reap
     \/ WaitError
     \/ /\ child = "running"
        /\ SendKill("destroy")
        /\ hpc' = "poll"
        /\ UNCHANGED <<exit, child, polled, lock, egressVars>>
  /\ UNCHANGED <<spec, stored, killedBy, reported, cancel, wd, status, termed>>

\* One of the polls after the kill; the last one gives up, and the child is
\* dropped with its exit unknown.
DestroyPoll ==
  /\ hpc = "poll"
  /\ \/ Reap
     \/ WaitError
     \/ /\ child = "running"
        /\ polled' = polled + 1
        /\ hpc' = IF polled' = Polls THEN "egress" ELSE "poll"
        /\ UNCHANGED <<exit, child, killers, lock, egressVars>>
  /\ UNCHANGED <<spec, stored, killedBy, reported, cancel, wd, status, termed>>

\* The audit log is drained, the proxy shut down and the CA file removed; that
\* it could not be removed is only logged.
DestroyEgress ==
  /\ hpc = "egress"
  /\ hpc' = "report"
  /\ proxyUp' = FALSE
  /\ caFile' = FALSE \/ ("remove" \in MayFail /\ UNCHANGED caFile)
  /\ UNCHANGED <<spec, stateVars, reported, polled, cancel, wd, workerVars>>

\* The report is built from exit, killedBy under the lock, then it is released.
DestroyReport ==
  /\ hpc = "report"
  /\ hpc' = "gone"
  /\ reported' = killedBy
  /\ lock' = "free"
  /\ UNCHANGED <<spec, stored, exit, killedBy, polled, cancel, wd, workerVars, egressVars>>

\* The handle is dropped without destroy: the sender and the proxy handle go.
DropHandle ==
  /\ hpc = "open"
  /\ hpc' = "dropped"
  /\ cancel' = TRUE
  /\ proxyUp' = FALSE
  /\ UNCHANGED <<spec, stateVars, reported, polled, wd, workerVars, caFile>>

\* Mutant: dropping the child leaves it running.
DropStateNoKill ==
  /\ hpc = "dropped" /\ stored
  /\ wd \in {"none", "done"}
  /\ stored' = FALSE
  /\ UNCHANGED <<spec, hpc, lock, exit, killedBy, reported, polled, cancel, wd,
                 workerVars, egressVars>>

\* The state, and the child in it, is freed with its last owner, which is the
\* watchdog task while that runs.
DropState ==
  /\ hpc = "dropped" /\ stored
  /\ wd \in {"none", "done"}
  /\ stored' = FALSE
  /\ SendKill("drop")
  /\ UNCHANGED <<spec, hpc, lock, exit, killedBy, reported, polled, cancel, wd,
                 child, status, termed, egressVars>>

-----------------------------------------------------------------------------
(* The watchdog task: a select! of the timer and the cancel channel.        *)

\* The timer branch.  It can win although the cancel is there too, and it
\* signals the pid without looking at the worker.
WatchdogKill ==
  /\ wd = "armed"
  /\ SendKill("watchdog")
  /\ wd' = "mark"
  /\ UNCHANGED <<spec, hpc, stateVars, reported, polled, cancel, child, status, termed, egressVars>>

\* Only after the kill does it take the lock and record the reason.
WatchdogMark ==
  /\ wd = "mark" /\ lock = "free"
  /\ killedBy' = IF killedBy = "none" THEN "WallClock" ELSE killedBy
  /\ wd' = "done"
  /\ UNCHANGED <<spec, hpc, lock, stored, exit, reported, polled, cancel, workerVars, egressVars>>

WatchdogCancelled ==
  /\ wd = "armed" /\ cancel
  /\ wd' = "done"
  /\ UNCHANGED <<spec, hpc, stateVars, reported, polled, cancel, workerVars, egressVars>>

-----------------------------------------------------------------------------
(* The worker process and the kernel.                                       *)

WorkerEnds(s) ==
  /\ child = "running"
  /\ child' = "zombie"
  /\ status' = s
  /\ UNCHANGED <<spec, hpc, stateVars, reported, polled, cancel, wd, termed, killers, egressVars>>

\* It exits by itself, or on a SIGTERM it did not handle.
WorkerExit == \E s \in {"exit0", "exit1"} : WorkerEnds(s)
WorkerTerminated == termed /\ WorkerEnds("sigterm")

\* A SIGKILL takes effect, some time after it was sent.
WorkerKilled == killers # {} /\ WorkerEnds("sigkill")

\* A child dropped without a successful wait is reaped by tokio's orphan queue.
OrphanReaped ==
  /\ hpc \in {"egress", "report", "gone", "failed", "dropped"} /\ ~stored
  /\ child = "zombie"
  /\ child' = "reaped"
  /\ UNCHANGED <<spec, hpc, stateVars, reported, polled, cancel, wd, status, termed, killers, egressVars>>

-----------------------------------------------------------------------------
Destroy == DestroyLock \/ DestroyTry \/ DestroyPoll \/ DestroyEgress \/ DestroyReport
Watchdog == WatchdogKill \/ WatchdogMark \/ WatchdogCancelled

Next ==
  \/ Create \/ Spawn \/ DestroyCancel \/ DropHandle
  \/ \E sig \in {"term", "kill"} : Kill(sig)
  \/ Destroy \/ DropState \/ Watchdog
  \/ WorkerExit \/ WorkerTerminated \/ WorkerKilled \/ OrphanReaped

Spec == Init /\ [][Next]_vars

\* destroy is straight-line code on a running thread, tokio polls the watchdog
\* task and its timer, and the kernel delivers SIGKILL.  The caller owes
\* nothing, and the worker need not exit by itself.
FairSpec ==
  /\ Spec
  /\ WF_vars(Destroy) /\ WF_vars(DropState) /\ WF_vars(Watchdog) /\ WF_vars(WorkerKilled)

-----------------------------------------------------------------------------
(* Properties                                                               *)

\* While the handle is usable, nothing reaps the worker: the pid that kill() and
\* the watchdog signal is still the worker's (running or ended), never one the
\* kernel may have given to another process.
PidPinned == (hpc \in {"none", "open"} /\ child # "none") => child \in {"running", "zombie"}

\* However the handle ends (a report after the polls ran out, an error, a drop),
\* a worker left running has a SIGKILL on its way.
LeftBehindIsDoomed ==
  ( /\ hpc \in {"gone", "failed", "dropped"}
    /\ ~stored /\ child = "running" ) => killers # {}

\* The proxy and its CA certificate are there for as long as the handle serves a
\* worker that may use them, until destroy has looked at it for the last time,
\* and no proxy outlives its handle, whichever way that ends.
EgressInStep ==
  /\ (spec.egress /\ hpc \in {"open", "lock", "try", "poll"}) => proxyUp /\ caFile
  /\ hpc \in {"report", "gone", "failed", "dropped"} => ~proxyUp

\* A reported capsule has left a CA file behind only if it could not be removed.
CaFileGoes == (hpc = "gone" /\ caFile) => "remove" \in MayFail

\* A worker under a timeout ends, whether it is the watchdog, destroy or the
\* drop of the handle that gets to it, and whichever of them wins the race.
WorkerEventuallyEnds == (spec.timeout /\ child = "running") ~> (child # "running")

\* destroy returns although the watchdog competes for its lock and the worker
\* may resist the kill.
DestroyReturns == (hpc = "lock") ~> (hpc \in {"gone", "failed"})

-----------------------------------------------------------------------------
(* Refinement: the handle as its user sees it.                              *)

C == INSTANCE Capsule WITH
       phase  <- IF hpc \in {"none", "open", "lock", "try", "poll"} THEN "open" ELSE "closed",
       worker <- IF child \in {"zombie", "reaped"} THEN status ELSE child,
       report <- IF hpc \in {"egress", "report", "gone"} THEN exit ELSE "none"

\* The Process backend implements the CapsuleHandle contract: one worker, one
\* report, with the status the worker had when destroy last looked.
ImplementsCapsule == C!Spec
=============================================================================
