-------------------------- MODULE NamespaceCapsule ---------------------------
(***************************************************************************)
(* Capsules of the Namespace backend (namespace.rs) in one host process.    *)
(* Every capsule has a handle, driven by its own host thread, and a cloned   *)
(* child: PID 1 of a new PID namespace, which waits for the host's sync      *)
(* byte, finishes its own set-up and execs zk-init.  zk-init sets up the     *)
(* guest file system, runs the worker as its own child and exits with what   *)
(* it makes of the worker's end.  Killing the child kills everything in its  *)
(* PID namespace.                                                           *)
(*                                                                         *)
(* The capsules meet in the host's file-descriptor table: pipes are made     *)
(* without O_CLOEXEC, so a child inherits the diagnostic pipe of any capsule *)
(* whose spawn is under way.                                                *)
(*                                                                         *)
(* SIGTERM is left out: the kernel does not deliver it to a PID 1 that has   *)
(* no handler, and zk-init installs none.                                   *)
(***************************************************************************)
EXTENDS Naturals, FiniteSets

CONSTANTS
  Capsule,      \* the capsules of the host process
  Host,         \* the host process, as a holder of file descriptors
  Serial,       \* TRUE if callers never let two spawns overlap
  MayFail,      \* which calls may fail: a subset of Faults
  Specs         \* the specs capsules are created with

\* "stage": anything before there is a guard for the staged file; "clone":
\* anything after that up to and with clone; "maps", "veth", "cgroup": the three
\* set-up steps; "enter": add_pid; "init": the set-up of the child or of zk-init;
\* "wait": waitpid; "cleanup": the removal of a file, directory or veth; "drop":
\* the handle may be dropped without destroy.
Faults == {"stage", "clone", "maps", "veth", "cgroup", "enter", "init", "wait",
           "cleanup", "drop"}

\* timeout: timeout_sec > 0; egress: there is a policy; required: cgroup_required.
SpecType == [timeout : BOOLEAN, egress : BOOLEAN, required : BOOLEAN]

ASSUME HostAssumption == Host \notin Capsule
ASSUME SerialAssumption == Serial \in BOOLEAN
ASSUME FaultsAssumption == MayFail \subseteq Faults
ASSUME SpecsAssumption == Specs \subseteq SpecType

\* How a worker can end: its exit code, any signal, never started because zk-init
\* or the child itself gave up, or killed together with its PID 1.
Status == {"exit0", "exit1", "signal", "initfail", "bail", "sigkill"}

\* What waitpid says of the child: an exit code, child_bail's -1, or SIGKILL.
ChildStatus == {"exit0", "exit1", "bail", "sigkill"}

\* zk-init has no code but 1 for a worker that a signal ended or that it could
\* not start.
InitCode(s) == IF s \in {"signal", "initfail"} THEN "exit1" ELSE s

\* What a report may say of a worker that ended with s: zk-init's code for it, or
\* the SIGKILL that reached zk-init first.
Told == [s \in Status |-> {InitCode(s), "sigkill"}]

VARIABLES
  spec,       \* what each capsule was created with
  hpc,        \* where each handle is
  child,      \* each child: "none", "wait", "setup", "bailing", then as zk-init
              \* "exec", "run", "exiting", at last "zombie", "reaped"
  status,     \* how each child ended
  worker,     \* each worker: "none", "running", or how it ended
  left,       \* a child that an interrupted waitpid left behind
  leftW,      \* the diagnostic pipes of other capsules whose write end it holds
  ready,      \* the set-up steps that took effect on each child
  synced,     \* the sync byte is in the pipe
  killed,     \* a SIGKILL is on its way to the child
  counted,    \* the limits whose violation the cgroup counted
  diagW,      \* the processes that hold the write end of each diagnostic pipe
  diagMsg,    \* child_bail wrote to the diagnostic pipe
  wd,         \* the watchdog task of each capsule
  killedBy,   \* NamespaceState.killed_by
  staged,     \* the staged copy of zk-init exists
  cgroupDir,  \* the cgroup directory exists
  network,    \* the egress runtime exists: proxy, veth slot, CA file
  exit,       \* CapsuleReport: exit_code and exit_signal
  reason,     \* CapsuleReport: killed_by
  initError   \* CapsuleReport: init_error is there

spawnVars == <<ready, synced, staged, cgroupDir>>
leftVars == <<left, leftW>>
childVars == <<child, status, worker, killed, counted, diagW, diagMsg>>
reportVars == <<exit, reason, initError>>
vars == <<spec, hpc, spawnVars, childVars, leftVars, wd, killedBy, network, reportVars>>

SetupSteps == {"maps", "veth", "cgroup", "enter"}

\* Usable (no child, or a child), the steps of spawn and of its error path, the
\* steps of destroy, and the handle's ends.
SpawnSteps == {"clone", "close", "maps", "veth", "cgroup", "sync",
               "bailsync", "bailkill", "bailwait"}
DestroySteps == {"cancelled", "wait", "reap", "diag", "finish"}
HPC == {"open", "spawned", "gone", "failed", "dropped"} \cup SpawnSteps \cup DestroySteps

Reason == {"none", "WallClock", "Memory", "MaxPids"}

TypeOK ==
  /\ spec \in [Capsule -> SpecType]
  /\ hpc \in [Capsule -> HPC]
  /\ child \in [Capsule -> {"none", "wait", "setup", "bailing", "exec", "run", "exiting",
                            "zombie", "reaped"}]
  /\ status \in [Capsule -> ChildStatus \cup {"none"}]
  /\ worker \in [Capsule -> Status \cup {"none", "running"}]
  /\ left \in [Capsule -> {"none", "running", "dying", "zombie"}]
  /\ leftW \in [Capsule -> SUBSET Capsule]
  /\ ready \in [Capsule -> SUBSET SetupSteps]
  /\ synced \in [Capsule -> BOOLEAN]
  /\ killed \in [Capsule -> BOOLEAN]
  /\ counted \in [Capsule -> SUBSET {"Memory", "MaxPids"}]
  /\ diagW \in [Capsule -> SUBSET (Capsule \cup {Host})]
  /\ diagMsg \in [Capsule -> BOOLEAN]
  /\ wd \in [Capsule -> {"none", "armed", "mark", "done"}]
  /\ killedBy \in [Capsule -> Reason]
  /\ staged \in [Capsule -> BOOLEAN]
  /\ cgroupDir \in [Capsule -> BOOLEAN]
  /\ network \in [Capsule -> BOOLEAN]
  /\ exit \in [Capsule -> ChildStatus \cup {"none", "unknown"}]
  /\ reason \in [Capsule -> Reason]
  /\ initError \in [Capsule -> BOOLEAN]

All(v) == [c \in Capsule |-> v]

\* Capsules just created, with any spec; start_ns_egress has run for those
\* that have an egress policy.
Init ==
  /\ spec \in [Capsule -> Specs]
  /\ hpc = All("open") /\ child = All("none") /\ status = All("none")
  /\ worker = All("none") /\ left = All("none") /\ leftW = All({})
  /\ ready = All({}) /\ synced = All(FALSE) /\ killed = All(FALSE)
  /\ counted = All({}) /\ diagW = All({}) /\ diagMsg = All(FALSE)
  /\ wd = All("none") /\ killedBy = All("none")
  /\ staged = All(FALSE) /\ cgroupDir = All(FALSE)
  /\ network = [c \in Capsule |-> spec[c].egress]
  /\ exit = All("none") /\ reason = All("none") /\ initError = All(FALSE)

Goto(c, label) == hpc' = [hpc EXCEPT ![c] = label]

Alive(c) == child[c] \in {"wait", "setup", "bailing", "exec", "run", "exiting"}

\* A SIGKILL reaches the child only while it is alive.
SendKill(c) == killed' = [killed EXCEPT ![c] = @ \/ Alive(c)]

\* What is there after a removal whose failure nobody looks at.
MayStay(there) == {FALSE} \cup (IF "cleanup" \in MayFail THEN {there} ELSE {})

\* Cgroup::drop, three attempts: a directory with a live process in it cannot be
\* removed, but a killed process may go between two attempts.
Rmdir(c) ==
  IF Alive(c) THEN {cgroupDir[c]} \cup (IF killed[c] THEN {FALSE} ELSE {})
  ELSE MayStay(cgroupDir[c])

-----------------------------------------------------------------------------
(* spawn(): do_clone, with the state lock held throughout.                  *)

\* Mutant: the diagnostic pipe of an earlier spawn is used again.
SpawnPipesOldPipe(c) ==
  /\ hpc[c] = "open"
  /\ Serial => \A d \in Capsule : hpc[d] \notin SpawnSteps
  /\ staged' = [staged EXCEPT ![c] = TRUE]
  /\ diagW' = [diagW EXCEPT ![c] = {Host}]
  /\ Goto(c, "clone")
  /\ UNCHANGED <<spec, ready, synced, cgroupDir, child, status, worker, killed, counted,
                 diagMsg, leftVars, wd, killedBy, network, reportVars>>

\* zk-init is staged and the five pipes are made.
SpawnPipes(c) ==
  /\ hpc[c] = "open"
  /\ Serial => \A d \in Capsule : hpc[d] \notin SpawnSteps
  /\ staged' = [staged EXCEPT ![c] = TRUE]
  /\ diagW' = [diagW EXCEPT ![c] = {Host}]
  /\ diagMsg' = [diagMsg EXCEPT ![c] = FALSE]
  /\ leftW' = [d \in Capsule |-> leftW[d] \ {c}]
  /\ Goto(c, "clone")
  /\ UNCHANGED <<spec, ready, synced, cgroupDir, child, status, worker, killed, counted,
                 left, wd, killedBy, network, reportVars>>

\* zk-init is not found or not copied whole, or its mode cannot be set: what was
\* copied stays, for there is no guard yet.  (A failure before anything is copied
\* changes nothing.)
StageFails(c) ==
  /\ "stage" \in MayFail
  /\ hpc[c] = "open"
  /\ Serial => \A d \in Capsule : hpc[d] \notin SpawnSteps
  /\ staged' = [staged EXCEPT ![c] = TRUE]
  /\ UNCHANGED <<spec, hpc, ready, synced, cgroupDir, childVars, leftVars, wd, killedBy,
                 network, reportVars>>

\* The child gets a copy of the host's descriptor table.
Clone(c) ==
  /\ hpc[c] = "clone"
  /\ child' = [child EXCEPT ![c] = "wait"]
  /\ diagW' = [d \in Capsule |-> IF Host \in diagW[d] THEN diagW[d] \cup {c} ELSE diagW[d]]
  /\ Goto(c, "close")
  /\ UNCHANGED <<spec, spawnVars, status, worker, killed, counted, diagMsg, leftVars,
                 wd, killedBy, network, reportVars>>

\* An early error: the guard removes the staged file, the raw pipe ends stay
\* open in the host.
CloneFails(c) ==
  /\ "clone" \in MayFail
  /\ hpc[c] = "clone"
  /\ \E there \in MayStay(TRUE) : staged' = [staged EXCEPT ![c] = there]
  /\ Goto(c, "open")
  /\ UNCHANGED <<spec, ready, synced, cgroupDir, childVars, leftVars, wd, killedBy,
                 network, reportVars>>

\* Mutant: close(diag_w) is forgotten.
CloseEndsKeepsDiag(c) ==
  /\ hpc[c] = "close"
  /\ Goto(c, "maps")
  /\ UNCHANGED <<spec, spawnVars, childVars, leftVars, wd, killedBy, network,
                 reportVars>>

\* The host closes the child's ends of the pipes.
CloseEnds(c) ==
  /\ hpc[c] = "close"
  /\ diagW' = [diagW EXCEPT ![c] = @ \ {Host}]
  /\ Goto(c, "maps")
  /\ UNCHANGED <<spec, spawnVars, child, status, worker, killed, counted, diagMsg,
                 leftVars, wd, killedBy, network, reportVars>>

\* One of the host's set-up steps succeeds, or its failure starts the error path.
Setup(c, here, next) ==
  /\ hpc[c] = here
  /\ \/ /\ ready' = [ready EXCEPT ![c] = @ \cup {here}]
        /\ Goto(c, next)
     \/ here \in MayFail /\ Goto(c, "bailsync") /\ UNCHANGED ready

WriteMaps(c) ==
  /\ Setup(c, "maps", IF spec[c].egress THEN "veth" ELSE "cgroup")
  /\ UNCHANGED <<spec, synced, staged, cgroupDir, childVars, leftVars, wd, killedBy,
                 network, reportVars>>

MoveVeth(c) ==
  /\ Setup(c, "veth", "cgroup")
  /\ UNCHANGED <<spec, synced, staged, cgroupDir, childVars, leftVars, wd, killedBy,
                 network, reportVars>>

\* Mutant: a missing cgroup is never an error.
MakeCgroupLenient(c) ==
  /\ hpc[c] = "cgroup"
  /\ \/ /\ cgroupDir' = [cgroupDir EXCEPT ![c] = TRUE]
        /\ ready' = [ready EXCEPT ![c] = @ \cup {"cgroup", "enter"}]
     \/ "cgroup" \in MayFail /\ UNCHANGED <<ready, cgroupDir>>
  /\ Goto(c, "sync")
  /\ UNCHANGED <<spec, synced, staged, childVars, leftVars, wd, killedBy, network,
                 reportVars>>

\* The cgroup is created; a failure matters only if it is required, otherwise
\* a dummy takes its place.  The child is put into it and the limits are set;
\* these errors are ignored.  (Limits that were not set show in nothing else but
\* in never being hit.)
MakeCgroup(c) ==
  /\ hpc[c] = "cgroup"
  /\ \/ /\ cgroupDir' = [cgroupDir EXCEPT ![c] = TRUE]
        /\ \/ ready' = [ready EXCEPT ![c] = @ \cup {"cgroup", "enter"}]
           \/ "enter" \in MayFail /\ ready' = [ready EXCEPT ![c] = @ \cup {"cgroup"}]
        /\ Goto(c, "sync")
     \/ /\ "cgroup" \in MayFail
        /\ Goto(c, IF spec[c].required THEN "bailsync" ELSE "sync")
        /\ UNCHANGED <<ready, cgroupDir>>
  /\ UNCHANGED <<spec, synced, staged, childVars, leftVars, wd, killedBy, network,
                 reportVars>>

\* The sync byte releases the child, spawn returns and the watchdog is installed.
SyncChild(c) ==
  /\ hpc[c] = "sync"
  /\ synced' = [synced EXCEPT ![c] = TRUE]
  /\ wd' = [wd EXCEPT ![c] = IF spec[c].timeout THEN "armed" ELSE @]
  /\ Goto(c, "spawned")
  /\ UNCHANGED <<spec, ready, staged, cgroupDir, childVars, leftVars, killedBy, network,
                 reportVars>>

\* Mutant: the error path waits for a child that it does not kill.
BailSyncNoKill(c) ==
  /\ hpc[c] = "bailsync"
  /\ synced' = [synced EXCEPT ![c] = TRUE]
  /\ Goto(c, "bailwait")
  /\ UNCHANGED <<spec, ready, staged, cgroupDir, childVars, leftVars, wd, killedBy,
                 network, reportVars>>

\* The error path: the byte is written first, then the child is killed, then
\* waited for; the child may run in between.
BailSync(c) ==
  /\ hpc[c] = "bailsync"
  /\ synced' = [synced EXCEPT ![c] = TRUE]
  /\ Goto(c, "bailkill")
  /\ UNCHANGED <<spec, ready, staged, cgroupDir, childVars, leftVars, wd, killedBy,
                 network, reportVars>>

BailKill(c) ==
  /\ hpc[c] = "bailkill"
  /\ SendKill(c)
  /\ Goto(c, "bailwait")
  /\ UNCHANGED <<spec, spawnVars, child, status, worker, counted, diagW, diagMsg,
                 leftVars, wd, killedBy, network, reportVars>>

\* The child is reaped, or the wait is interrupted, which nobody notices: the
\* child is left to itself.  The guard removes the staged file.  (Bound: of the
\* children left behind by one capsule only the last may still be dying.)
BailWait(c) ==
  /\ hpc[c] = "bailwait"
  /\ \/ child[c] = "zombie" /\ UNCHANGED <<leftVars, diagW>>
     \/ /\ "wait" \in MayFail
        /\ Alive(c) /\ left[c] \in {"none", "zombie"}
        /\ left' = [left EXCEPT ![c] = IF killed[c] THEN "dying" ELSE "running"]
        /\ leftW' = [leftW EXCEPT ![c] = {d \in Capsule \ {c} : c \in diagW[d]}]
        /\ diagW' = [d \in Capsule |-> diagW[d] \ {c}]
  /\ child' = [child EXCEPT ![c] = "none"]
  /\ status' = [status EXCEPT ![c] = "none"]
  /\ worker' = [worker EXCEPT ![c] = "none"]
  /\ killed' = [killed EXCEPT ![c] = FALSE]
  /\ ready' = [ready EXCEPT ![c] = {}]
  /\ synced' = [synced EXCEPT ![c] = FALSE]
  /\ \E there \in MayStay(TRUE) : staged' = [staged EXCEPT ![c] = there]
  /\ Goto(c, "open")
  /\ UNCHANGED <<spec, cgroupDir, counted, diagMsg, wd, killedBy, network, reportVars>>

-----------------------------------------------------------------------------
(* kill(), the watchdog task, and destroy().                                *)

Kill(c) ==
  /\ hpc[c] = "spawned"
  /\ SendKill(c)
  /\ UNCHANGED <<spec, hpc, spawnVars, child, status, worker, counted, diagW, diagMsg,
                 leftVars, wd, killedBy, network, reportVars>>

\* destroy holds the state lock from its first wait to its report.
Locked(c) == hpc[c] \in DestroySteps \ {"cancelled"}

\* Mutant: the watchdog sends SIGTERM, which a PID 1 never sees.
WatchdogTerm(c) ==
  /\ wd[c] = "armed"
  /\ wd' = [wd EXCEPT ![c] = "mark"]
  /\ UNCHANGED <<spec, hpc, spawnVars, childVars, leftVars, killedBy, network,
                 reportVars>>

WatchdogKill(c) ==
  /\ wd[c] = "armed"
  /\ SendKill(c)
  /\ wd' = [wd EXCEPT ![c] = "mark"]
  /\ UNCHANGED <<spec, hpc, spawnVars, child, status, worker, counted, diagW, diagMsg,
                 leftVars, killedBy, network, reportVars>>

WatchdogMark(c) ==
  /\ wd[c] = "mark" /\ ~Locked(c)
  /\ killedBy' = [killedBy EXCEPT ![c] = IF @ = "none" THEN "WallClock" ELSE @]
  /\ wd' = [wd EXCEPT ![c] = "done"]
  /\ UNCHANGED <<spec, hpc, spawnVars, childVars, leftVars, network, reportVars>>

\* The cancel is sent by destroy, or its sender is dropped with the handle.
WatchdogCancelled(c) ==
  /\ wd[c] = "armed"
  /\ hpc[c] \in DestroySteps \cup {"gone", "failed", "dropped"}
  /\ wd' = [wd EXCEPT ![c] = "done"]
  /\ UNCHANGED <<spec, hpc, spawnVars, childVars, leftVars, killedBy, network,
                 reportVars>>

DestroyCancel(c) ==
  /\ hpc[c] \in {"open", "spawned"}
  /\ Goto(c, "cancelled")
  /\ UNCHANGED <<spec, spawnVars, childVars, leftVars, wd, killedBy, network,
                 reportVars>>

\* The lock is taken; without a child there is nothing to wait for or to read.
DestroyLock(c) ==
  /\ hpc[c] = "cancelled"
  /\ Goto(c, IF child[c] = "none" THEN "finish" ELSE "wait")
  /\ exit' = [exit EXCEPT ![c] = "unknown"]
  /\ UNCHANGED <<spec, spawnVars, childVars, leftVars, wd, killedBy, network, reason,
                 initError>>

\* Mutant: a child ended by a signal is reaped without its status.
ReapNoSignal(c) ==
  /\ child[c] = "zombie"
  /\ child' = [child EXCEPT ![c] = "reaped"]
  /\ exit' = [exit EXCEPT ![c] = IF status[c] = "sigkill" THEN @ ELSE status[c]]
  /\ Goto(c, "diag")
  /\ UNCHANGED <<killed, cgroupDir>>

Reap(c) ==
  /\ child[c] = "zombie"
  /\ child' = [child EXCEPT ![c] = "reaped"]
  /\ exit' = [exit EXCEPT ![c] = status[c]]
  /\ Goto(c, "diag")
  /\ UNCHANGED <<killed, cgroupDir>>

\* waitpid fails: an early return.  The staged file, the diagnostic pipe and the
\* veth slot stay; dropping the state drops its cgroup, and the handle its proxy.
WaitError(c) ==
  /\ "wait" \in MayFail
  /\ Goto(c, "failed")
  /\ \E there \in Rmdir(c) : cgroupDir' = [cgroupDir EXCEPT ![c] = there]
  /\ UNCHANGED <<child, killed, exit>>

\* waitpid with WNOHANG: a child still alive is sent SIGKILL.  The call can
\* fail only if somebody else has reaped the child.
DestroyWait(c) ==
  /\ hpc[c] = "wait"
  /\ \/ Reap(c)
     \/ child[c] = "zombie" /\ WaitError(c)
     \/ Alive(c) /\ SendKill(c) /\ Goto(c, "reap") /\ UNCHANGED <<child, cgroupDir, exit>>
  /\ UNCHANGED <<spec, ready, synced, staged, status, worker, counted, diagW, diagMsg,
                 leftVars, wd, killedBy, network, reason, initError>>

\* The blocking waitpid, which a signal may also interrupt.
DestroyReap(c) ==
  /\ hpc[c] = "reap"
  /\ Reap(c) \/ WaitError(c)
  /\ UNCHANGED <<spec, ready, synced, staged, status, worker, counted, diagW, diagMsg,
                 leftVars, wd, killedBy, network, reason, initError>>

\* The processes that hold the write end of the diagnostic pipe of c, children
\* left behind included.
Writers(c) == diagW[c] \cup {d \in Capsule : c \in leftW[d]}

\* A blocking read: it returns a message, or end of file once nobody holds the
\* write end.
DestroyDiag(c) ==
  /\ hpc[c] = "diag"
  /\ diagMsg[c] \/ Writers(c) = {}
  /\ initError' = [initError EXCEPT ![c] = diagMsg[c]]
  /\ Goto(c, "finish")
  /\ UNCHANGED <<spec, spawnVars, childVars, leftVars, wd, killedBy, network, exit,
                 reason>>

\* The cgroup's event counters; memory comes first.
DetectViolation(c) ==
  IF "Memory" \in counted[c] THEN "Memory"
  ELSE IF "MaxPids" \in counted[c] THEN "MaxPids" ELSE "none"

\* The kill reason falls back on the cgroup's counters; cgroup, staged file
\* and egress runtime are released, as far as that succeeds; the report is
\* returned.  A staged file that no spawn handed over is not known here.
DestroyFinish(c) ==
  /\ hpc[c] = "finish"
  /\ LET why == IF killedBy[c] = "none" THEN DetectViolation(c) ELSE killedBy[c]
     IN  /\ killedBy' = [killedBy EXCEPT ![c] = why]
         /\ reason' = [reason EXCEPT ![c] = why]
  /\ \E there \in Rmdir(c) : cgroupDir' = [cgroupDir EXCEPT ![c] = there]
  /\ \E there \in IF child[c] = "none" THEN {staged[c]} ELSE MayStay(staged[c]) :
       staged' = [staged EXCEPT ![c] = there]
  /\ \E there \in MayStay(network[c]) : network' = [network EXCEPT ![c] = there]
  /\ Goto(c, "gone")
  /\ UNCHANGED <<spec, ready, synced, childVars, leftVars, wd, exit, initError>>

\* The handle is dropped without destroy.  Nothing kills the child, and the
\* directory of a cgroup with a live process in it cannot be removed.
DropHandle(c) ==
  /\ "drop" \in MayFail
  /\ hpc[c] \in {"open", "spawned"}
  /\ Goto(c, "dropped")
  /\ \E there \in Rmdir(c) : cgroupDir' = [cgroupDir EXCEPT ![c] = there]
  /\ UNCHANGED <<spec, ready, synced, staged, childVars, leftVars, wd, killedBy,
                 network, reportVars>>

-----------------------------------------------------------------------------
(* The child: child_main, then zk-init and the worker.                      *)

\* read() of the sync byte returns.
ChildSynced(c) ==
  /\ child[c] = "wait" /\ synced[c]
  /\ child' = [child EXCEPT ![c] = "setup"]
  /\ UNCHANGED <<spec, hpc, spawnVars, status, worker, killed, counted, diagW, diagMsg,
                 leftVars, wd, killedBy, network, reportVars>>

\* The set-up and execve succeed; only the child's own diagnostic end is
\* close-on-exec.
ChildExec(c) ==
  /\ child[c] = "setup"
  /\ child' = [child EXCEPT ![c] = "exec"]
  /\ diagW' = [diagW EXCEPT ![c] = @ \ {c}]
  /\ UNCHANGED <<spec, hpc, spawnVars, status, worker, killed, counted, diagMsg,
                 leftVars, wd, killedBy, network, reportVars>>

\* The child ends with status s, and the worker, if it had not ended before, with
\* w; all the child's descriptors are closed.
ChildEnds(c, s, w) ==
  /\ child' = [child EXCEPT ![c] = "zombie"]
  /\ status' = [status EXCEPT ![c] = s]
  /\ worker' = [worker EXCEPT ![c] = IF @ \in Status THEN @ ELSE w]
  /\ diagW' = [d \in Capsule |-> diagW[d] \ {c}]
  /\ UNCHANGED <<spec, hpc, spawnVars, killed, counted, diagMsg, leftVars, wd, killedBy,
                 network, reportVars>>

\* child_bail: a message first, then the child returns -1.
ChildBail(c) ==
  /\ "init" \in MayFail
  /\ child[c] = "setup"
  /\ diagMsg' = [diagMsg EXCEPT ![c] = TRUE]
  /\ child' = [child EXCEPT ![c] = "bailing"]
  /\ UNCHANGED <<spec, hpc, spawnVars, status, worker, killed, counted, diagW, leftVars,
                 wd, killedBy, network, reportVars>>

ChildBailed(c) ==
  /\ child[c] = "bailing"
  /\ ChildEnds(c, "bail", "bail")

\* What zk-init does with the worker changes nothing else.
InitStep(c, label, w) ==
  /\ child' = [child EXCEPT ![c] = label]
  /\ worker' = [worker EXCEPT ![c] = w]
  /\ UNCHANGED <<spec, hpc, spawnVars, status, killed, counted, diagW, diagMsg,
                 leftVars, wd, killedBy, network, reportVars>>

\* zk-init cannot set up the guest file system or exec the worker; its message
\* goes to stderr, the diagnostic pipe is closed by now.
InitFails(c) ==
  /\ "init" \in MayFail
  /\ child[c] = "exec"
  /\ InitStep(c, "exiting", "initfail")

WorkerStarts(c) ==
  /\ child[c] = "exec"
  /\ InitStep(c, "run", "running")

\* The worker ends by itself, or by a signal of its own.
WorkerEnds(c) ==
  /\ child[c] = "run"
  /\ \E s \in {"exit0", "exit1", "signal"} : InitStep(c, "exiting", s)

ChildExit(c) ==
  /\ child[c] = "exiting"
  /\ ChildEnds(c, InitCode(worker[c]), worker[c])

ChildKilled(c) ==
  /\ Alive(c) /\ killed[c]
  /\ ChildEnds(c, "sigkill", "sigkill")

\* A child left behind dies of its SIGKILL; nobody will ever reap it.
LeftDies(c) ==
  /\ left[c] = "dying"
  /\ left' = [left EXCEPT ![c] = "zombie"]
  /\ leftW' = [leftW EXCEPT ![c] = {}]
  /\ UNCHANGED <<spec, hpc, spawnVars, childVars, wd, killedBy, network, reportVars>>

\* The kernel enforces a limit: it kills a process of the cgroup or refuses a
\* fork, which the worker may survive, and counts it.
LimitHit(c) ==
  /\ child[c] \in {"exec", "run"} /\ "enter" \in ready[c]
  /\ \E v \in {"Memory", "MaxPids"} : counted' = [counted EXCEPT ![c] = @ \cup {v}]
  /\ UNCHANGED <<spec, hpc, spawnVars, child, status, worker, killed, diagW, diagMsg,
                 leftVars, wd, killedBy, network, reportVars>>

\* zk-init itself is the process the memory controller kills.
ChildOom(c) ==
  /\ child[c] \in {"exec", "run", "exiting"} /\ "Memory" \in counted[c]
  /\ ChildEnds(c, "sigkill", "sigkill")

-----------------------------------------------------------------------------
Spawning(c) == \/ Clone(c) \/ CloneFails(c) \/ CloseEnds(c) \/ WriteMaps(c)
               \/ MoveVeth(c) \/ MakeCgroup(c) \/ SyncChild(c)
               \/ BailSync(c) \/ BailKill(c) \/ BailWait(c)
Destroying(c) == \/ DestroyLock(c) \/ DestroyWait(c) \/ DestroyReap(c)
                 \/ DestroyDiag(c) \/ DestroyFinish(c)
Watchdog(c) == WatchdogKill(c) \/ WatchdogMark(c) \/ WatchdogCancelled(c)
Starting(c) == ChildSynced(c) \/ ChildExec(c) \/ ChildBail(c) \/ ChildBailed(c)
ZkInit(c) == InitFails(c) \/ WorkerStarts(c) \/ ChildExit(c)

Next ==
  \E c \in Capsule :
    \/ StageFails(c) \/ SpawnPipes(c) \/ Spawning(c) \/ Kill(c)
    \/ DestroyCancel(c) \/ Destroying(c) \/ DropHandle(c)
    \/ Watchdog(c)
    \/ Starting(c) \/ ZkInit(c) \/ WorkerEnds(c) \/ ChildKilled(c)
    \/ LeftDies(c) \/ LimitHit(c) \/ ChildOom(c)

Spec == Init /\ [][Next]_vars

\* spawn and destroy are straight-line code on a running thread, tokio polls
\* the watchdog and its timer, a child that is released starts, zk-init runs its
\* course, and the kernel delivers SIGKILL.  No worker need exit by itself and no caller need act.
FairSpec ==
  /\ Spec
  /\ \A c \in Capsule : /\ WF_vars(Spawning(c)) /\ WF_vars(Destroying(c))
                        /\ WF_vars(Watchdog(c)) /\ WF_vars(Starting(c))
                        /\ WF_vars(ZkInit(c)) /\ WF_vars(ChildKilled(c))
                        /\ WF_vars(LeftDies(c))

-----------------------------------------------------------------------------
(* Properties                                                               *)

\* What must be done before a worker of c may run.
Needed(c) == {"maps"} \cup (IF spec[c].egress THEN {"veth"} ELSE {})
                      \cup (IF spec[c].required THEN {"cgroup"} ELSE {})

\* A child passes the sync barrier only fully set up, unless spawn has already
\* given up on it and is about to kill it.
ConfiguredOrDoomed ==
  \A c \in Capsule :
    Alive(c) /\ child[c] # "wait" =>
      Needed(c) \subseteq ready[c] \/ hpc[c] \in {"bailkill", "bailwait"}

\* do_clone: "configure it before we let the child run" - a child never gets to
\* exec without what its spec needs.
RunsOnlyConfigured ==
  \A c \in Capsule :
    child[c] \in {"exec", "run", "exiting"} => Needed(c) \subseteq ready[c]

\* When destroy comes to read the diagnostic pipe, no process holds its write
\* end, so the read cannot wait for anybody.
DiagReaderAlone == \A c \in Capsule : hpc[c] = "diag" => Writers(c) = {}

\* init_error is the message of the capsule's own child: one that gave up in its
\* set-up is always reported with it, and with a message no worker ever started.
\* (Without one a start may have failed nevertheless, in zk-init.)
InitErrorHonest ==
  \A c \in Capsule :
    hpc[c] = "gone" => /\ exit[c] = "bail" => initError[c]
                       /\ initError[c] => worker[c] \in {"bail", "sigkill"}

\* Once spawn has returned an error, destroy a report or an error, every process
\* of the capsule has ended or been sent SIGKILL, the ones nobody waited for
\* included.
LeftBehindIsDoomed ==
  \A c \in Capsule :
    /\ left[c] # "running"
    /\ hpc[c] \in {"open", "gone", "failed"} => (Alive(c) => killed[c])

\* Nothing that spawn made for a child is removed while the child may need it: its
\* zk-init until it execs, its cgroup and its network until it has been killed.
KeepsWhatItUses ==
  \A c \in Capsule :
    Alive(c) /\ ~killed[c] /\ hpc[c] # "dropped" =>
      /\ child[c] \in {"wait", "setup"} => staged[c]
      /\ "cgroup" \in ready[c] => cgroupDir[c]
      /\ spec[c].egress => network[c]

\* The clean-up of spawn and destroy leaves nobody running and pulls nothing from
\* under a running worker, whichever of its steps fails.
CleansUpInOrder == LeftBehindIsDoomed /\ KeepsWhatItUses

\* A spawned worker under a timeout ends.
WorkerEventuallyEnds ==
  \A c \in Capsule : (spec[c].timeout /\ hpc[c] = "spawned") ~> ~Alive(c)

\* spawn and destroy return: the blocking waits and the blocking read end.
CallsReturn ==
  \A c \in Capsule :
    (hpc[c] \in SpawnSteps \cup DestroySteps)
      ~> (hpc[c] \in {"open", "spawned", "gone", "failed"})

-----------------------------------------------------------------------------
(* Refinement: what the user of capsule c sees.  The worker exists for the   *)
(* user once spawn has returned it.                                         *)

PhaseOf(c) == IF hpc[c] \in {"diag", "finish", "gone", "failed", "dropped"}
              THEN "closed" ELSE "open"
WorkerOf(c) == IF hpc[c] = "open" \/ hpc[c] \in SpawnSteps \/ child[c] = "none" THEN "none"
               ELSE IF worker[c] \in Status THEN worker[c] ELSE "running"
ReportOf(c) == IF hpc[c] \in {"diag", "finish", "gone"} THEN exit[c] ELSE "none"
=============================================================================
