------------------------- MODULE FirecrackerCapsule --------------------------
(***************************************************************************)
(* A capsule of the Firecracker backend (firecracker.rs): the handle, the    *)
(* VM process, zk-init and the worker in the guest (init_shim.rs), the       *)
(* control connection between them, and two host threads, the one that       *)
(* reads the control connection and the watchdog.  The host learns how the   *)
(* worker ended only from the line zk-init writes.                          *)
(***************************************************************************)
EXTENDS Naturals

CONSTANT MayFail    \* which calls may fail: a subset of Faults

\* "dir": create_state_dir; "egress": start_fc_egress; "resolve": the worker is
\* not in PATH; "stage": any other step before the VM process; "umount": an
\* umount; "boot": anything from the VM process to READY; "ctl": a write to the
\* control connection; "export": the copy of the workspace; "cleanup": a removal
\* whose result nobody looks at; "drop": the handle may be dropped without destroy.
Faults == {"dir", "egress", "resolve", "stage", "umount", "boot", "ctl", "export",
           "cleanup", "drop"}

ASSUME FaultsAssumption == MayFail \subseteq Faults

\* What zk-init can say: EXIT with a code, or SIGNAL.
Status == {"exit0", "exit1", "sigterm", "sigkill"}

\* zk-init tells the code or the signal of the worker as it is, and the host
\* parses it back.
Told == [s \in Status |-> {s}]

VARIABLES
  spec,       \* timeout (timeout_sec > 0), egress (a policy), workspace (host_path)
  hpc,        \* where the handle is
  vm,         \* the VM process: "none", "running", "dead" (a zombie), "reaped"
  killers,    \* who has sent SIGKILL to the running VM process, the handle or the watchdog
  guest,      \* where zk-init is, "off" without it
  status,     \* how the worker ended; "lost" if the VM went with it
  saved,      \* the worker's last writes are in the workspace image
  readyLine,  \* READY is in the control connection
  statusLine, \* the worker's status is in the control connection
  asked,      \* TERMINATE is on its way to the worker
  reader,     \* the thread that reads the control connection
  noted,      \* control_status
  exited,     \* worker_exited
  wd,         \* the watchdog thread
  cancel,     \* the watchdog was cancelled
  killedBy,   \* killed_by
  stateDir,   \* the state directory exists
  mounts,     \* where an image is mounted on the host, of MountPoints
  left,       \* the mounts that were given up: their umount failed, or was skipped
  image,      \* the workspace image exists
  proxyUp,    \* the egress proxy runs
  tap,        \* the TAP device exists
  caFile,     \* the CA certificate file exists
  exit,       \* CapsuleReport: exit_code and exit_signal
  reason,     \* CapsuleReport: killed_by
  exported    \* what destroy copied to host_path: "none", "partial", "stale", "complete"

guestVars == <<guest, status, saved, readyLine, statusLine>>
vmVars == <<vm, killers>>
readVars == <<reader, noted, exited>>
wdVars == <<wd, cancel, killedBy>>
egressVars == <<proxyUp, tap, caFile>>
mountVars == <<mounts, left>>
hostVars == <<stateDir, mountVars, image, egressVars>>
reportVars == <<exit, reason, exported>>
vars == <<spec, hpc, asked, vmVars, guestVars, readVars, wdVars, hostVars, reportVars>>

PrepareSteps == {"staging", "image", "seed", "start"}
BootSteps == {"api", "connect", "ready", "bail", "bailwait"}
SpawnSteps == PrepareSteps \cup BootSteps
DestroySteps == {"vmkill", "vmwait", "take", "reason", "export", "copy", "remove"}
HPC == {"create", "open", "spawned", "grace", "gone", "failed", "dropped"}
         \cup SpawnSteps \cup DestroySteps

\* rootfs_mount, for the copy of the root file system, and ws_mount and
\* ws_export_mount, for the workspace image.
MountPoints == {"rootfs", "seed", "export"}

TypeOK ==
  /\ spec \in [timeout : BOOLEAN, egress : BOOLEAN, workspace : BOOLEAN]
  /\ hpc \in HPC
  /\ vm \in {"none", "running", "dead", "reaped"}
  /\ killers \subseteq {"handle", "watchdog"}
  /\ guest \in {"off", "boot", "listening", "accepted", "run", "ended", "synced", "told"}
  /\ status \in Status \cup {"none", "lost"}
  /\ saved \in BOOLEAN /\ readyLine \in BOOLEAN
  /\ statusLine \in Status \cup {"none"}
  /\ asked \in BOOLEAN
  /\ reader \in {"none", "reading", "mark", "done"}
  /\ noted \in Status \cup {"none"} /\ exited \in BOOLEAN
  /\ wd \in {"none", "armed", "mark", "kill", "done"}
  /\ cancel \in BOOLEAN /\ killedBy \in {"none", "WallClock"}
  /\ stateDir \in BOOLEAN /\ image \in BOOLEAN
  /\ mounts \subseteq MountPoints /\ left \subseteq MountPoints
  /\ proxyUp \in BOOLEAN /\ tap \in BOOLEAN /\ caFile \in BOOLEAN
  /\ exit \in Status \cup {"none", "unknown"}
  /\ reason \in {"none", "WallClock"}
  /\ exported \in {"none", "partial", "stale", "complete"}

Init ==
  /\ spec \in [timeout : BOOLEAN, egress : BOOLEAN, workspace : BOOLEAN]
  /\ hpc = "create" /\ vm = "none" /\ killers = {}
  /\ guest = "off" /\ status = "none" /\ saved = FALSE
  /\ readyLine = FALSE /\ statusLine = "none" /\ asked = FALSE
  /\ reader = "none" /\ noted = "none" /\ exited = FALSE
  /\ wd = "none" /\ cancel = FALSE /\ killedBy = "none"
  /\ stateDir = FALSE /\ mounts = {} /\ left = {} /\ image = FALSE
  /\ proxyUp = FALSE /\ tap = FALSE /\ caFile = FALSE
  /\ exit = "none" /\ reason = "none" /\ exported = "none"

\* A SIGKILL sent to the VM process counts only while it runs.
SendKill(who) == killers' = IF vm = "running" THEN killers \cup {who} ELSE killers

\* What is there after a removal whose failure nobody looks at.
MayStay(there) == {FALSE} \cup (IF "cleanup" \in MayFail THEN {there} ELSE {})

-----------------------------------------------------------------------------
(* create and spawn                                                         *)

\* start_fc_egress: TAP, proxy and CA file.  A failure shuts the proxy down and
\* deletes the TAP, which may fail too; a write that failed may leave a part of
\* the file.
StartEgress(ok) ==
  /\ proxyUp' = ok
  /\ tap' \in IF ok THEN {TRUE} ELSE MayStay(TRUE)
  /\ caFile' \in {ok, TRUE}

Create ==
  /\ hpc = "create"
  /\ \/ /\ "dir" \in MayFail
        /\ hpc' = "failed"
        /\ UNCHANGED hostVars
     \/ /\ stateDir' = TRUE
        /\ \/ ~spec.egress /\ hpc' = "open" /\ UNCHANGED egressVars
           \/ spec.egress /\ hpc' = "open" /\ StartEgress(TRUE)
           \/ /\ spec.egress /\ "egress" \in MayFail
              /\ hpc' = "failed" /\ StartEgress(FALSE)
        /\ UNCHANGED <<mountVars, image>>
  /\ UNCHANGED <<spec, asked, vmVars, guestVars, readVars, wdVars, reportVars>>

\* The copy of the root file system is mounted.  Only an open handle has no VM:
\* spawn returns InvalidState else.
StageRootfs ==
  /\ hpc = "open"
  /\ mounts' = mounts \cup {"rootfs"}
  /\ hpc' = "staging"
  /\ UNCHANGED <<spec, asked, vmVars, guestVars, readVars, wdVars, stateDir, left, image,
                 egressVars, reportVars>>

\* An umount of what was just mounted at m.  It may fail, and under it there may
\* be a mount that an earlier spawn gave up.
Umount(m) ==
  \/ mounts' = (mounts \ {m}) \cup (left \cap {m}) /\ UNCHANGED left
  \/ "umount" \in MayFail /\ left' = left \cup {m} /\ UNCHANGED mounts

\* stage_firecracker_payload returns without an umount when the worker is not
\* found.  Whether the umount worked is not looked at (unmount_path).
StagePayload ==
  /\ hpc = "staging"
  /\ \/ /\ "resolve" \in MayFail
        /\ left' = left \cup {"rootfs"} /\ hpc' = "open" /\ UNCHANGED mounts
     \/ /\ Umount("rootfs")
        /\ hpc' = "image" \/ ("stage" \in MayFail /\ hpc' = "open")
  /\ UNCHANGED <<spec, asked, vmVars, guestVars, readVars, wdVars, stateDir, image,
                 egressVars, reportVars>>

\* The workspace image is made anew and, to be seeded, mounted.  mkfs and mount
\* may refuse an image that is still mounted.
MakeImage ==
  /\ hpc = "image"
  /\ \/ "stage" \in MayFail /\ hpc' = "open" /\ UNCHANGED <<image, saved, mounts>>
     \/ /\ image' = TRUE /\ saved' = FALSE
        /\ \/ /\ "stage" \in MayFail \/ "seed" \in left
              /\ hpc' = "open" /\ UNCHANGED mounts
           \/ spec.workspace /\ hpc' = "seed" /\ mounts' = mounts \cup {"seed"}
           \/ ~spec.workspace /\ hpc' = "start" /\ UNCHANGED mounts
  /\ UNCHANGED <<spec, asked, vmVars, guest, status, readyLine, statusLine, readVars, wdVars,
                 stateDir, left, egressVars, reportVars>>

\* The rest of seed_from_host.  umount_image fails only if umount could not be
\* run; when umount itself fails, the VM is started all the same.
Seed ==
  /\ hpc = "seed"
  /\ \/ Umount("seed") /\ hpc' = "start"
     \/ /\ {"stage", "umount"} \cap MayFail # {}
        /\ left' = left \cup {"seed"} /\ hpc' = "open" /\ UNCHANGED mounts
  /\ UNCHANGED <<spec, asked, vmVars, guestVars, readVars, wdVars, stateDir, image,
                 egressVars, reportVars>>

\* The VM process is started.
StartVm ==
  /\ hpc = "start"
  /\ \/ /\ vm' = "running" /\ killers' = {}
        /\ guest' = "off" /\ status' = "none" /\ asked' = FALSE
        /\ hpc' = "api"
     \/ "stage" \in MayFail /\ hpc' = "open" /\ UNCHANGED <<vmVars, guest, status, asked>>
  /\ UNCHANGED <<spec, saved, readyLine, statusLine, readVars, wdVars, hostVars, reportVars>>

\* The VM is configured with PUT requests to its API, the last of which starts
\* the guest; every answer must be a success.
Configure ==
  /\ hpc = "api"
  /\ \/ vm = "running" /\ guest' = "boot" /\ hpc' = "connect"
     \/ (vm # "running" \/ "boot" \in MayFail) /\ hpc' = "bail" /\ UNCHANGED guest
  /\ UNCHANGED <<spec, asked, vmVars, status, saved, readyLine, statusLine, readVars,
                 wdVars, hostVars, reportVars>>

\* The four vsock ports are connected, each tried for 30 s.
Connect ==
  /\ hpc = "connect"
  /\ \/ guest = "listening" /\ guest' = "accepted" /\ hpc' = "ready"
     \/ (vm # "running" \/ "boot" \in MayFail) /\ hpc' = "bail" /\ UNCHANGED guest
  /\ UNCHANGED <<spec, asked, vmVars, status, saved, readyLine, statusLine, readVars,
                 wdVars, hostVars, reportVars>>

\* READY is read, and not a byte more; the reader and the watchdog start.
ReadReady ==
  /\ hpc = "ready" /\ readyLine
  /\ readyLine' = FALSE
  /\ reader' = "reading"
  /\ wd' = IF spec.timeout THEN "armed" ELSE "none"
  /\ hpc' = "spawned"
  /\ UNCHANGED <<spec, asked, vmVars, guest, status, saved, statusLine, noted, exited,
                 cancel, killedBy, hostVars, reportVars>>

\* No READY: end of file, the read timeout, or another line.
ReadyFails ==
  /\ hpc = "ready"
  /\ (vm # "running" /\ ~readyLine) \/ "boot" \in MayFail
  /\ hpc' = "bail"
  /\ UNCHANGED <<spec, asked, vmVars, guestVars, readVars, wdVars, hostVars, reportVars>>

\* Mutant: the VM process is waited for but not killed.
BailNoKill ==
  /\ hpc = "bail"
  /\ hpc' = "bailwait"
  /\ UNCHANGED <<spec, asked, vmVars, guestVars, readVars, wdVars, hostVars, reportVars>>

\* cleanup_failed_spawn
Bail ==
  /\ hpc = "bail"
  /\ SendKill("handle")
  /\ hpc' = "bailwait"
  /\ UNCHANGED <<spec, asked, vm, guestVars, readVars, wdVars, hostVars, reportVars>>

\* Mutant: the killed VM process is not waited for.
BailWaitNot ==
  /\ hpc = "bailwait"
  /\ hpc' = "open"
  /\ readyLine' = FALSE /\ statusLine' = "none"
  /\ UNCHANGED <<spec, asked, vmVars, guest, status, saved, readVars, wdVars, hostVars,
                 reportVars>>

BailWait ==
  /\ hpc = "bailwait" /\ vm = "dead"
  /\ vm' = "none"
  /\ readyLine' = FALSE /\ statusLine' = "none"
  /\ hpc' = "open"
  /\ UNCHANGED <<spec, asked, killers, guest, status, saved, readVars, wdVars, hostVars,
                 reportVars>>

-----------------------------------------------------------------------------
(* The guest and the VM process                                             *)

\* zk-init has read its config, mounted the workspace and listens.
GuestListens ==
  /\ guest = "boot"
  /\ guest' = "listening"
  /\ UNCHANGED <<spec, hpc, asked, vmVars, status, saved, readyLine, statusLine, readVars,
                 wdVars, hostVars, reportVars>>

\* zk-init has started the worker and writes READY.
GuestReady ==
  /\ guest = "accepted"
  /\ guest' = "run" /\ readyLine' = TRUE
  /\ UNCHANGED <<spec, hpc, asked, vmVars, status, saved, statusLine, readVars, wdVars,
                 hostVars, reportVars>>

\* zk-init's wait returns: the worker exited, or died of a signal, forwarded by
\* the control thread or, for SIGKILL, sent by the guest's own kernel.
WorkerEnds(s) ==
  /\ guest = "run"
  /\ s = "sigterm" => asked
  /\ guest' = "ended" /\ status' = s
  /\ UNCHANGED <<spec, hpc, asked, vmVars, saved, readyLine, statusLine, readVars, wdVars,
                 hostVars, reportVars>>

\* Mutant: the file systems are not synced before the status is told.
GuestSyncNot ==
  /\ guest = "ended"
  /\ guest' = "synced"
  /\ UNCHANGED <<spec, hpc, asked, vmVars, status, saved, readyLine, statusLine, readVars,
                 wdVars, hostVars, reportVars>>

\* sync(), so that the workspace is complete before the host can know.
GuestSync ==
  /\ guest = "ended"
  /\ guest' = "synced" /\ saved' = TRUE
  /\ UNCHANGED <<spec, hpc, asked, vmVars, status, readyLine, statusLine, readVars, wdVars,
                 hostVars, reportVars>>

\* Mutant: a worker without an exit code is told as EXIT 0.
GuestTellZero ==
  /\ guest = "synced"
  /\ guest' = "told"
  /\ statusLine' = IF status \in {"sigterm", "sigkill"} THEN "exit0" ELSE status
  /\ UNCHANGED <<spec, hpc, asked, vmVars, status, saved, readyLine, readVars, wdVars,
                 hostVars, reportVars>>

\* EXIT or SIGNAL is written; zk-init then waits for its control thread.
GuestTell ==
  /\ guest = "synced"
  /\ guest' = "told" /\ statusLine' = status
  /\ UNCHANGED <<spec, hpc, asked, vmVars, status, saved, readyLine, readVars, wdVars,
                 hostVars, reportVars>>

\* The VM process ends and the guest with it.  Of what was written to the
\* control connection, a prefix has reached the host's socket.
VmEnds ==
  /\ vm = "running"
  /\ vm' = "dead" /\ guest' = "off" /\ asked' = FALSE
  /\ status' = IF guest = "run" THEN "lost" ELSE status
  /\ \/ UNCHANGED <<readyLine, statusLine>>
     \/ UNCHANGED readyLine /\ statusLine' = "none"
     \/ readyLine' = FALSE /\ statusLine' = "none"
  /\ UNCHANGED <<spec, hpc, killers, saved, readVars, wdVars, hostVars, reportVars>>

\* It is killed; or it ends by itself, as when zk-init returns.
VmKilled == killers # {} /\ VmEnds
VmDies == killers = {} /\ VmEnds

-----------------------------------------------------------------------------
(* The host's threads                                                       *)

\* A status line is stored, and then flagged for the watchdog.
ReaderStore ==
  /\ reader = "reading" /\ statusLine # "none"
  /\ noted' = statusLine /\ statusLine' = "none"
  /\ reader' = "mark"
  /\ UNCHANGED <<spec, hpc, asked, vmVars, guest, status, saved, readyLine, exited, wdVars, hostVars, reportVars>>

ReaderMark ==
  /\ reader = "mark"
  /\ exited' = TRUE
  /\ reader' = "done"
  /\ UNCHANGED <<spec, hpc, asked, vmVars, guestVars, noted, wdVars, hostVars, reportVars>>

\* End of file, or an error.
ReaderEof ==
  /\ reader = "reading"
  /\ (vm # "running" /\ statusLine = "none") \/ "ctl" \in MayFail
  /\ reader' = "done"
  /\ UNCHANGED <<spec, hpc, asked, vmVars, guestVars, noted, exited, wdVars, hostVars,
                 reportVars>>

\* Mutant: the VM is killed when the deadline passes, before the reason is recorded.
WatchdogExpireKills ==
  /\ wd = "armed"
  /\ wd' = IF exited THEN "done" ELSE "mark"
  /\ IF exited THEN UNCHANGED killers ELSE SendKill("watchdog")
  /\ UNCHANGED <<spec, hpc, asked, vm, guestVars, readVars, cancel, killedBy, hostVars,
                 reportVars>>

\* The deadline is looked at last, so it also counts when the loop was left
\* because of the cancel.
WatchdogExpire ==
  /\ wd = "armed"
  /\ wd' = IF exited THEN "done" ELSE "mark"
  /\ UNCHANGED <<spec, hpc, asked, vmVars, guestVars, readVars, cancel, killedBy, hostVars,
                 reportVars>>

\* Mutant: a closed channel counts as a cancel.
WatchdogQuitOnClose ==
  /\ wd = "armed" /\ (cancel \/ exited \/ hpc = "dropped")
  /\ wd' = "done"
  /\ UNCHANGED <<spec, hpc, asked, vmVars, guestVars, readVars, cancel, killedBy, hostVars,
                 reportVars>>

WatchdogQuit ==
  /\ wd = "armed" /\ (cancel \/ exited)
  /\ wd' = "done"
  /\ UNCHANGED <<spec, hpc, asked, vmVars, guestVars, readVars, cancel, killedBy, hostVars,
                 reportVars>>

\* The reason is recorded before the VM is killed.
WatchdogMark ==
  /\ wd = "mark"
  /\ killedBy' = "WallClock"
  /\ wd' = "kill"
  /\ UNCHANGED <<spec, hpc, asked, vmVars, guestVars, readVars, cancel, hostVars, reportVars>>

WatchdogKill ==
  /\ wd = "kill"
  /\ SendKill("watchdog")
  /\ wd' = "done"
  /\ UNCHANGED <<spec, hpc, asked, vm, guestVars, readVars, cancel, killedBy, hostVars,
                 reportVars>>

-----------------------------------------------------------------------------
(* kill, destroy and the dropped handle                                     *)

\* A message is written to the control connection, or it is not.
Write(ok) == ok \/ vm # "running" \/ "ctl" \in MayFail

\* Terminate: the VM is killed only when zk-init cannot be told.
Terminate ==
  /\ hpc = "spawned"
  /\ \/ Write(TRUE) /\ asked' = (asked \/ guest # "off") /\ UNCHANGED killers
     \/ Write(FALSE) /\ SendKill("handle") /\ UNCHANGED asked
  /\ UNCHANGED <<spec, hpc, vm, guestVars, readVars, wdVars, hostVars, reportVars>>

\* Kill: zk-init is told, if it can be, and given half a second, then the VM is
\* killed.  A worker may die of SIGKILL without being told, so that it was told
\* is not kept.
Kill ==
  /\ hpc = "spawned"
  /\ hpc' = "grace"
  /\ UNCHANGED <<spec, asked, vmVars, guestVars, readVars, wdVars, hostVars, reportVars>>

GraceOver ==
  /\ hpc = "grace"
  /\ SendKill("handle")
  /\ hpc' = "spawned"
  /\ UNCHANGED <<spec, asked, vm, guestVars, readVars, wdVars, hostVars, reportVars>>

\* The watchdog is cancelled and the control connection closed for writing.
DestroyCancel ==
  /\ hpc \in {"open", "spawned"}
  /\ cancel' = TRUE
  /\ hpc' = "vmkill"
  /\ UNCHANGED <<spec, asked, vmVars, guestVars, readVars, wd, killedBy, hostVars,
                 reportVars>>

\* The VM is killed at once: destroy sends no TERMINATE.
DestroyKill ==
  /\ hpc = "vmkill"
  /\ SendKill("handle")
  /\ hpc' = "vmwait"
  /\ UNCHANGED <<spec, asked, vm, guestVars, readVars, wdVars, hostVars, reportVars>>

\* Mutant: the killed VM process is not waited for.
DestroyWaitNot ==
  /\ hpc = "vmwait"
  /\ hpc' = "take"
  /\ UNCHANGED <<spec, asked, vmVars, guestVars, readVars, wdVars, hostVars, reportVars>>

DestroyWait ==
  /\ hpc = "vmwait"
  /\ \/ vm = "none" /\ UNCHANGED vm
     \/ vm = "dead" /\ vm' = "reaped"
  /\ hpc' = "take"
  /\ UNCHANGED <<spec, asked, killers, guestVars, readVars, wdVars, hostVars, reportVars>>

\* What the reader has stored by now; it is not waited for.
DestroyTake ==
  /\ hpc = "take"
  /\ exit' = IF noted = "none" THEN "unknown" ELSE noted
  /\ hpc' = "reason"
  /\ UNCHANGED <<spec, asked, vmVars, guestVars, readVars, wdVars, hostVars, reason, exported>>

DestroyReason ==
  /\ hpc = "reason"
  /\ reason' = killedBy
  /\ hpc' = "export"
  /\ UNCHANGED <<spec, asked, vmVars, guestVars, readVars, wdVars, hostVars, exit, exported>>

\* export_to_host, if there is an image, mounts it; an error is only logged.
DestroyExport ==
  /\ hpc = "export"
  /\ \/ spec.workspace /\ image /\ hpc' = "copy" /\ mounts' = mounts \cup {"export"}
     \/ /\ ~(spec.workspace /\ image) \/ "export" \in MayFail \/ "seed" \in left
        /\ hpc' = "remove" /\ UNCHANGED mounts
  /\ UNCHANGED <<spec, asked, vmVars, guestVars, readVars, wdVars, stateDir, left, image,
                 egressVars, reportVars>>

\* What cp finds in the image.  If the host has had it mounted all the time, the
\* new mount may show what the host has in its caches.
InImage == IF ~saved THEN {"stale"}
           ELSE IF "seed" \in left THEN {"stale", "complete"} ELSE {"complete"}

\* cp runs, a failure of it is not noticed, and the image is unmounted; or it
\* could not be run, and the image stays mounted.
DestroyCopy ==
  /\ hpc = "copy"
  /\ \/ /\ exported' \in InImage \/ ("export" \in MayFail /\ exported' = "partial")
        /\ Umount("export")
     \/ /\ "export" \in MayFail
        /\ left' = left \cup {"export"} /\ UNCHANGED <<exported, mounts>>
  /\ hpc' = "remove"
  /\ UNCHANGED <<spec, asked, vmVars, guestVars, readVars, wdVars, stateDir, image,
                 egressVars, exit, reason>>

\* The state directory goes, unless something is mounted in it (what is not may go
\* all the same), and the egress resources after it; only the proxy is sure to.
DestroyRemove ==
  /\ hpc = "remove"
  /\ stateDir' \in IF mounts = {} THEN MayStay(TRUE) ELSE {TRUE}
  /\ image' \in {FALSE, image /\ stateDir'}
  /\ proxyUp' = FALSE
  /\ tap' \in MayStay(tap) /\ caFile' \in MayStay(caFile)
  /\ hpc' = "gone"
  /\ UNCHANGED <<spec, asked, vmVars, guestVars, readVars, wdVars, mountVars, reportVars>>

\* The handle goes without destroy: only the proxy notices.  The VM, the TAP and
\* the files stay, and the watchdog takes the closed channel for no cancel.
DropHandle ==
  /\ "drop" \in MayFail /\ hpc \in {"open", "spawned"}
  /\ proxyUp' = FALSE
  /\ hpc' = "dropped"
  /\ UNCHANGED <<spec, asked, vmVars, guestVars, readVars, wdVars, stateDir, mountVars,
                 image, tap, caFile, reportVars>>

-----------------------------------------------------------------------------
Prepare == StagePayload \/ MakeImage \/ Seed \/ StartVm
Boot == Configure \/ Connect \/ ReadReady \/ ReadyFails \/ Bail \/ BailWait
SpawnGoesOn == Prepare \/ Boot
DestroyGoesOn ==
  \/ DestroyKill \/ DestroyWait \/ DestroyTake \/ DestroyReason
  \/ DestroyExport \/ DestroyCopy \/ DestroyRemove
Guest ==
  GuestListens \/ GuestReady \/ (\E s \in Status : WorkerEnds(s)) \/ GuestSync \/ GuestTell
Reader == ReaderStore \/ ReaderMark \/ ReaderEof
Watchdog == WatchdogExpire \/ WatchdogQuit \/ WatchdogMark \/ WatchdogKill

Next ==
  \/ Create \/ StageRootfs \/ SpawnGoesOn
  \/ Guest \/ VmKilled \/ VmDies
  \/ Reader \/ Watchdog
  \/ Terminate \/ Kill \/ GraceOver
  \/ DestroyCancel \/ DestroyGoesOn \/ DropHandle

Spec == Init /\ [][Next]_vars

\* The handle's calls run on the caller's thread and the reads that wait for the
\* guest time out, the host's threads are scheduled, and the kernel delivers
\* SIGKILL.  The guest owes nothing.
FairSpec ==
  /\ Spec
  /\ WF_vars(SpawnGoesOn) /\ WF_vars(GraceOver) /\ WF_vars(DestroyGoesOn)
  /\ WF_vars(Reader) /\ WF_vars(Watchdog) /\ WF_vars(VmKilled)

-----------------------------------------------------------------------------
(* Properties                                                               *)

\* A report that carries the worker's status never goes with a workspace copied
\* before the worker's last writes: zk-init syncs, then tells, and destroy kills
\* the VM whether it was told or not (init_shim.rs, destroy).  An image that the
\* host could not unmount before the VM had it is beyond that.
ExportComplete ==
  (hpc = "gone" /\ exit \in Status /\ "seed" \notin left) => exported # "stale"

\* A running VM has its images to itself: whatever the host mounts, to stage the
\* worker, to seed the workspace or to copy it, on a retry of a failed spawn too,
\* it has unmounted or given up before there is a VM, or mounts it after.
ImageUnshared == vm = "running" => mounts \subseteq left

\* Nothing is taken away from under a VM that runs, neither its files nor, unless
\* the handle is dropped, its network, and no handle ends with a VM process that
\* nobody has waited for, or with its proxy.
CleansUpInOrder ==
  /\ vm = "running" => stateDir /\ image
  /\ (vm = "running" /\ spec.egress) => tap /\ caFile /\ (proxyUp \/ hpc = "dropped")
  /\ hpc \in {"gone", "failed"} => vm \in {"none", "reaped"} /\ ~proxyUp

\* A VM that the watchdog killed is reported as killed by the wall clock, however
\* the watchdog's two steps fall between those of destroy.
TimeoutIsReported == (hpc = "gone" /\ "watchdog" \in killers) => reason = "WallClock"

\* A worker under a timeout ends, also when its handle is dropped without
\* destroy or destroy's cancel races the deadline.
WorkerEventuallyEnds == (wd = "armed") ~> (guest # "run")

\* spawn, kill and destroy return, whatever the guest does.
CallsReturn ==
  (hpc \in SpawnSteps \cup DestroySteps \cup {"grace"}) ~> (hpc \in {"open", "spawned", "gone"})

-----------------------------------------------------------------------------
(* Refinement: the handle as its user sees it.                              *)

C == INSTANCE Capsule WITH
       phase  <- IF hpc \in {"create", "open", "spawned", "grace", "vmkill", "vmwait", "take"}
                            \cup SpawnSteps
                   THEN "open" ELSE "closed",
       worker <- IF reader = "none" THEN "none"
                 ELSE IF noted = "none" THEN "running" ELSE status,
       report <- IF hpc \in {"reason", "export", "copy", "remove", "gone"} THEN exit ELSE "none"

\* The Firecracker backend implements the CapsuleHandle contract: one worker, and
\* a report that has, if any, the status the worker really ended with.
ImplementsCapsule == C!Spec
=============================================================================
