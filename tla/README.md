# TLA+ verification of ZeptoCapsule

ZeptoCapsule runs an untrusted worker in a capsule: a plain child process, a set
of Linux namespaces, or a Firecracker microVM, with a wall-clock limit, resource
limits, and optionally an egress proxy that decides which hosts the worker may
talk to. This directory holds TLA+ modules for the parts of the crate where
several actors share state or where an operation may stop half-way, TLC
configurations that check them on small instances, and proofs that TLAPS checks
for every value of the constants.

`PROJECT.json` lists the components, the runs, the source lines of every
definition, a mutated definition for every property that shows the property can
fail, the hazards, and the theorems.

To repeat a check: `tlc -config ns_one.cfg MCNamespaceCapsule`; to repeat a proof:
`tlapm NamespaceCapsuleProofs.tla`.

## 1. Inventory

| Component | State it keeps | Operations | Meets others through |
|---|---|---|---|
| Public API (`lib.rs`, `backend.rs`) | none; a `Capsule` owns a boxed handle | `create` (validate, try, fall back), `spawn`, `kill`, `destroy` | calls one backend |
| Specs (`types.rs`) | the spec | `validate`, `validate_primary`, `security_level` | read by everything |
| Probe (`probe.rs`) | none | `probe` | nothing in the crate uses its answer |
| Process backend (`process.rs`) | `ProcessState` under a mutex (child, exit, `killed_by`), cancel sender, egress runtime | `create`, `spawn`, `kill`, `destroy`, watchdog task, drop | the watchdog shares the mutex; kernel and worker act on the child; egress proxy |
| Namespace backend (`namespace.rs`) | `NamespaceState` under a mutex (pid, cgroup, staged init, diagnostic pipe, `killed_by`), egress runtime | the same, with `do_clone` and its error path | the sync and the diagnostic pipe to the child; the descriptor table shared with other capsules' spawns |
| Cgroups (`cgroup.rs`) | a directory of the host, named after a counter of the host process | `create`, `add_pid`, `apply_limits`, `detect_violation`, `destroy` | kernel counters; directories and workers that earlier host processes left |
| Init shim (`init_shim.rs`, `zk-init`) | none on the host | mounts, exec, reaping; guest mode with a control channel | pipes or vsock |
| Rootfs, seccomp | none | straight-line set-up in the child | — |
| Firecracker backend (`firecracker.rs` and its API, vsock and image helpers) | VM process, state directory, control channel, `killed_by`, egress runtime | stage, boot, `spawn`, `kill`, `destroy`, watchdog | control channel to the guest |
| Slot pools (`egress/netns.rs`, `egress/fc_net.rs`) | one atomic word per host process; interfaces of the host | `allocate_slot`, `release_slot`, `setup_host_side`, `teardown` | all threads of the process; all processes of the host |
| Egress proxy (`egress/proxy.rs`) | listener, policy, audit log; one task per connection | accept, plain and CONNECT requests, a decision before the tunnel and one inside it, pinned upstream connection, drain, shutdown | rules, SSRF guard, judge, CA; client, resolver, upstream |
| Judge (`egress/judge.rs`) | circuit breaker under a mutex | `decide`, `allow_call`, `record_success`, `record_failure` | all connections of a capsule |
| Rules (`egress/rules.rs`, `egress/types.rs`) | compiled policy | `compile`, `evaluate` | the proxy |
| SSRF guard (`egress/ssrf.rs`) | none | `classify_v4`, `classify_v6` | the proxy |
| Per-capsule CA (`egress/ca.rs`) | leaf cache under a mutex | `leaf_for` | the tunnels of a capsule |
| `zk-policy-build` | none | a policy from a report | the audit log, the rules |

What is hard in this code, and what has to be right:

* *Two owners of one child.* The watchdog, `kill`, `destroy`, the drop of the handle
  and the kernel all act on the worker. A pid must not be signalled after it was
  reaped, a worker must not be left running, a worker under a timeout must end,
  and the report must be the worker's own.
* *Set-up across a fork.* The namespace backend clones first and configures
  later, with the child behind a barrier; any step may fail with the child
  already there.
* *Lock-free allocation.* Slots are claimed by compare-and-swap and must be
  exclusive; the interfaces they name are host-global and survive crashes.
* *State read before an await.* The breaker is consulted before a call and updated
  after it, by many connections.
* *A guest behind a channel.* With Firecracker the host learns of the worker only
  from a line on a vsock connection that a thread reads, while the VM may die, be
  killed or be waited for; the workspace is a disk image both sides could mount.
* *A decision and its use are far apart.* Between the look-up that the guard judged and
  the connection that is made lie two evaluations, a judge call and two handshakes;
  the audit log must be true of what went out, whichever step failed, and destroy
  drains it while tasks are still running.
* *Names that start again.* Cgroup directories are numbered per host process and
  outlive it, with limits, counters and sometimes a worker.
* *Fallback.* The chain is validated once, and walked without being looked at again.

## 2. Modules

| Module | Models | Kind |
|---|---|---|
| `Capsule` | the promise of the `CapsuleHandle` trait | abstract |
| `ProcessCapsule` | `process.rs` | detailed, implements `Capsule` |
| `NamespaceCapsule` | `namespace.rs`, `cgroup.rs` as it is used there, the child | detailed, several capsules in one host process, each implements `Capsule` |
| `FirecrackerCapsule` | `firecracker.rs`, the guest mode of `init_shim.rs`, `workspace_image.rs` as it is used | detailed, implements `Capsule` |
| `LeasePool` | what a slot pool promises | abstract |
| `SlotPool` | the pool and interface set-up of `netns.rs` | detailed, implements `LeasePool` |
| `JudgeBreaker` | `JudgeClient::decide` and `CircuitBreaker` | detailed |
| `CapsuleCreate` | `create`, `try_create`, `validate` | detailed |
| `EgressGate` | what the proxy promises for a connection | abstract |
| `RuleEngine` | `compile` and `evaluate` | operators |
| `SsrfGuard` | the address classes | operators, with the documented networks as reference |
| `PolicyBuild` | `build_policy` of `zk-policy-build` | operators |
| `EgressProxy` | `proxy.rs` and the leaf cache of `ca.rs`, composed with the three above | detailed, implements `EgressGate` |
| `CgroupTree` | `cgroup.rs` over the life of several host processes | detailed |
| `MCNamespaceCapsule`, `MCSlotPool`, `MCEgressProxy`, `MCCgroupTree` | instances for TLC | |
| `*Proofs` | theorems about the module they are named after | |

### ProcessCapsule

One handle, its watchdog task, its worker, and the kernel. `hpc` is where the
handle is: usable (`open`), in a step of `destroy` (`lock`, `try`, `poll`, `egress`,
`report`), or at its end (`gone` with a report, `failed`, `dropped`). `lock` is the
mutex of `ProcessState`; `stored`, `exit`, `killedBy` are its fields; `cancel` is the oneshot
channel; `killers` remembers who has sent SIGKILL. `destroy` is split where the code
awaits or releases the lock, and the watchdog between its `kill` and the lock it
takes to record the reason. The 20 polls of `destroy` are the constant `Polls`. `MayFail`
names the calls that may fail: `wait` (`try_wait`), `egress` (a step of `start_egress`) and
`remove` (the `remove_file` of the CA, which the code logs and forgets).

### NamespaceCapsule

Any number of capsules, each with a host thread. `spawn` is split at every step the
child or another thread can run in between: pipes, clone, closing the child's
ends, maps, veth, cgroup, sync byte, and on an error sync byte, SIGKILL, waitpid.
`diagW[c]` is the set of processes that hold the write end of the diagnostic pipe of
`c`; clone copies the host's descriptors, exec and exit drop them, as the kernel
does. `Serial` says whether callers keep their spawns apart. `SIGTERM` is left out, since
the kernel does not deliver it to a PID 1 without a handler.

The child and the worker are two actors. The child sets itself up and execs zk-init
(`ChildExec`), which sets up the guest file system and may give up there (`InitFails`), runs the
worker (`WorkerStarts`, `WorkerEnds`) and exits with what it makes of the worker's end
(`ChildExit`): the worker's code, and 1 for a worker that a signal ended or that it could not
start (`InitCode`). `child`, `status` are the process `waitpid` knows, `worker` is the other one;
killing the child kills the worker with it, and hides how a worker ended whose code zk-init had
not passed on.

`MayFail` says which calls may fail. `stage` is a failure of `stage_init_binary`, which leaves
what it copied, since the guard does not exist yet; `clone` one under the guard. `wait` is an
interrupted `waitpid`: on the error path of `spawn` nobody looks at its result, so the child is left
behind (`left`, with the descriptors it holds in `leftW`), and `destroy` returns an error. `cleanup`
is a removal whose failure is ignored (`MayStay`); for the cgroup's directory, which a live
process keeps in place, that is `Rmdir`. Bound: of the children one capsule leaves behind only the
last may still be dying.

### FirecrackerCapsule

One handle, the VM process, zk-init with the worker in the guest, and the two host
threads: the reader of the control connection and the watchdog. `spawn` is split into
the staging of the payload in a copy of the root file system (`StageRootfs`, `StagePayload`), the
workspace image and its seeding (`MakeImage`, `Seed`), the start of the VM process, the API
requests (`Configure`), the vsock connections (`Connect`), the wait for READY and, on an error, kill
and wait; `destroy` into cancel, kill, wait, and then status, reason, mount, copy and removal,
which the two threads can still come between. The control connection is `readyLine`, `statusLine` (guest to host)
and `asked` (host to guest); when the VM ends, the host keeps any prefix of what the
guest wrote. `saved` says that the worker's last writes are in the image. `mounts` is what the
host has mounted, `left` the mounts it has given up, because an umount failed or was skipped:
`umount_image` and `unmount_path` do not fail when `umount` does, so a VM may be started with
its image still mounted, and the copy of `destroy` may then be stale. `MayFail` says which calls
may fail; `umount` and `cleanup` (the removals of `destroy` and of a failed `create`) are failures
the code does not look at, and a `cp` that fails leaves a partial copy unnoticed. `drop` lets the
caller drop the handle. Errors before the state directory is made belong to
`CapsuleCreate`. The paths, boot arguments, JSON bodies and the serial log are left out.

### SlotPool

Threads of host processes run `setup_host_side` and `teardown`. `slotBits[p]` is
`SLOT_BITS` of process `p` as a set, `snap[t]` the word thread `t` loaded, `link[s]` who
created the host's interface `zk_h_<s>`. Every `ip` command is a step that may fail, the
capsule's network namespace may take the interface with it, `destroy` may be given
up before `teardown`, and a process may crash and start over with an empty word and
its interfaces still there. `fc_net.rs` has the same allocator and the same order of
steps with one command fewer.

### JudgeBreaker

`failures` and `open` are the breaker's fields, `open` as the time left; `call[c]` is the
time left to the call of connection `c`. `Tick` is the passing of time. `allow_call` is one
step, the outcome another, so any number of outcomes of other connections come
in between. `sinceTrip` and `answered` are history for the properties; `sinceTrip` counts to
`Horizon`, the open period and one timeout, after which nothing depends on it.

### CapsuleCreate

A spec and a host are chosen at the start; `create` validates and then tries the
requested level and the chain. A level is a pair of isolation and profile.

### EgressProxy, RuleEngine, SsrfGuard, PolicyBuild

Every connection is a task; `pc[c]` is the await it is at. `req[c]` and `inner[c]` are the
heads read, `ip[c]` the one address the look-up gave and the guard passed, `action[c]` the
last decision, `leaf[c]` and `cache` the certificates, `up[c]` the address connected to,
`sent[c]` whether anything was written to it. `audit` is the channel of decisions, `report`
what `destroy` drained from it; `handle` is the handle's place, and tasks go on after it is
closed. Reading the head, the look-up, the judge, the refusal, the leaf, each
handshake, the connect, the write, the entry and the copying are separate steps, and
every one that can fail may. What the judge answers is any verdict: `JudgeBreaker` has how
it gets there.

Strings are model values: `Lower`, `EndsWith`, `StartsWith`, `GlobHit`, `Concat` and `AfterScheme`
are constants that say what the string functions answer, so that `RuleEngine` has the rule
order, the defaults and the combination of host, method and path, and the theorems
hold for any reading of strings. Addresses are tuples of octets or 16-bit groups, and
`SsrfGuard` has the real arithmetic. `PolicyBuild` makes from a report the rules the tool
writes; `EgressProxy` compiles them again and compares with the report.

### CgroupTree

Several host processes, one after another, and their capsules. `next[p]` is
`NEXT_CAPSULE_ID`; `maker`, `inside`, `inforce`, `events` are a directory's contents: who made it,
whose processes are in it, who wrote a limit last, and whose violations its counters
hold. A host may die between any two steps and leave all of these behind. `create`
takes a directory that exists; when it fails and `cgroup_required` holds, the error path lets
the child go, kills it and waits (`BailSync`, `BailKill`, `BailWait`). `add_pid` and each limit is a
step whose error is dropped. `DestroyFails` is a `destroy` whose wait is interrupted: the `Cgroup` is
dropped with the dying worker in it. Removal is three attempts, each of which succeeds only on
an empty directory and may fail on one; after the third the directory is left there.

### Capsule, LeasePool and EgressGate

`Capsule` has one worker, and one report that carries the worker's status if it had
ended when `destroy` looked, and is `unknown` or missing otherwise. `Told` is what a backend may
say of each end: the end itself with a process or a VM, zk-init's code or SIGKILL with
namespaces. What its user may draw from that is `ReportTrue` and `ReportFinal`. `LeasePool` grants a
slot no other thread of the process holds and takes it back. `EgressGate` sends nothing
before a connection is admitted, nothing after it is closed, and records what was sent.

## 3. Runs

| Run | Instance | Shows |
|---|---|---|
| `process` | 2 polls, waits, egress set-up and removals may fail | `PidPinned`, `LeftBehindIsDoomed`, implements `Capsule`, `WorkerEventuallyEnds`, `DestroyReturns` |
| `ns_one` | 1 capsule, every spec, every fault but the drop | `ConfiguredOrDoomed`, `InitErrorHonest`, `CleansUpInOrder`, implements `Capsule`, `WorkerEventuallyEnds`, `CallsReturn` |
| `ns_two` | 2 symmetric capsules, spawns apart, failing cgroups, interrupted waits, dropped handles | `DiagReaderAlone` |
| `fc` | 1 capsule, every spec, every fault | `ExportComplete`, `ImageUnshared`, `CleansUpInOrder`, `TimeoutIsReported`, implements `Capsule`, `WorkerEventuallyEnds`, `CallsReturn` |
| `slot_pool` | 3 threads, 2 slots, 1 process, every fault, crashes | `SlotExclusive`, `OwnLinkIntact`, `BitFollowsOwner`, implements `LeasePool`, `LockFree` |
| `judge` | 3 callers, threshold 3, open 3 ticks, timeout 4 | `FailuresBounded`, `TripHoldsIfSilent`, `RecoversInTime`, `BreakerRecovers` |
| `create` | every spec with up to 2 fallbacks, every host | `RunsOnlyValid`, `FirstSupported` |
| `egress` | 2 connections, 2 hosts of which one in two spellings, 5 addresses, 3 policies, every failure, a drain at any time | `UpstreamVetted`, `AuditHonest`, `LeafMatches`, `ReportComplete`, `DraftExact`, implements `EgressGate`, `DecisionEnds` |
| `cgroup` | 2 capsules of a host that may die, 1 of its successor, every write, wait and rmdir may fail | `LimitsHold`, `ReportOwn`, `UsedDirStays` |

Bounds. Two polls are enough for a worker that ends before, between and after
polls. Two capsules are the fewest that can share a descriptor, and a third adds
no new kind of holder; what one capsule's child runs into by itself is in `ns_one`, so `ns_two`
has the faults that decide how long a descriptor is held. Three threads on two slots fill the pool, and let two
threads race for a slot while a third changes the word and changes it back. With
three callers two failures can be in flight at the trip; a timeout longer than the
open period lets a call outlive the trip it caused. Chains of two have a first, a
last and a level after one that is not supported. `fc` has no bound: one
capsule's states are finite, and a failed spawn may be retried without end. Two connections
are the fewest that share the leaf cache and the log; the five addresses are the first
one outside 172.16/12 and the last ones of four blocked networks, since off by one is
what a table gets wrong (the proof is for every address). The policies have a rule
that applies, a rule that applies only to the tunnel or only to what is inside it, a
judge, and no guard. Three capsules with `MaxId` 2 let the successor meet a directory
with limits, counters and a worker, and one that is free; of the three specs one asks for
memory, one for pids and one, with `cgroup_required`, for nothing, so that a successor meets
limits that it does not write itself (the theorems are for any limits). `CHECK_DEADLOCK FALSE` is set
where a behaviour ends with the capsule.

`cgroup` has one host process at a time (`Together` is `FALSE`). With two at once the
directories are shared from the start: `ReportOwn` and `UsedDirStays` fail, and `LimitsHold`
does if capsules of the two set the same limit.

`CapsuleCreate` also shows that the comparison of `security_level` never decides what
runs: only Firecracker (on Linux) or everything but Process (elsewhere) is ever
`NotSupported`, so a chain is never walked from a weaker level to a stronger one that
works.

### Disagreements between code and text

Each of these runs is expected to fail, and its counterexample is a run of the code.

| Run | What happens |
|---|---|
| `ns_unconfigured` | the error path of `do_clone` writes the sync byte before it kills, so a child can exec the worker without its network |
| `ns_diag_shared` | with overlapping spawns a child inherits another capsule's diagnostic pipe, and that capsule's `destroy` waits for the wrong worker |
| `egress_unjudged` | with `default_action = Judge` and no judge configured, a request nobody allowed is forwarded, and logged as allowed |

Others can be read off the models without a run of their own:

* `netns.rs:133`, `fc_net.rs:110`: a failing first `ip` command returns with `?` and keeps its slot
  for the life of the process; `firecracker.rs:983` has "Errors at any step roll back partial
  state." `BitFollowsOwner` names this early return and the others that leave a bit behind.
* `process.rs:87`: the watchdog kills, `destroy` takes the lock before it records the reason,
  and a timeout is reported without one;
  `docs/plans/2026-03-08-kernel-redesign.md:314` has `killed_by` say "Why ZeptoCapsule killed it".
* `process.rs:79`: the watchdog does not look whether the worker has ended; a deadline
  between the worker's exit and `destroy` is reported as `killed_by = WallClock`.
* `process.rs:271`, `namespace.rs:234`, `firecracker.rs:878` and `885`, `fc_net.rs:132`: a CA file, state
  directory, TAP or veth that cannot be removed is logged or ignored, and stays. `CaFileGoes` and
  `CleansUpInOrder` are what holds of the clean-up whichever of its steps fails.
* `process.rs:259`: a failing `try_wait` leaves `destroy` before the CA file is removed;
  `docs/plans/2026-03-08-kernel-redesign.md:334` has "temp files cleaned".
* `process.rs:228`: `destroy` before `spawn` is `Ok`; `README.md:273` says `InvalidState`.
* `namespace.rs:103`: a dropped handle cancels its watchdog and leaves the worker running.
* `namespace.rs:303`: `stage_init_binary` may fail after it has copied the file, and the guard that
  would remove it is only made afterwards.
* `namespace.rs:407`, `422`, `449`: the result of `waitpid` is not looked at, so an interrupted wait
  returns with the killed child never reaped.
* `namespace.rs:445`: with `cgroup_required` and no cgroup, the error path releases the worker before
  it kills it; if the host dies in between, the worker runs on (`RequiredIsConfined`).
* `init_shim.rs:270`: a guest file system or worker that zk-init cannot set up or exec gives exit code
  1 and no `init_error`; `docs/plans/2026-03-09-runtime-robustness-design.md:87` has "empty means
  success or external kill". `InitErrorHonest` is the direction that holds.
* `init_shim.rs:280`: a worker that a signal ended is reported with exit code 1, and `exit_signal` is
  only ever the signal that ended zk-init; a SIGKILL between the worker's end and zk-init's exit
  hides the worker's code. `Told` has both.
* `namespace.rs:439`: the results of `add_pid` and `apply_limits` are discarded also when
  `cgroup_required` holds, so such a worker runs outside its cgroup.
* `namespace.rs:430`: cgroup names start again in every host process, so a capsule may be
  given a directory with older limits, counters or a worker;
  `docs/plans/2026-03-08-kernel-redesign-impl.md:742` has "Each capsule gets its own cgroup".
  `ReportOwn` is about directories the capsule has made itself; `UsedDirStays` is what holds of
  the others.
* `cgroup.rs:46`: a directory that three attempts do not remove is left behind, and a later host
  process finds it.
* `cgroup.rs:59`: one refused fork makes the report say `MaxPids`, for a worker that
  went on and succeeded too.
* `netns.rs:131`: `SLOT_BITS` belongs to a process and `zk_h_<slot>` to the host, so a second
  host process deletes a live interface of the first (`OwnLinkIntact` with two
  processes fails at once).
* `judge.rs:126`: a call that was under way when the breaker tripped succeeds and closes
  it before its time; `judge.rs:6` and `docs/network-egress.md:239` have all Judge actions
  fall back for the whole 10 seconds. `TripHoldsIfSilent` is what does hold.
* `judge.rs:132`: a call that was under way when the breaker tripped and fails later starts the
  open period again, so the breaker may be open for longer than the 10 seconds of
  `judge.rs:6`; `RecoversInTime` bounds it by the open period and one timeout.
* `proxy.rs:216`: the path that is evaluated and logged has the query string;
  `egress/types.rs:195` has "Query string and body intentionally omitted (PII risk)".
* `proxy.rs:306`: a plain refusal whose 403 cannot be written, a write or TLS handshake to
  the upstream that fails, and a decision after the drain are not reported;
  `docs/network-egress.md:264` has every evaluated request append an entry. `ReportComplete` is
  what does hold.
* `proxy.rs:603`: an inner request the judge allowed is logged without the judge's reason.
* `proxy.rs`, the copying: later requests on a plain connection are carried unevaluated.
* `ca.rs:105`: two first handshakes for a host at the same time make two leaves, since
  the lock is released for the signing; either is valid (`LeafMatches`).
* `zk-policy-build.rs:156`: the host of a URL is found by the first `://`, also when it stands
  in a path; the theorems on drafts assume there is none (`PlainUrls`).
* `firecracker.rs:837`: `destroy` kills the VM at once; `docs/firecracker-deployment.md:176`
  has it send TERMINATE, wait, and then kill. In `FirecrackerCapsule` only `Terminate` and
  `Kill`, the caller's, write to the guest.
* `firecracker.rs:842`: `destroy` does not wait for the reader, so a status zk-init has written
  may be reported as unknown.
* `workspace_image.rs:172`: when `umount` exits with an error, `umount_image` warns and returns `Ok`, and
  `firecracker.rs:122` ignores it: the VM is booted on an image that the host still has mounted.
  `ImageUnshared` allows exactly these mounts, and `ExportComplete` excepts the export after one.
  A `cp` that exits with an error is not noticed either.
* `firecracker.rs:136`: a worker that is not found leaves the root file system mounted, and
  with it the state directory after `destroy`.
* `firecracker.rs:387`: a `create` whose egress set-up fails leaves its state directory.
* `types.rs:123`: every Firecracker profile has level 3, so (Firecracker, Standard) may
  fall back to (Namespace, Hardened); `docs/plans/2026-03-09-runtime-robustness-design.md:162`
  says it "can't".
* `namespace.rs:29`: the namespace backend's `create` never returns `NotSupported` on Linux,
  so the step "Fall back to process" of `README.md:197` is not taken there.

## 4. Fairness

Liveness is checked under weak fairness of exactly these:

* `process`: the steps of a `destroy` that was called (a running tokio task), the drop of
  the shared state, the watchdog task (tokio polls a task that is ready, and the
  timer is always armed), and the kernel's delivery of SIGKILL. The worker itself,
  `kill` and the call of `destroy` have none.
* `ns_one`: the steps of a `spawn` or `destroy` under way, the watchdog, the child up to its
  exec and zk-init around the worker (straight-line system calls), and SIGKILL, also to a child
  that was left behind. The worker has none.
* `fc`: the steps of a `spawn`, `kill` or `destroy` under way, the reader and watchdog threads,
  and SIGKILL. The wait for READY and the connections have timeouts (the fault `boot`), so
  no step of the guest is assumed; that the Firecracker process answers its API is,
  since those reads have no timeout in the code.
* `slot_pool`: each thread's own steps; `LockFree` is about the system, not the thread.
* `judge`: time passes, and a call whose time is up fails (the `tokio::time::timeout`
  around it). Upstream is never assumed to answer.
* `egress`: the steps a task takes by itself (tokio polls a task that is ready), where the
  resolver, the judge and the timers return in bounded time. Client and upstream have
  none, so `DecisionEnds` says nothing of the reading of a head and of the copying, which
  have no time limit.

## 5. Proofs

All theorems hold for every value of the constants under the named assumptions of
the modules (finite sets where cardinalities are used, positive bounds, the faults
being known faults, null values being different from real ones).

* `SlotPoolProofs`. `SlotExclusive` alone is not preserved by the exchange: the inductive
  invariant adds that a picked bit is clear in the word that was loaded and that
  the bit of a held slot is set. `Exclusion`, `TypeCorrect`; `Refinement` to `LeasePool`;
  `LinkIntact` under the assumption that all threads are in one process;
  `BitsFollowOwners`, an action property, from the same invariant: who sets a bit, who clears
  it (the `release_slot` of its holder, or the end of the whole process) and which steps leave it
  behind. `SlotsAreNotLost`: in a
  host process that is alone, whose `ip link del` and `add` work and whose destroys reach
  `teardown`, every set bit has an owner, crashes and other failing commands included. It
  needs `NameFree`, that the name stays free between the removal of a stale interface and the
  creation of the new one. `LosersSeeProgress`: between its load
  and its exchange a thread loses only to a thread that took or gave back a slot.
* `ProcessCapsuleProofs`. The invariant says for each place of the handle where the
  child is and whether it is stored (`ChildInv`), that a child nobody looks after has a
  SIGKILL pending (`DoomInv`), that nothing is reported before the reap (`ExitInv`), and what
  is left of the egress runtime. `PidIsPinned`, `NobodyLeftBehind`, `EgressIsReleased` (proxy and
  CA file are there while a worker may use them, and only a failing `remove_file` leaves the file),
  `Refinement` to `Capsule`, `ReportIsTrue`. `DestroyIsBounded` and `TimeoutIsEnforced` add
  `LockInv` (who has the mutex at each place) and `ArmedInv` (when the watchdog leaves its
  post): `destroy` finds the lock free and counts down from `Polls + 4`, and a worker under a
  timeout always has an armed watchdog, a `destroy` before its kill, a drop of the state
  that holds it, or a pending SIGKILL.
* `NamespaceCapsuleProofs`. `Life` (the handle's place determines the child's state and
  what is allocated) is the base of the other invariants: `Conf` (set-up steps
  in order, sync byte last), `Msg` (a message in the pipe is of this spawn's child),
  `PipeInv` (only spawn and own child hold a pipe in use, no child left behind), `Chase` (whom
  the watchdog still looks after, and that nobody is left behind without a SIGKILL) and `Use` (what
  was made for a child stays until it was killed). From them `CleanUpIsOrderly`, `Configured`,
  `InitErrorIsHonest`, `DiagNeverWaits` (if spawns do not overlap), `Refinement` to `Capsule` and
  `ReportIsTrue`, both with zk-init's conversion of the worker's end,
  `CallsAreBounded` (if spawns do not overlap), and `TimeoutIsEnforced`, where a dropped handle
  is excepted because its watchdog is cancelled. `RunsConfigured` is the other side of the run
  `ns_unconfigured`: if none of the host's set-up steps fails, no child passes
  its barrier without what its spec asks for, so the error path is the only way there.
  The assumptions are where the code fails without them.
* `FirecrackerCapsuleProofs`. `VmInv` ties the VM process to the handle's place; `ToldInv` says
  that what is in the connection or stored is how the worker ended and was written after
  the sync; `QuietInv` that a new VM finds no older line; `KillInv` that the reason is there
  before the watchdog's kill and that no kill comes after the reap; `MountInv` that what the host
  has mounted is what it is using or has given up; `UseInv` that what a VM uses is there until it
  was reaped. Together they are
  inductive and give `ExportIsComplete` (unless a mount from seeding was given up),
  `ImageIsUnshared`, `CleanUpIsOrderly`, `TimeoutReported`, `Refinement` to `Capsule` and
  `ReportIsTrue`. `SeedIsUnmounted`: if umounts work and staging does not fail half-way, the workspace
  image is never mounted on the host under a VM. `CallsAreBounded` and, by `ChaseInv`,
  `TimeoutIsEnforced` hold here for a dropped handle too: its drop does not cancel the thread.
* `JudgeBreakerProofs`. Type, agreement of the fields, `TripHoldsIfSilent` and `RecoversInTime`
  are inductive together with `LateCalls`: a call under way while the breaker is open
  began before the trip, so it ends within one timeout of it. `CountIsBounded` counts calls
  in flight with the library's theorems on finite sets. `RecoveryIsTimely` is the bound on the
  time the breaker stays open, the safety half of `BreakerRecovers`.
* `CapsuleCreateProofs`. A validated spec stays validated, and every level before the
  one being tried was `NotSupported`: `OnlyValidRun` and `InOrder`, for chains of any length.
  `OnlyDown`: what runs is never above the level requested. `ProcessIsEverywhere`: a chain
  with a Process level is never `NotSupported`. `CreateIsBounded`: no level is tried twice.
* `EgressProxyProofs`. `GuardIsExact` compares the guard with the documented networks for
  every IPv4 and IPv6 address and in both directions, by arithmetic on octets and groups: it
  lets none of them pass and blocks no other. `Life` says what each place of
  a task implies of its heads and address; on it stand four invariants: `Vet` (the address
  passed the guard and no decision was Deny), `LeafInv` (a leaf is of its host's tunnel),
  `AuditInv` (an entry is of a task that is past it, one for each phase) and `GrantInv` (past a
  decision the action is Allow). They give
  `UpstreamIsVetted`, `LeafIsForHost`, `AuditIsHonest`, `ReportIsComplete`, `Refinement` to
  `EgressGate`, and `OnlyAllowedIsForwarded`, which is the other side of the run `egress_unjudged`:
  if every policy resolves its Judge, by a default or a fallback that decides, only
  allowed requests go out. `TasksAreBounded`: a task takes at most sixteen steps.
  `DraftIsExact` composes `build_policy`, `compile` and `evaluate`, with the first match as the
  least index of a matching rule, under `PlainUrls`: a path begins with `/` and holds no
  `://`, and no host is empty.
* `CgroupTreeProofs`. `Hosts` (only one is up), `Names` (numbers below the counter, different
  within a host), `Members` (who is in a directory, and that it then exists) and `Mine` (what
  a capsule has made or written since is as it left it while its host lives) are
  inductive together with the types. `LimitsAreKept`, `ReportIsOwn` and `DirectoryStays` assume
  `~Together`. `RequiredIsConfined` assumes also that the files can be written, since the code
  drops those errors: then a worker with `cgroup_required` runs only inside its
  cgroup and under its own limits, also in a directory an earlier host left, but for the error
  path between its sync byte and its SIGKILL. Its `Progress`
  invariant says how far the writes are at each place.

`ReportIsTrue` of the three backends is the contract in its user's words, drawn from the
same invariants: a status in a report is the one the worker ended with, or with namespaces what
zk-init makes of it, and a report is never revised.

Only model-checked: the liveness properties, since fairness and ENABLED are beyond the
prover. What carries each of them is proved, so that what is left to TLC is that fair steps
are taken:

| Liveness property | Its safety half |
|---|---|
| `WorkerEventuallyEnds` of each backend | `TimeoutIsEnforced`: somebody who will kill is left |
| `DestroyReturns`, `CallsReturn` | `DestroyIsBounded`, `CallsAreBounded`: a call counts down, nobody sends it back, and it waits only for what was killed |
| `LockFree` | `LosersSeeProgress` |
| `BreakerRecovers` | `RecoveryIsTimely` |
| `DecisionEnds` | `TasksAreBounded` |

Every safety property of a passing run is a theorem. The type invariants, the
agreement of the breaker's fields, the release of the process backend's egress runtime
(`EgressInStep`, `CaFileGoes`) and the properties defined in the proof modules are theorems for every
instance, so no run repeats them.

## 6. Not modelled

* The probe: nothing in the crate acts on its answer.
* The seccomp table, the mounts of `rootfs.rs` and the parsing of zk-init's configuration:
  straight-line system calls and data. That they fail, and where, is in the backends.
* Making the CA and signing, TLS, JSON and HTTP parsing, the bytes of the Firecracker
  API: library code or data. Their failure is a step.
* A pid the kernel gives to another process after a reap: `PidPinned` covers the handle
  until `destroy` begins; after that the window in the watchdog is real, and nothing in the
  repository says it is not.
* `SIGTERM` to a PID 1 without a handler (`namespace.rs:169`), which the kernel drops, and API
  reads without a timeout (`firecracker_api.rs:46`): the models have the code's behaviour,
  and no text of the repository promises more.
* A child whose host dies before the sync byte waits for ever (`namespace.rs:521`):
  `CgroupTree` has this child, as a worker that stays `waiting` in its directory.

## 7. Plan

Done: the contract, the three backends, the slot pool, the breaker, create, the egress
proxy with rules, guard, leaf cache and `zk-policy-build`, and cgroups over host restarts.
What could follow:

1. One model of `NamespaceCapsule` with `CgroupTree` and `SlotPool`, for host processes that die
   in the middle of a spawn.
2. `JudgeBreaker` inside `EgressProxy` in place of the free verdict.
3. The TAP side of `fc_net.rs` as an instance of `SlotPool` of its own, with its rules and
   their removal.
