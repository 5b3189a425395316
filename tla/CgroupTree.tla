----------------------------- MODULE CgroupTree -----------------------------
(***************************************************************************)
(* cgroup.rs under namespace.rs: the directories of /sys/fs/cgroup/        *)
(* zeptocapsule over the life of several host processes.  A directory is   *)
(* named after NEXT_CAPSULE_ID, which starts at 1 in every host process;   *)
(* directories and workers outlive a host process that dies, so its        *)
(* successor finds names taken, with their counters, limits and processes. *)
(*                                                                         *)
(* NamespaceCapsule has the rest of spawn and destroy; here a capsule      *)
(* begins when its child has been cloned and waits for the sync byte.      *)
(***************************************************************************)
EXTENDS Naturals, FiniteSets

CONSTANTS
    Proc,      \* host processes
    Capsule,   \* capsules
    host,      \* host[c]: the host process that creates c
    Together,  \* TRUE if two host processes may run at the same time
    want,      \* want[c]: the limits its spec sets
    required,  \* required[c]: cgroup_required
    MayFail,   \* which calls may fail: a subset of Faults
    MaxId,     \* bound: the largest number of a capsule in its host process
    None       \* nobody

Limit == {"memory", "cpu", "pids"}

\* "create", "enter", "limit": mkdir, and writes to the files of the directory;
\* "wait": waitpid is interrupted; "rmdir": an empty directory cannot be removed.
Faults == {"create", "enter", "limit", "wait", "rmdir"}

ASSUME TreeAssumption ==
    /\ host \in [Capsule -> Proc]
    /\ Together \in BOOLEAN
    /\ want \in [Capsule -> SUBSET Limit]
    /\ required \in [Capsule -> BOOLEAN]
    /\ MayFail \subseteq Faults
    /\ MaxId \in Nat
    /\ None \notin Capsule

Name == 0..MaxId
Violation == {"Memory", "MaxPids"}

VARIABLES
    up,       \* up[p]: "off", "up" or "dead"
    next,     \* next[p]: NEXT_CAPSULE_ID
    hpc,      \* hpc[c]: where the spawn or destroy of c is
    name,     \* name[c]: the number in its directory's name, 0 before it has one
    cg,       \* cg[c]: its Cgroup: "none", a directory it "made" or "found", or a "dummy"
    tries,    \* tries[c]: attempts to remove the directory
    written,  \* written[c]: the files of the directory written to for c
    worker,   \* worker[c]: "none", "waiting" for the sync byte, "running",
              \* "killed" (a SIGKILL is on its way) or "dead"
    report,   \* report[c]: killed_by as far as the cgroup tells
    maker,    \* maker[n]: the capsule that made directory n, None if there is none
    inside,   \* inside[n]: the capsules whose processes are in it
    inforce,  \* inforce[n][l]: the capsule that wrote limit l last
    events    \* events[n]: the violations its counters hold, and whose they were

hostVars == <<up, next>>
treeVars == <<maker, inside, inforce, events>>
vars == <<hostVars, hpc, name, cg, tries, written, worker, report, treeVars>>

Places == {"idle", "create", "enter", "limit", "sync", "bailsync", "bailkill", "bailwait",
           "run", "remove", "gone"}
WorkerStates == {"none", "waiting", "running", "killed", "dead"}

\* Types of the variables.
TypeOK ==
    /\ up \in [Proc -> {"off", "up", "dead"}]
    /\ next \in [Proc -> 1..MaxId + 1]
    /\ hpc \in [Capsule -> Places]
    /\ name \in [Capsule -> Name]
    /\ cg \in [Capsule -> {"none", "made", "found", "dummy"}]
    /\ tries \in [Capsule -> 0..2]
    /\ written \in [Capsule -> SUBSET (Limit \cup {"procs"})]
    /\ worker \in [Capsule -> WorkerStates]
    /\ report \in [Capsule -> Violation \cup {None}]
    /\ maker \in [Name -> Capsule \cup {None}]
    /\ inside \in [Name -> SUBSET Capsule]
    /\ inforce \in [Name -> [Limit -> Capsule \cup {None}]]
    /\ events \in [Name -> SUBSET (Capsule \X Violation)]

Init ==
    /\ up = [p \in Proc |-> "off"]
    /\ next = [p \in Proc |-> 1]
    /\ hpc = [c \in Capsule |-> "idle"]
    /\ name = [c \in Capsule |-> 0]
    /\ cg = [c \in Capsule |-> "none"]
    /\ tries = [c \in Capsule |-> 0]
    /\ written = [c \in Capsule |-> {}]
    /\ worker = [c \in Capsule |-> "none"]
    /\ report = [c \in Capsule |-> None]
    /\ maker = [n \in Name |-> None]
    /\ inside = [n \in Name |-> {}]
    /\ inforce = [n \in Name |-> [l \in Limit |-> None]]
    /\ events = [n \in Name |-> {}]
-----------------------------------------------------------------------------
Live(c) == up[host[c]] = "up"
Goto(c, place) == hpc' = [hpc EXCEPT ![c] = place]
Exists(c) == cg[c] # "dummy" /\ maker[name[c]] # None

\* A host process starts, and dies at any time with its capsules where they are.
StartHost(p) ==
    /\ up[p] = "off"
    /\ Together \/ \A q \in Proc : up[q] # "up"
    /\ up' = [up EXCEPT ![p] = "up"]
    /\ UNCHANGED <<next, hpc, name, cg, tries, written, worker, report, treeVars>>

HostDies(p) ==
    /\ up[p] = "up"
    /\ up' = [up EXCEPT ![p] = "dead"]
    /\ UNCHANGED <<next, hpc, name, cg, tries, written, worker, report, treeVars>>

\* Mutant: the number is not taken, only read.
TakeIdRead(c) ==
    /\ Live(c) /\ hpc[c] = "idle"
    /\ next[host[c]] <= MaxId
    /\ name' = [name EXCEPT ![c] = next[host[c]]]
    /\ worker' = [worker EXCEPT ![c] = "waiting"]
    /\ Goto(c, "create")
    /\ UNCHANGED <<hostVars, cg, tries, written, report, treeVars>>

\* The child exists; fetch_add gives the capsule its name.
TakeId(c) ==
    /\ Live(c) /\ hpc[c] = "idle"
    /\ next[host[c]] <= MaxId
    /\ name' = [name EXCEPT ![c] = next[host[c]]]
    /\ next' = [next EXCEPT ![host[c]] = @ + 1]
    /\ worker' = [worker EXCEPT ![c] = "waiting"]
    /\ Goto(c, "create")
    /\ UNCHANGED <<up, cg, tries, written, report, treeVars>>

\* create_dir_all: a directory that exists is taken as it is.  A failure leaves
\* the worker without one, and ends the spawn if a cgroup is required.
Create(c) ==
    /\ Live(c) /\ hpc[c] = "create"
    /\ \/ /\ maker[name[c]] = None /\ maker' = [maker EXCEPT ![name[c]] = c]
          /\ cg' = [cg EXCEPT ![c] = "made"]
          /\ Goto(c, "enter")
       \/ /\ maker[name[c]] # None /\ UNCHANGED maker
          /\ cg' = [cg EXCEPT ![c] = "found"]
          /\ Goto(c, "enter")
       \/ /\ "create" \in MayFail /\ UNCHANGED maker
          /\ cg' = [cg EXCEPT ![c] = "dummy"]
          /\ Goto(c, IF required[c] THEN "bailsync" ELSE "sync")
    /\ UNCHANGED <<hostVars, name, tries, written, worker, report, inside, inforce, events>>

\* The error path lets the child go before it kills it.
BailSync(c) ==
    /\ Live(c) /\ hpc[c] = "bailsync"
    /\ worker' = [worker EXCEPT ![c] = "running"]
    /\ Goto(c, "bailkill")
    /\ UNCHANGED <<hostVars, name, cg, tries, written, report, treeVars>>

BailKill(c) ==
    /\ Live(c) /\ hpc[c] = "bailkill"
    /\ worker' = [worker EXCEPT ![c] = IF @ = "dead" THEN "dead" ELSE "killed"]
    /\ Goto(c, "bailwait")
    /\ UNCHANGED <<hostVars, name, cg, tries, written, report, treeVars>>

\* Whether waitpid was interrupted is not looked at.
BailWait(c) ==
    /\ Live(c) /\ hpc[c] = "bailwait"
    /\ worker[c] = "dead" \/ "wait" \in MayFail
    /\ Goto(c, "gone")
    /\ UNCHANGED <<hostVars, name, cg, tries, written, worker, report, treeVars>>

Bail(c) == BailSync(c) \/ BailKill(c) \/ BailWait(c)

\* add_pid; its error is dropped.
AddPid(c) ==
    /\ Live(c) /\ hpc[c] = "enter"
    /\ \/ /\ Exists(c)
          /\ inside' = [inside EXCEPT ![name[c]] = @ \cup {c}]
          /\ written' = [written EXCEPT ![c] = @ \cup {"procs"}]
       \/ (~Exists(c) \/ "enter" \in MayFail) /\ UNCHANGED <<inside, written>>
    /\ Goto(c, IF want[c] = {} THEN "sync" ELSE "limit")
    /\ UNCHANGED <<hostVars, name, cg, tries, worker, report, maker, inforce, events>>

\* The order of apply_limits.
First(S) == IF "memory" \in S THEN "memory" ELSE IF "cpu" \in S THEN "cpu" ELSE "pids"

\* Mutant: the path is made anew from the counter, which other spawns have moved on.
ApplyLimitLatest(c) ==
    /\ Live(c) /\ hpc[c] = "limit"
    /\ LET left == want[c] \ written[c]
           l == First(left)
       IN  /\ inforce' = [inforce EXCEPT ![next[host[c]] - 1][l] = c]
           /\ written' = [written EXCEPT ![c] = @ \cup {l}]
           /\ Goto(c, IF left = {l} THEN "sync" ELSE "limit")
    /\ UNCHANGED <<hostVars, name, cg, tries, worker, report, maker, inside, events>>

\* apply_limits, one file at a time; the first error ends it and is dropped.
ApplyLimit(c) ==
    /\ Live(c) /\ hpc[c] = "limit"
    /\ LET left == want[c] \ written[c]
           l == First(left)
       IN  \/ /\ Exists(c)
              /\ inforce' = [inforce EXCEPT ![name[c]][l] = c]
              /\ written' = [written EXCEPT ![c] = @ \cup {l}]
              /\ Goto(c, IF left = {l} THEN "sync" ELSE "limit")
           \/ /\ ~Exists(c) \/ "limit" \in MayFail
              /\ Goto(c, "sync") /\ UNCHANGED <<written, inforce>>
    /\ UNCHANGED <<hostVars, name, cg, tries, worker, report, maker, inside, events>>

\* The sync byte; a child whose host died before it waits for ever, for it
\* holds the write end of the pipe itself.
Sync(c) ==
    /\ Live(c) /\ hpc[c] = "sync"
    /\ worker' = [worker EXCEPT ![c] = "running"]
    /\ Goto(c, "run")
    /\ UNCHANGED <<hostVars, name, cg, tries, written, report, treeVars>>
-----------------------------------------------------------------------------
(* The worker and the kernel *)

Leave(c) ==
    /\ worker' = [worker EXCEPT ![c] = "dead"]
    /\ inside' = [n \in Name |-> inside[n] \ {c}]

\* The worker ends, by itself or of a SIGKILL, also as an orphan.
WorkerEnds(c) ==
    /\ worker[c] \in {"running", "killed"}
    /\ Leave(c)
    /\ UNCHANGED <<hostVars, hpc, name, cg, tries, written, report, maker, inforce, events>>

\* A limit in force is hit: an OOM kill, or a refused fork.
LimitHit(c) ==
    /\ worker[c] = "running" /\ c \in inside[name[c]]
    /\ \/ /\ inforce[name[c]]["memory"] # None
          /\ events' = [events EXCEPT ![name[c]] = @ \cup {<<c, "Memory">>}]
          /\ Leave(c)
       \/ /\ inforce[name[c]]["pids"] # None
          /\ events' = [events EXCEPT ![name[c]] = @ \cup {<<c, "MaxPids">>}]
          /\ UNCHANGED <<worker, inside>>
    /\ UNCHANGED <<hostVars, hpc, name, cg, tries, written, report, maker, inforce>>
-----------------------------------------------------------------------------
(* destroy, and a handle that is dropped without it *)

\* Mutant: counters that are zero count.
DetectAnyway(c) == IF ~Exists(c) THEN None ELSE "Memory"

\* The events of the directory, of whichever process; memory comes first.
detect_violation(c) ==
    LET seen == {e[2] : e \in events[name[c]]}
    IN  IF ~Exists(c) \/ seen = {} THEN None ELSE IF "Memory" \in seen THEN "Memory" ELSE "MaxPids"

\* The worker is killed, if need be, and waited for, and the counters are read.
Destroy(c) ==
    /\ Live(c) /\ hpc[c] = "run"
    /\ Leave(c)
    /\ report' = [report EXCEPT ![c] = detect_violation(c)]
    /\ Goto(c, "remove")
    /\ UNCHANGED <<hostVars, name, cg, tries, written, maker, inforce, events>>

\* The wait for the killed worker is interrupted: destroy returns an error, and
\* the Cgroup is dropped while the worker may still be in it.
DestroyFails(c) ==
    /\ "wait" \in MayFail
    /\ Live(c) /\ hpc[c] = "run" /\ worker[c] = "running"
    /\ worker' = [worker EXCEPT ![c] = "killed"]
    /\ Goto(c, "remove")
    /\ UNCHANGED <<hostVars, name, cg, tries, written, report, treeVars>>

\* The state goes, and with it the Cgroup; the worker goes on.
DropHandle(c) ==
    /\ Live(c) /\ hpc[c] = "run"
    /\ Goto(c, "remove")
    /\ UNCHANGED <<hostVars, name, cg, tries, written, worker, report, treeVars>>

RemoveDir(n) ==
    /\ maker' = [maker EXCEPT ![n] = None]
    /\ inforce' = [inforce EXCEPT ![n] = [l \in Limit |-> None]]
    /\ events' = [events EXCEPT ![n] = {}]
    /\ UNCHANGED inside

\* Cgroup::destroy, one of three attempts: only an empty directory goes, and its
\* limits and counters with it.  After the third failure it is left there.
Remove(c) ==
    /\ Live(c) /\ hpc[c] = "remove"
    /\ LET empty == Exists(c) /\ inside[name[c]] = {}
       IN  \/ /\ empty /\ RemoveDir(name[c])
              /\ tries' = [tries EXCEPT ![c] = 0] /\ Goto(c, "gone")
           \/ /\ ~empty \/ "rmdir" \in MayFail
              /\ UNCHANGED treeVars
              /\ tries' = [tries EXCEPT ![c] = IF @ = 2 THEN 0 ELSE @ + 1]
              /\ Goto(c, IF tries[c] = 2 THEN "gone" ELSE "remove")
    /\ UNCHANGED <<hostVars, name, cg, written, worker, report>>

Next ==
    \/ \E p \in Proc : StartHost(p) \/ HostDies(p)
    \/ \E c \in Capsule :
         \/ TakeId(c) \/ Create(c) \/ Bail(c) \/ AddPid(c) \/ ApplyLimit(c) \/ Sync(c)
         \/ WorkerEnds(c) \/ LimitHit(c)
         \/ Destroy(c) \/ DestroyFails(c) \/ DropHandle(c) \/ Remove(c)

Spec == Init /\ [][Next]_vars
-----------------------------------------------------------------------------
(* Properties.  They are about host processes that run one after another. *)

\* The process put into a directory is in it, whatever other capsules of this
\* or an earlier host process have done since, and under the limits written
\* for it as long as its host lives.
LimitsHold ==
    \A c \in Capsule : worker[c] = "running" /\ "procs" \in written[c] =>
        /\ c \in inside[name[c]] /\ maker[name[c]] # None
        /\ Live(c) => \A l \in written[c] \cap Limit : inforce[name[c]][l] = c

\* A violation read from a directory the capsule has made is its own worker's.
ReportOwn ==
    [][\A c \in Capsule : report'[c] \notin {report[c], None} /\ cg[c] = "made" =>
         <<c, report'[c]>> \in events[name[c]]]_vars

\* A directory that is removed has no process in it, and no capsule of a living
\* host has it and is still to put its process in: names that earlier hosts, or
\* attempts given up, left behind are never taken for the remover's own.
UsedDirStays ==
    [][\A n \in Name : maker[n] # None /\ maker'[n] = None =>
         /\ inside[n] = {}
         /\ \A c \in Capsule : Live(c) /\ name[c] = n /\ cg[c] \in {"made", "found"} =>
              hpc[c] \in {"remove", "gone"}]_vars
=============================================================================
