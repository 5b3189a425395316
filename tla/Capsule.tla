------------------------------- MODULE Capsule -------------------------------
(***************************************************************************)
(* What the CapsuleHandle trait (backend.rs) promises its user, whatever    *)
(* backend is behind it: one worker per capsule, and one report that        *)
(* carries the worker's exit status, as the backend tells it, if the worker  *)
(* had ended when destroy looked, and says nothing otherwise.               *)
(***************************************************************************)
CONSTANTS
  Status,    \* the ways a worker can end
  Told       \* what a report may say of each of them: a set of statuses

VARIABLES
  phase,    \* "open" until destroy has looked at the worker, then "closed"
  worker,   \* "none", "running" or the status it ended with
  report    \* "none" before the report, then what it says, or "unknown"

vars == <<phase, worker, report>>

TypeOK ==
  /\ phase \in {"open", "closed"}
  /\ worker \in Status \cup {"none", "running"}
  /\ report \in UNION {Told[s] : s \in Status} \cup {"none", "unknown"}

Init == phase = "open" /\ worker = "none" /\ report = "none"

Spawn ==
  /\ phase = "open" /\ worker = "none"
  /\ worker' = "running"
  /\ UNCHANGED <<phase, report>>

\* The worker ends, during the capsule's life or after it.
End(s) ==
  /\ worker = "running"
  /\ worker' = s
  /\ UNCHANGED <<phase, report>>

Destroy ==
  /\ phase = "open"
  /\ phase' = "closed"
  /\ report' \in IF worker \in Status THEN Told[worker] ELSE {"unknown"}
  /\ UNCHANGED worker

\* destroy fails, or the handle is dropped: no report is ever made.
Abandon ==
  /\ phase = "open"
  /\ phase' = "closed"
  /\ UNCHANGED <<worker, report>>

Next == Spawn \/ (\E s \in Status : End(s)) \/ Destroy \/ Abandon

Spec == Init /\ [][Next]_vars
-----------------------------------------------------------------------------
(* What follows for the user of a handle, proved of every backend.          *)

\* A status in CapsuleReport is told of a worker that ended that way.
ReportTrue ==
  report \notin {"none", "unknown"} => worker \in Status /\ report \in Told[worker]

\* A handle that is done with stays so, and its report is not revised, also
\* if the worker ends later.
Closed == phase = "closed" => UNCHANGED <<phase, report>>
ReportFinal == [][Closed]_vars

\* There is a report only of a handle that is done with.
ReportMade == report # "none" => phase = "closed"
=============================================================================
