---------------------------- MODULE CapsuleCreate ----------------------------
(***************************************************************************)
(* zeptocapsule::create (lib.rs): the spec is validated, the requested       *)
(* isolation is tried, and if the host does not support it the fallback      *)
(* chain is walked, for every spec and every host.                          *)
(***************************************************************************)
EXTENDS Naturals, Sequences

CONSTANT MaxChain    \* the longest fallback chain considered

ASSUME MaxChainAssumption == MaxChain \in Nat

Isolation == {"Process", "Namespace", "Firecracker"}
Profile == {"Dev", "Standard", "Hardened"}

\* A step of the chain: an isolation and a security profile.
Level == Isolation \X Profile

Chain == UNION {[1 .. n -> Level] : n \in 0 .. MaxChain}

VARIABLES
  spec,     \* level (requested), fallback (chain), fc (a FirecrackerConfig is
            \* there), maxPids (is set), egress (a policy is set)
  host,     \* linux (the build target), fc (validate_prerequisites holds),
            \* setup (the isolations whose set-up works)
  step,     \* "validate", "try" or "done"
  at,       \* 0 for the requested level, else the place in the chain
  result    \* what create returned

vars == <<spec, host, step, at, result>>

SpecType == [level : Level, fallback : Chain, fc : BOOLEAN, maxPids : BOOLEAN, egress : BOOLEAN]
HostType == [linux : BOOLEAN, fc : BOOLEAN, setup : SUBSET Isolation]

\* An Ok result has the level that runs, an error the try it comes from.
NoLevel == <<"none", "none">>
ResultType == [kind : {"none", "Ok", "InvalidState", "NotSupported", "Error"},
               level : Level \cup {NoLevel},
               of : 0 .. MaxChain]

TypeOK ==
  /\ spec \in SpecType /\ host \in HostType
  /\ step \in {"validate", "try", "done"}
  /\ at \in 0 .. Len(spec.fallback)
  /\ result \in ResultType

Init ==
  /\ spec \in SpecType /\ host \in HostType
  /\ step = "validate" /\ at = 0
  /\ result = [kind |-> "none", level |-> NoLevel, of |-> 0]

-----------------------------------------------------------------------------
\* security_level of types.rs.
SecurityLevel(l) ==
  IF l[1] = "Firecracker" THEN 3
  ELSE IF l = <<"Namespace", "Hardened">> THEN 2
  ELSE IF l = <<"Namespace", "Standard">> THEN 1
  ELSE 0

\* validate_primary of types.rs.
ValidatePrimary(l) ==
  /\ l # <<"Process", "Hardened">>
  /\ l # <<"Namespace", "Dev">>
  /\ l[1] = "Firecracker" => spec.fc /\ ~spec.maxPids

\* Mutant: only the first fallback is validated.
ValidateFirst ==
  /\ ValidatePrimary(spec.level)
  /\ \A k \in 1 .. Len(spec.fallback) :
       SecurityLevel(spec.fallback[k]) <= SecurityLevel(spec.level)
  /\ Len(spec.fallback) > 0 => ValidatePrimary(spec.fallback[1])

\* CapsuleSpec::validate.
Validate ==
  /\ ValidatePrimary(spec.level)
  /\ \A k \in 1 .. Len(spec.fallback) :
       /\ SecurityLevel(spec.fallback[k]) <= SecurityLevel(spec.level)
       /\ ValidatePrimary(spec.fallback[k])

\* try_create and Backend::create of the three backends.  Of the host's features
\* only Firecracker's are looked at.  A set-up that fails, of the egress policy or of
\* Firecracker's state directory, is another kind of error.
TryCreate(l) ==
  IF \/ l[1] # "Process" /\ ~host.linux
     \/ l[1] = "Firecracker" /\ (~spec.fc \/ ~host.fc) THEN "NotSupported"
  ELSE IF l[1] \notin host.setup /\ (spec.egress \/ l[1] = "Firecracker") THEN "Error"
  ELSE "Ok"

\* The level tried at place k.
LevelAt(k) == IF k = 0 THEN spec.level ELSE spec.fallback[k]

Return(kind, level, of) ==
  /\ result' = [kind |-> kind, level |-> level, of |-> of]
  /\ step' = "done"
  /\ UNCHANGED at

CheckSpec ==
  /\ step = "validate"
  /\ IF Validate THEN step' = "try" /\ UNCHANGED <<at, result>>
     ELSE Return("InvalidState", NoLevel, 0)
  /\ UNCHANGED <<spec, host>>

\* Mutant: the chain goes on after any error.
TryNextAnyError ==
  /\ step = "try"
  /\ IF TryCreate(LevelAt(at)) = "Ok" THEN Return("Ok", LevelAt(at), at)
     ELSE IF at < Len(spec.fallback)
     THEN at' = at + 1 /\ UNCHANGED <<step, result>>
     ELSE Return("NotSupported", NoLevel, 0)
  /\ UNCHANGED <<spec, host>>

\* try_create of the requested level or of the next one in the chain: only
\* NotSupported goes on, and at the end the first NotSupported is returned.
TryNext ==
  /\ step = "try"
  /\ \/ TryCreate(LevelAt(at)) = "Ok" /\ Return("Ok", LevelAt(at), at)
     \/ TryCreate(LevelAt(at)) = "Error" /\ Return("Error", NoLevel, at)
     \/ /\ TryCreate(LevelAt(at)) = "NotSupported"
        /\ IF at < Len(spec.fallback)
           THEN at' = at + 1 /\ UNCHANGED <<step, result>>
           ELSE Return("NotSupported", NoLevel, 0)
  /\ UNCHANGED <<spec, host>>

Next == CheckSpec \/ TryNext

Spec == Init /\ [][Next]_vars

-----------------------------------------------------------------------------
(* Properties                                                               *)

\* try_create validates nothing, and yet no capsule runs at a level that
\* validate_primary rejects, wherever in the chain it comes from.
RunsOnlyValid == result.kind = "Ok" => ValidatePrimary(result.level)

\* "Walk fallback list in order": the outcome is that of the first level that is
\* not NotSupported, and only if there is none the requested level's own error.
FirstSupported ==
  step = "done" /\ result.kind # "InvalidState" =>
    LET Supported == {k \in 0 .. Len(spec.fallback) : TryCreate(LevelAt(k)) # "NotSupported"}
    IN  IF Supported = {} THEN result.kind = "NotSupported" /\ result.of = 0
        ELSE /\ result.of \in Supported
             /\ \A k \in Supported : result.of <= k
             /\ result.kind = TryCreate(LevelAt(result.of))
=============================================================================
