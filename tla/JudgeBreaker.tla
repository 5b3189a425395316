---------------------------- MODULE JudgeBreaker -----------------------------
(***************************************************************************)
(* The LLM judge client and its circuit breaker (egress/judge.rs), shared   *)
(* by all connections of one proxy.  decide() takes the breaker's mutex      *)
(* twice, before and after the upstream call, and not in between, so the     *)
(* outcome of a call can arrive in any later state of the breaker.          *)
(*                                                                         *)
(* Time is counted down: open_until is how many ticks the breaker stays open *)
(* and every call carries the ticks left to its timeout.                    *)
(***************************************************************************)
EXTENDS Integers, FiniteSets

CONSTANTS
  Caller,      \* the connections that consult the judge
  Threshold,   \* BREAKER_FAILURE_THRESHOLD
  Open,        \* BREAKER_OPEN_DURATION, in ticks
  Timeout      \* JudgeConfig.timeout, in ticks

ASSUME CallerAssumption == IsFiniteSet(Caller)
ASSUME ThresholdAssumption == Threshold \in Nat \ {0}
ASSUME OpenAssumption == Open \in Nat \ {0}
ASSUME TimeoutAssumption == Timeout \in Nat \ {0}

VARIABLES
  failures,   \* consecutive_failures
  open,       \* ticks to open_until, Never if it is None
  call,       \* ticks to the timeout of each caller's upstream call, Never if none
  sinceTrip,  \* history: ticks since the breaker tripped, at most Horizon
  answered    \* history: a call has succeeded since then

vars == <<failures, open, call, sinceTrip, answered>>

Never == -1

\* As far as the history counts: the last failure that can extend an open period
\* comes within Timeout of the trip, and the period then lasts Open.
Horizon == Open + Timeout

TypeOK ==
  /\ failures \in Nat
  /\ open \in {Never} \cup (0 .. Open)
  /\ call \in [Caller -> {Never} \cup (0 .. Timeout)]
  /\ sinceTrip \in 0 .. Horizon
  /\ answered \in BOOLEAN

Init ==
  /\ failures = 0 /\ open = Never
  /\ call = [c \in Caller |-> Never]
  /\ sinceTrip = Horizon /\ answered = FALSE

Calling == {c \in Caller : call[c] # Never}

\* Mutant: the end of the open period forgives nothing.
AllowCallKeepsCount == open <= 0 /\ open' = Never /\ UNCHANGED failures

\* Mutant: the time is not looked at.
AllowCallUnchecked ==
  /\ failures' = IF open = Never THEN failures ELSE 0
  /\ open' = Never

\* allow_call returns true: the breaker is closed, or its time is over and it is
\* closed now.  Everybody may call again then.
AllowCall ==
  /\ open <= 0
  /\ failures' = IF open = Never THEN failures ELSE 0
  /\ open' = Never

\* Mutant: a refused call starts the open period again.
DecideRearms(c) ==
  /\ call[c] = Never
  /\ \/ AllowCall /\ call' = [call EXCEPT ![c] = Timeout]
     \/ open > 0 /\ open' = Open /\ UNCHANGED <<failures, call>>
  /\ UNCHANGED <<sinceTrip, answered>>

\* Mutant: a call that timed out is sent again without asking the breaker.
DecideRetries(c) ==
  /\ \/ call[c] = Never /\ AllowCall
     \/ call[c] = 0 /\ UNCHANGED <<failures, open>>
  /\ call' = [call EXCEPT ![c] = Timeout]
  /\ UNCHANGED <<sinceTrip, answered>>

\* decide() up to its await.  If the call is not allowed, decide returns the
\* fallback and changes nothing.
Decide(c) ==
  /\ call[c] = Never
  /\ AllowCall
  /\ call' = [call EXCEPT ![c] = Timeout]
  /\ UNCHANGED <<sinceTrip, answered>>

\* The upstream call ends.
Return(c) == call[c] # Never /\ call' = [call EXCEPT ![c] = Never]

\* record_success.
Succeed(c) ==
  /\ Return(c)
  /\ failures' = 0
  /\ open' = Never
  /\ answered' = TRUE
  /\ UNCHANGED sinceTrip

\* record_failure, for an error, a malformed answer or the timeout.  A failure
\* that arrives while the breaker is open starts the open period again.
Fail(c) ==
  /\ Return(c)
  /\ failures' = failures + 1
  /\ IF failures + 1 >= Threshold
     THEN open' = Open /\ sinceTrip' = (IF open = Never THEN 0 ELSE sinceTrip)
     ELSE UNCHANGED <<open, sinceTrip>>
  /\ answered' = (answered /\ ~(failures + 1 >= Threshold /\ open = Never))

\* Time passes, but not beyond the timeout of a call.
Tick ==
  /\ \A c \in Calling : call[c] > 0
  /\ call' = [c \in Caller |-> IF call[c] > 0 THEN call[c] - 1 ELSE call[c]]
  /\ open' = IF open > 0 THEN open - 1 ELSE open
  /\ sinceTrip' = IF sinceTrip < Horizon THEN sinceTrip + 1 ELSE Horizon
  /\ UNCHANGED <<failures, answered>>

Next == Tick \/ \E c \in Caller : Decide(c) \/ Succeed(c) \/ Fail(c)

Spec == Init /\ [][Next]_vars

\* The clock runs, and tokio's timeout ends a call that has used up its time.
\* Nobody need call, and no answer need come.
FairSpec ==
  /\ Spec
  /\ WF_vars(Tick)
  /\ \A c \in Caller : WF_vars(call[c] = 0 /\ Fail(c))

-----------------------------------------------------------------------------
(* Properties                                                               *)

\* The two fields of the breaker agree, whatever order outcomes arrive in: it
\* has an open_until exactly when the failures have reached the threshold.
FieldsAgree == open # Never <=> failures >= Threshold

\* Calls that were in flight when the breaker tripped can still fail, each once:
\* the count never exceeds the threshold by more than the other callers.
FailuresBounded == failures + Cardinality(Calling) <= Threshold - 1 + Cardinality(Caller)

\* "5 consecutive failures trips the breaker for 10 seconds", as far as it holds:
\* unless a call that was already under way succeeds, the breaker is open for
\* the whole period after it tripped.
TripHoldsIfSilent == sinceTrip < Open /\ ~answered => open >= Open - sinceTrip

\* How late the breaker can recover.  Every failure that arrives while it is open
\* starts the ten seconds again, but only calls that were let through before the
\* trip can fail, and those are over within their timeout.
RecoversInTime == open > 0 => open + sinceTrip <= Open + Timeout

\* A breaker that opened lets calls through again, although late failures can
\* start its period anew.
BreakerRecovers == open > 0 ~> open <= 0
=============================================================================
