------------------------- MODULE JudgeBreakerProofs --------------------------
(* Theorems about JudgeBreaker, for any callers, threshold and durations.     *)
EXTENDS JudgeBreaker, FiniteSetTheorems, TLAPS

USE CallerAssumption, ThresholdAssumption, OpenAssumption, TimeoutAssumption DEF Never, Horizon

\* Nobody is let through an open breaker: the calls in flight then were made
\* before it tripped and have what is left of their timeout.
LateCalls == open # Never => \A c \in Calling : call[c] + sinceTrip <= Timeout

Breaker == TypeOK /\ FieldsAgree /\ TripHoldsIfSilent /\ LateCalls /\ RecoversInTime

\* A new breaker is closed and has counted nothing.
LEMMA InitBreaker == Init => Breaker
<1> SUFFICES ASSUME Init PROVE Breaker OBVIOUS
<1>1. call \in [Caller -> {Never} \cup (0 .. Timeout)] BY DEF Init
<1>2. TypeOK
  <2>1. sinceTrip \in 0 .. Horizon BY DEF Init
  <2>2. answered \in BOOLEAN BY DEF Init
  <2>3. failures \in Nat /\ open \in {Never} \cup (0 .. Open) BY DEF Init
  <2> QED BY <1>1, <2>1, <2>2, <2>3 DEF TypeOK
<1>3. FieldsAgree /\ TripHoldsIfSilent /\ LateCalls /\ RecoversInTime
  BY DEF Init, FieldsAgree, TripHoldsIfSilent, LateCalls, RecoversInTime
<1> QED BY <1>2, <1>3 DEF Breaker

\* Breaker is inductive: ticks, calls and both outcomes keep it.
LEMMA NextBreaker == Breaker /\ [Next]_vars => Breaker'
<1> SUFFICES ASSUME Breaker, [Next]_vars PROVE Breaker' OBVIOUS
<1> USE DEF Breaker, TypeOK, FieldsAgree, TripHoldsIfSilent, LateCalls, RecoversInTime, Calling
<1>1. CASE Tick BY <1>1 DEF Tick
<1>2. ASSUME NEW c \in Caller, Decide(c) PROVE Breaker' BY <1>2 DEF Decide, AllowCall
<1>3. ASSUME NEW c \in Caller, Succeed(c) PROVE Breaker' BY <1>3 DEF Succeed, Return
<1>4. ASSUME NEW c \in Caller, Fail(c) PROVE Breaker' BY <1>4 DEF Fail, Return
<1>5. CASE UNCHANGED vars BY <1>5 DEF vars
<1> QED BY <1>1, <1>2, <1>3, <1>4, <1>5 DEF Next

\* Every variable keeps its type: no timer runs past its end.
THEOREM TypeCorrect == Spec => []TypeOK
<1>1. Breaker => TypeOK BY DEF Breaker
<1> QED BY <1>1, InitBreaker, NextBreaker, PTL DEF Spec

\* consecutive_failures and open_until never disagree, in whatever order the
\* outcomes of concurrent calls are recorded.
THEOREM BreakerFieldsAgree == Spec => []FieldsAgree
<1>1. Breaker => FieldsAgree BY DEF Breaker
<1> QED BY <1>1, InitBreaker, NextBreaker, PTL DEF Spec

\* A tripped breaker is open for its whole period unless a call succeeds.
THEOREM TripIsKept == Spec => []TripHoldsIfSilent
<1>1. Breaker => TripHoldsIfSilent BY DEF Breaker
<1> QED BY <1>1, InitBreaker, NextBreaker, PTL DEF Spec

\* However many late failures start the open period again, the breaker is never
\* open later than one timeout plus one open period after it tripped.
THEOREM RecoveryIsTimely == Spec => []RecoversInTime
<1>1. Breaker => RecoversInTime BY DEF Breaker
<1> QED BY <1>1, InitBreaker, NextBreaker, PTL DEF Spec

\* The calls in flight are finitely many, a new one adds one, a return takes one.
LEMMA CallingCounts ==
  ASSUME TypeOK, NEW c \in Caller, NEW S, S \subseteq Caller
  PROVE  /\ Cardinality(S) \in Nat /\ Cardinality(Caller) \in Nat
         /\ Cardinality(S) <= Cardinality(Caller)
         /\ c \in S => Cardinality(S \ {c}) = Cardinality(S) - 1
<1>1. IsFiniteSet(S) /\ Cardinality(S) <= Cardinality(Caller) BY FS_Subset
<1>2. Cardinality(S) \in Nat /\ Cardinality(Caller) \in Nat BY <1>1, FS_CardinalityType
<1>3. c \in S => Cardinality(S \ {c}) = Cardinality(S) - 1
  BY <1>1, FS_RemoveElement
<1> QED BY <1>1, <1>2, <1>3

\* A failure adds one to the count and takes one call out of flight.
LEMMA NextBounded == Breaker /\ FailuresBounded /\ [Next]_vars => FailuresBounded'
<1> SUFFICES ASSUME Breaker, FailuresBounded, [Next]_vars PROVE FailuresBounded' OBVIOUS
<1>0. Calling \subseteq Caller /\ Calling' \subseteq Caller BY DEF Calling
<1>1. CASE Tick
  <2>1. Calling' = Calling BY <1>1 DEF Tick, Calling, Breaker, TypeOK
  <2> QED BY <1>1, <2>1 DEF Tick, FailuresBounded
<1>2. ASSUME NEW c \in Caller, Decide(c) PROVE FailuresBounded'
  <2>1. failures' < Threshold /\ failures' \in Nat
    BY <1>2 DEF Decide, AllowCall, Breaker, TypeOK, FieldsAgree
  <2>2. /\ Cardinality(Calling') \in Nat /\ Cardinality(Caller) \in Nat
        /\ Cardinality(Calling') <= Cardinality(Caller)
    BY <1>0, CallingCounts DEF Breaker
  <2> QED BY <2>1, <2>2 DEF FailuresBounded
<1>3. ASSUME NEW c \in Caller, Return(c)
      PROVE  /\ Cardinality(Calling') = Cardinality(Calling) - 1
             /\ Cardinality(Calling) \in Nat /\ Cardinality(Caller) \in Nat
  <2>1. c \in Calling /\ Calling' = Calling \ {c}
    BY <1>3 DEF Return, Calling, Breaker, TypeOK
  <2> QED BY <2>1, <1>0, CallingCounts DEF Breaker
<1>4. ASSUME NEW c \in Caller, Succeed(c) \/ Fail(c) PROVE FailuresBounded'
  <2>1. failures' <= failures + 1 /\ failures \in Nat /\ failures' \in Nat
    BY <1>4 DEF Succeed, Fail, Breaker, TypeOK
  <2>2. Return(c) BY <1>4 DEF Succeed, Fail
  <2> QED BY <2>1, <2>2, <1>3 DEF FailuresBounded
<1>5. CASE UNCHANGED vars
  <2>1. Calling' = Calling BY <1>5 DEF vars, Calling
  <2> QED BY <1>5, <2>1 DEF vars, FailuresBounded
<1> QED BY <1>1, <1>2, <1>4, <1>5 DEF Next

\* The failure count exceeds the threshold by at most the calls that were in
\* flight when it was reached.
THEOREM CountIsBounded == Spec => []FailuresBounded
<1>1. Init => FailuresBounded
  <2> SUFFICES ASSUME Init PROVE FailuresBounded OBVIOUS
  <2>1. Calling = {} BY DEF Init, Calling
  <2>2. Cardinality(Calling) = 0 BY <2>1, FS_EmptySet
  <2>3. Cardinality(Caller) \in Nat BY FS_CardinalityType
  <2> QED BY <2>2, <2>3 DEF Init, FailuresBounded
<1> QED BY <1>1, InitBreaker, NextBreaker, NextBounded, PTL DEF Spec
=============================================================================
