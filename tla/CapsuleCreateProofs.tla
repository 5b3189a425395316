------------------------- MODULE CapsuleCreateProofs -------------------------
(***************************************************************************)
(* Theorems about CapsuleCreate, for fallback chains of every length.        *)
(***************************************************************************)
EXTENDS CapsuleCreate, TLAPS

\* The spec does not change, so a validated one stays validated: what is tried
\* is valid, and everything before it in the chain was NotSupported.
IInv ==
  /\ TypeOK
  /\ step # "done" => result.kind = "none"
  /\ step = "validate" => at = 0
  /\ step = "try" => Validate
  /\ step = "try" => \A k \in 0 .. at - 1 : TryCreate(LevelAt(k)) = "NotSupported"
  /\ RunsOnlyValid
  /\ FirstSupported

\* A chain is a sequence no longer than MaxChain.
LEMMA ChainLength == \A c \in Chain : Len(c) \in 0 .. MaxChain /\ DOMAIN c = 1 .. Len(c)
                                       /\ \A k \in 1 .. Len(c) : c[k] \in Level
<1> SUFFICES ASSUME NEW c \in Chain
             PROVE  Len(c) \in 0 .. MaxChain /\ DOMAIN c = 1 .. Len(c)
                    /\ \A k \in 1 .. Len(c) : c[k] \in Level
    OBVIOUS
<1>1. PICK n \in 0 .. MaxChain : c \in [1 .. n -> Level] BY DEF Chain
<1>2. n \in Nat BY MaxChainAssumption
<1>3. c \in Seq(Level) BY <1>1, <1>2
<1>4. Len(c) = n BY <1>1, <1>2, <1>3
<1> QED BY <1>1, <1>3, <1>4, MaxChainAssumption

\* What is tried is a level, and so is what create returns.
LEMMA LevelType == ASSUME spec \in SpecType, NEW k \in 0 .. Len(spec.fallback) PROVE LevelAt(k) \in Level
<1>1. spec.fallback \in Chain /\ spec.level \in Level BY DEF SpecType
<1>2. Len(spec.fallback) \in 0 .. MaxChain BY <1>1, ChainLength
<1> QED BY <1>1, <1>2, ChainLength, MaxChainAssumption DEF LevelAt

\* A validated spec is valid at every place of its chain.
LEMMA ValidEverywhere ==
  ASSUME spec \in SpecType, Validate, NEW k \in 0 .. Len(spec.fallback)
  PROVE  ValidatePrimary(LevelAt(k))
<1>1. spec.fallback \in Chain BY DEF SpecType
<1>2. Len(spec.fallback) \in 0 .. MaxChain BY <1>1, ChainLength
<1>4. CASE k = 0 BY <1>4 DEF LevelAt, Validate
<1>5. CASE k # 0
  <2>1. k \in 1 .. Len(spec.fallback) BY <1>2, <1>5
  <2> QED BY <2>1, <1>5 DEF LevelAt, Validate
<1> QED BY <1>4, <1>5

\* Before validation nothing has been tried.
LEMMA InitHolds == Init => IInv
<1> SUFFICES ASSUME Init PROVE IInv OBVIOUS
<1>1. Len(spec.fallback) \in Nat BY ChainLength, MaxChainAssumption DEF Init, SpecType
<1>2. TypeOK BY <1>1, MaxChainAssumption DEF Init, TypeOK, ResultType
<1> QED BY <1>2 DEF Init, IInv, RunsOnlyValid, FirstSupported

\* Validation starts the walk at the requested level, or ends it.
LEMMA CheckSpecHolds == IInv /\ CheckSpec => IInv'
<1> SUFFICES ASSUME IInv, CheckSpec PROVE IInv' OBVIOUS
<1> USE DEF IInv, CheckSpec, Return
<1>2. TypeOK' BY MaxChainAssumption DEF TypeOK, ResultType
<1>3. CASE Validate
  <2>1. Validate' BY <1>3 DEF Validate, ValidatePrimary
  <2> QED BY <1>2, <1>3, <2>1 DEF RunsOnlyValid, FirstSupported
<1>4. CASE ~Validate
  BY <1>2, <1>4 DEF RunsOnlyValid, FirstSupported
<1> QED BY <1>3, <1>4

\* One step of the walk.  A level that is NotSupported extends the prefix of
\* unsupported ones; any other ends the walk as the first of its kind.
LEMMA TryNextHolds == IInv /\ TryNext => IInv'
<1> SUFFICES ASSUME IInv, TryNext PROVE IInv' OBVIOUS
<1> USE DEF IInv
<1>1. /\ step = "try" /\ Validate /\ spec' = spec /\ host' = host
      /\ at \in 0 .. Len(spec.fallback) /\ spec \in SpecType
  BY DEF TryNext, TypeOK
<1>2. Len(spec.fallback) \in 0 .. MaxChain BY <1>1, ChainLength DEF SpecType
<1>3. Validate' BY <1>1 DEF Validate, ValidatePrimary
<1>4. \A k : TryCreate(LevelAt(k))' = TryCreate(LevelAt(k)) BY <1>1 DEF TryCreate, LevelAt
<1>5. LevelAt(at) \in Level BY <1>1, LevelType
<1>6. ASSUME Return("Ok", LevelAt(at), at), TryCreate(LevelAt(at)) = "Ok" PROVE IInv'
  <2>1. TypeOK' BY <1>1, <1>2, <1>5, <1>6, MaxChainAssumption DEF Return, TypeOK, ResultType
  <2>2. RunsOnlyValid'
    BY <1>1, <1>6, ValidEverywhere DEF Return, RunsOnlyValid, ValidatePrimary
  <2>3. FirstSupported'
    BY <1>1, <1>2, <1>4, <1>6, MaxChainAssumption DEF Return, FirstSupported
  <2> QED BY <1>6, <2>1, <2>2, <2>3 DEF Return
<1>7. ASSUME Return("Error", NoLevel, at), TryCreate(LevelAt(at)) = "Error" PROVE IInv'
  <2>1. TypeOK' BY <1>1, <1>2, <1>7, MaxChainAssumption DEF Return, TypeOK, ResultType
  <2>2. FirstSupported'
    BY <1>1, <1>2, <1>4, <1>7, MaxChainAssumption DEF Return, FirstSupported
  <2> QED BY <1>7, <2>1, <2>2 DEF Return, RunsOnlyValid
<1>8. ASSUME TryCreate(LevelAt(at)) = "NotSupported", at < Len(spec.fallback),
             at' = at + 1, UNCHANGED <<step, result>>
      PROVE IInv'
  <2>1. TypeOK' BY <1>1, <1>2, <1>8, MaxChainAssumption DEF TypeOK
  <2>2. \A k \in 0 .. at' - 1 : TryCreate(LevelAt(k))' = "NotSupported"
    BY <1>1, <1>2, <1>4, <1>8, MaxChainAssumption
  <2> QED BY <1>1, <1>3, <1>8, <2>1, <2>2 DEF RunsOnlyValid, FirstSupported
<1>9. ASSUME TryCreate(LevelAt(at)) = "NotSupported", ~(at < Len(spec.fallback)),
             Return("NotSupported", NoLevel, 0)
      PROVE IInv'
  <2>1. TypeOK' BY <1>1, <1>2, <1>9, MaxChainAssumption DEF Return, TypeOK, ResultType
  <2>2. \A k \in 0 .. Len(spec.fallback) : TryCreate(LevelAt(k))' = "NotSupported"
    BY <1>1, <1>2, <1>4, <1>9, MaxChainAssumption
  <2>3. FirstSupported' BY <1>1, <1>9, <2>2 DEF Return, FirstSupported
  <2> QED BY <1>9, <2>1, <2>3 DEF Return, RunsOnlyValid
<1> QED BY <1>6, <1>7, <1>8, <1>9 DEF TryNext

\* A stuttering step changes nothing the invariant speaks of.
LEMMA StutterHolds == IInv /\ UNCHANGED vars => IInv'
BY DEF vars, IInv, TypeOK, Validate, ValidatePrimary, TryCreate, LevelAt,
       RunsOnlyValid, FirstSupported

\* The inductive invariant of create holds in every state.
THEOREM Walk == Spec => []IInv
<1>1. IInv /\ [Next]_vars => IInv'
  BY CheckSpecHolds, TryNextHolds, StutterHolds DEF Next
<1> QED BY InitHolds, <1>1, PTL DEF Spec

\* The place in the chain that create tries next is one the chain has.
THEOREM TypeCorrect == Spec => []TypeOK
BY Walk, PTL DEF IInv

\* However long create's fallback chain, no level that validate_primary rejects ever runs.
THEOREM OnlyValidRun == Spec => []RunsOnlyValid
BY Walk, PTL DEF IInv

\* However long the chain, create's outcome is that of the first level the host
\* supports.
THEOREM InOrder == Spec => []FirstSupported
BY Walk, PTL DEF IInv
-----------------------------------------------------------------------------
(* What the user of a fallback chain can count on.                          *)

\* A capsule that runs has the level of a place in the chain of a valid spec.
OkLevel ==
  result.kind = "Ok" =>
    Validate /\ result.of \in 0 .. Len(spec.fallback) /\ result.level = LevelAt(result.of)

LEMMA OkLevelHolds == IInv /\ OkLevel /\ [Next]_vars => OkLevel'
<1> SUFFICES ASSUME IInv, OkLevel, [Next]_vars PROVE OkLevel' OBVIOUS
<1>1. /\ spec' = spec /\ host' = host /\ Validate' = Validate /\ at \in 0 .. Len(spec.fallback)
      /\ \A k : LevelAt(k)' = LevelAt(k)
  BY DEF Next, CheckSpec, TryNext, vars, Validate, ValidatePrimary, LevelAt, IInv, TypeOK
<1>2. CASE CheckSpec BY <1>1, <1>2 DEF CheckSpec, Return, OkLevel, IInv
<1>3. CASE TryNext BY <1>1, <1>3 DEF TryNext, Return, OkLevel, IInv
<1>4. CASE UNCHANGED vars BY <1>1, <1>4 DEF vars, OkLevel
<1> QED BY <1>2, <1>3, <1>4 DEF Next

\* The level that runs is never above the one requested: the chain is only a
\* way down, although it need not be sorted.
NeverAbove == result.kind = "Ok" => SecurityLevel(result.level) <= SecurityLevel(spec.level)

\* However the chain is ordered, what create runs is at most at the security
\* level requested.
THEOREM OnlyDown == Spec => []NeverAbove
<1>1. Init => OkLevel BY DEF Init, OkLevel
<1>2. ASSUME IInv, OkLevel, result.kind = "Ok"
      PROVE  SecurityLevel(result.level) <= SecurityLevel(spec.level)
  <2>1. Len(spec.fallback) \in Nat BY <1>2, ChainLength, MaxChainAssumption DEF IInv, TypeOK, SpecType
  <2>2. CASE result.of = 0 BY <1>2, <2>2 DEF OkLevel, LevelAt, SecurityLevel
  <2>3. CASE result.of # 0
    <3>1. result.of \in 1 .. Len(spec.fallback) BY <1>2, <2>1, <2>3 DEF OkLevel
    <3> QED BY <1>2, <2>3, <3>1 DEF OkLevel, LevelAt, Validate
  <2> QED BY <2>2, <2>3
<1>3. IInv /\ OkLevel => NeverAbove BY <1>2 DEF NeverAbove
<1> QED BY <1>1, <1>3, OkLevelHolds, Walk, PTL DEF Spec

\* A chain with a Process level in it is served on every host.
ProcessServes ==
  step = "done" /\ (\E k \in 0 .. Len(spec.fallback) : LevelAt(k)[1] = "Process")
    => result.kind # "NotSupported"

\* create never returns NotSupported for a chain that has a Process level
\* anywhere, whatever the host lacks.
THEOREM ProcessIsEverywhere == Spec => []ProcessServes
<1>1. IInv => ProcessServes
  <2> SUFFICES ASSUME FirstSupported, step = "done", result.kind = "NotSupported",
                      NEW k \in 0 .. Len(spec.fallback), LevelAt(k)[1] = "Process"
               PROVE  FALSE
    BY DEF IInv, ProcessServes
  <2>1. TryCreate(LevelAt(k)) # "NotSupported" BY DEF TryCreate
  <2> DEFINE Supported == {j \in 0 .. Len(spec.fallback) : TryCreate(LevelAt(j)) # "NotSupported"}
  <2>2. k \in Supported BY <2>1
  <2>3. result.of \in Supported /\ result.kind = TryCreate(LevelAt(result.of)) BY <2>2 DEF FirstSupported
  <2> QED BY <2>3
<1> QED BY <1>1, Walk, PTL

\* How many steps create still takes, at most.
StepsLeft == IF step = "validate" THEN Len(spec.fallback) + 2
             ELSE IF step = "try" THEN Len(spec.fallback) - at + 1 ELSE 0

\* Every step of create takes it nearer to its return: no level is tried again.
CreateAdvances == [][StepsLeft' < StepsLeft]_vars

\* create tries every level at most once and then returns.
THEOREM CreateIsBounded == Spec => [](StepsLeft \in 0 .. MaxChain + 2) /\ CreateAdvances
<1>1. ASSUME IInv PROVE StepsLeft \in 0 .. MaxChain + 2
  <2>1. Len(spec.fallback) \in 0 .. MaxChain BY <1>1, ChainLength DEF IInv, TypeOK, SpecType
  <2> QED BY <1>1, <2>1, MaxChainAssumption DEF StepsLeft, IInv, TypeOK
<1>2. ASSUME IInv, Next PROVE StepsLeft' < StepsLeft
  <2>1. Len(spec.fallback) \in 0 .. MaxChain /\ at \in 0 .. Len(spec.fallback) /\ spec' = spec
    BY <1>2, ChainLength DEF IInv, TypeOK, SpecType, Next, CheckSpec, TryNext
  <2>2. CASE CheckSpec BY <1>2, <2>1, <2>2, MaxChainAssumption DEF CheckSpec, Return, StepsLeft, IInv
  <2>3. CASE TryNext BY <2>1, <2>3, MaxChainAssumption DEF TryNext, Return, StepsLeft
  <2> QED BY <1>2, <2>2, <2>3 DEF Next
<1>3. IInv /\ [Next]_vars => [StepsLeft' < StepsLeft]_vars BY <1>2
<1> QED BY <1>1, <1>3, Walk, PTL DEF Spec, CreateAdvances
=============================================================================
