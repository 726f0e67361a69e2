-------------------------- MODULE HotServiceProofs --------------------------
(***************************************************************************)
(* Theorems about the two parts of HotPostService, for every set of        *)
(* goroutines, replicas and every configuration: its circuit breaker       *)
(* (CircuitBreaker) and its details, markers and lists (HotPosts).         *)
(***************************************************************************)
EXTENDS CircuitBreaker, HotPosts, FiniteSetTheorems, TLAPS

-----------------------------------------------------------------------------
(* The breaker: CircuitBreaker.                                            *)

\* The successes a half-open breaker has counted are the latest outcomes, and
\* are not enough yet.
SuccessesInARow == IF streak.kind = "success" THEN streak.len ELSE 0
CountsOnlyTheStreak ==
    state = "half-open" =>
        successes <= SuccessesInARow /\ successes < SuccessThreshold

\* The inductive invariant.
IInv == TypeOK /\ TripsOnTime /\ HalfOpenBudget /\ CountsOnlyTheStreak

-----------------------------------------------------------------------------
(* The effective configuration.                                            *)

\* NewCircuitBreaker leaves no threshold at zero.
LEMMA Thresholds ==
    /\ FailureThreshold \in Nat \ {0}
    /\ SuccessThreshold \in Nat \ {0}
    /\ MaxHalfOpenReqs \in Nat \ {0}
  BY ConfigAssumption
     DEF FailureThreshold, SuccessThreshold, MaxHalfOpenReqs, OrDefault

\* Counting saturates at CounterCap and is exact below it.
LEMMA BumpFacts ==
    ASSUME NEW n \in 0..CounterCap
    PROVE  /\ Bump(n) \in 0..CounterCap
           /\ n < CounterCap => Bump(n) = n + 1
           /\ Bump(n) >= n
  BY CapAssumption DEF Bump

\* A streak stays a streak when it is extended.
LEMMA ExtendedFacts ==
    ASSUME TypeOK, NEW kind \in {"success", "failure"}
    PROVE  /\ Extended(kind) \in Streaks
           /\ Extended(kind).kind = kind
           /\ Extended(kind).len =
                IF streak.kind = kind THEN Bump(streak.len) ELSE 1
  <1>1. streak \in Streaks /\ 1 \in 0..CounterCap
    BY Thresholds, CapAssumption DEF TypeOK
  <1>2. Bump(streak.len) \in 0..CounterCap
    BY <1>1, BumpFacts DEF Streaks
  <1>3. QED
    BY <1>1, <1>2 DEF Extended, Streaks

\* With one failure per request the rate rule of RecordFailure never fires
\* before the threshold rule does.
LEMMA RateRuleIsDead ==
    ASSUME NEW f \in Nat, TooManyFailures(f) \/ RateExceeded(f, f)
    PROVE  f >= FailureThreshold
  BY DEF TooManyFailures, RateExceeded

-----------------------------------------------------------------------------
(* One lemma per kind of step: the inductive invariant is preserved.       *)

LEMMA InitInv == Init => IInv
  BY Thresholds, CapAssumption, ConfigAssumption
     DEF Init, IInv, TypeOK, TripsOnTime, HalfOpenBudget, CountsOnlyTheStreak,
         States, CallStates, Streaks, FailuresInARow, SuccessesInARow

LEMMA AllowInv ==
    ASSUME IInv, NEW c \in Caller, Enter(c)
    PROVE  IInv'
  <1> USE Thresholds, CapAssumption, ConfigAssumption
      DEF IInv, TypeOK, TripsOnTime, HalfOpenBudget, CountsOnlyTheStreak,
          States, FailuresInARow, SuccessesInARow, Streaks, breaker
  <1>1. call' \in [Caller -> CallStates]
    BY DEF Enter, CallStates
  <1>2. CASE AllowClosed
    BY <1>1, <1>2 DEF Enter, AllowClosed
  <1>3. CASE AllowExpired
    BY <1>1, <1>3 DEF Enter, AllowExpired
  <1>4. CASE AllowHalfOpen
    BY <1>1, <1>4 DEF Enter, AllowHalfOpen
  <1>5. QED
    BY <1>2, <1>3, <1>4 DEF Enter, Allow

LEMMA SuccessInv ==
    ASSUME IInv, RecordSuccess, call' \in [Caller -> CallStates],
           UNCHANGED redisUp
    PROVE  IInv'
  <1>1. /\ streak' \in Streaks
        /\ streak'.kind = "success"
        /\ streak'.len = IF streak.kind = "success" THEN Bump(streak.len) ELSE 1
    BY ExtendedFacts DEF RecordSuccess, IInv
  <1>2. /\ streak.len \in 0..CounterCap
        /\ Bump(successes) \in 0..CounterCap
        /\ streak.len < CounterCap => Bump(streak.len) = streak.len + 1
        /\ Bump(streak.len) >= streak.len
        /\ Bump(streak.len) \in 0..CounterCap
    BY BumpFacts DEF IInv, TypeOK, Streaks
  <1> USE Thresholds, CapAssumption, ConfigAssumption, <1>1, <1>2
      DEF IInv, TypeOK, TripsOnTime, HalfOpenBudget, CountsOnlyTheStreak,
          States, FailuresInARow, SuccessesInARow, breaker, RecordSuccess
  <1>3. CASE SuccessClosed
    BY <1>3 DEF SuccessClosed
  <1>4. CASE SuccessHalfOpen
    BY <1>4 DEF SuccessHalfOpen
  <1>5. CASE SuccessCloses
    BY <1>5 DEF SuccessCloses
  <1>6. CASE SuccessOpen
    BY <1>6 DEF SuccessOpen
  <1>7. QED
    BY <1>3, <1>4, <1>5, <1>6

LEMMA FailureInv ==
    ASSUME IInv, RecordFailure, call' \in [Caller -> CallStates],
           UNCHANGED redisUp
    PROVE  IInv'
  <1>1. /\ streak' \in Streaks
        /\ streak'.kind = "failure"
        /\ streak'.len = IF streak.kind = "failure" THEN Bump(streak.len) ELSE 1
    BY ExtendedFacts DEF RecordFailure, IInv
  <1>2. /\ Bump(failures) \in 0..CounterCap
        /\ failures < CounterCap => Bump(failures) = failures + 1
        /\ Bump(requests) \in 0..CounterCap
    BY BumpFacts DEF IInv, TypeOK
  <1> USE Thresholds, CapAssumption, ConfigAssumption, <1>1, <1>2
      DEF IInv, TypeOK, TripsOnTime, HalfOpenBudget, CountsOnlyTheStreak,
          States, FailuresInARow, SuccessesInARow, breaker, RecordFailure
  <1>3. CASE FailureClosed
    BY <1>3 DEF FailureClosed, TooManyFailures, Streaks
  <1>4. CASE FailureHalfOpen
    BY <1>4 DEF FailureHalfOpen
  <1>5. CASE FailureOpen
    BY <1>5 DEF FailureOpen
  <1>6. QED
    BY <1>3, <1>4, <1>5

LEMMA StepInv == IInv /\ [Next]_vars => IInv'
  <1> SUFFICES ASSUME IInv, [Next]_vars
               PROVE  IInv'
    OBVIOUS
  <1> USE Thresholds, CapAssumption, ConfigAssumption
      DEF IInv, TypeOK, TripsOnTime, HalfOpenBudget, CountsOnlyTheStreak,
          FailuresInARow, SuccessesInARow
  <1>1. CASE Reset
    BY <1>1 DEF Reset, States, Streaks
  <1>2. CASE Tick
    BY <1>2 DEF Tick, breaker
  <1>3. CASE RedisFlips
    BY <1>3 DEF RedisFlips, breaker
  <1>4. ASSUME NEW c \in Caller, Enter(c)
        PROVE  IInv'
    BY <1>4, AllowInv
  <1>5. ASSUME NEW c \in Caller, RedisCommand(c)
        PROVE  IInv'
    BY <1>5 DEF RedisCommand, breaker, CallStates
  <1>6. ASSUME NEW c \in Caller, Report(c)
        PROVE  IInv'
    <2>1. call' \in [Caller -> CallStates] /\ UNCHANGED redisUp
      BY <1>6 DEF Report, CallStates
    <2>2. QED
      BY <1>6, <2>1, SuccessInv, FailureInv DEF Report
  <1>7. CASE UNCHANGED vars
    BY <1>7 DEF vars, breaker
  <1>8. QED
    BY <1>1, <1>2, <1>3, <1>4, <1>5, <1>6, <1>7 DEF Next, CallerStep

\* IInv holds in every reachable state.
THEOREM Invariance == Spec => []IInv
  BY InitInv, StepInv, PTL DEF Spec

-----------------------------------------------------------------------------
(* The properties of CircuitBreaker.                                       *)

\* Every variable of the breaker keeps its type: in particular halfOpenReqs
\* never passes MaxHalfOpenReqs (Allow, StateHalfOpen).
THEOREM TypeCorrect == Spec => []TypeOK
  <1>1. IInv => TypeOK
    BY DEF IInv
  <1>2. QED
    BY <1>1, Invariance, PTL

\* A closed breaker counts exactly the failures in a row and has fewer than
\* FailureThreshold of them (RecordSuccess and RecordFailure, StateClosed).
THEOREM TripsOnTimeHolds == Spec => []TripsOnTime
  <1>1. IInv => TripsOnTime
    BY DEF IInv
  <1>2. QED
    BY <1>1, Invariance, PTL

\* A half-open breaker admits at most MaxHalfOpenReqs + 1 requests (Allow).
THEOREM HalfOpenBudgetHolds == Spec => []HalfOpenBudget
  <1>1. IInv => HalfOpenBudget
    BY DEF IInv
  <1>2. QED
    BY <1>1, Invariance, PTL

\* The breaker changes sides only on enough outcomes of one kind in a row
\* (RecordSuccess, StateHalfOpen; RecordFailure, StateClosed).
LEMMA ClosesHolds == Spec => [][Closes]_vars
  <1>1. ASSUME IInv, [Next]_vars
        PROVE  Closes
    <2> USE Thresholds, CapAssumption DEF ResetStreak, InARow, Closes
    <2>1. CASE Reset
      BY <2>1 DEF Reset
    <2>2. CASE UNCHANGED vars \/ Tick \/ RedisFlips
      BY <2>2 DEF vars, breaker, Tick, RedisFlips
    <2>3. ASSUME NEW c \in Caller, Enter(c) \/ RedisCommand(c)
          PROVE  Closes
      BY <2>3 DEF Enter, Allow, AllowClosed, AllowExpired, AllowHalfOpen,
                  RedisCommand, breaker
    <2>4. CASE RecordSuccess
      <3>1. CASE SuccessCloses
        <4>1. Extended("success").kind = "success"
              /\ Extended("success").len =
                   IF streak.kind = "success" THEN Bump(streak.len) ELSE 1
          BY ExtendedFacts, <1>1 DEF IInv
        <4>2. streak.len \in 0..CounterCap
          BY <1>1 DEF IInv, TypeOK, Streaks
        <4>3. streak'.len >= SuccessThreshold
          BY <1>1, <2>4, <3>1, <4>1, <4>2, BumpFacts
             DEF RecordSuccess, SuccessCloses, IInv, CountsOnlyTheStreak,
                 SuccessesInARow, TypeOK
        <4>4. QED
          BY <2>4, <3>1, <4>1, <4>3 DEF RecordSuccess, SuccessCloses
      <3>2. QED
        BY <2>4, <3>1 DEF RecordSuccess, SuccessClosed, SuccessHalfOpen,
                          SuccessOpen, breaker
    <2>5. CASE RecordFailure
      <3>1. CASE FailureClosed
        <4>1. Extended("failure").kind = "failure"
              /\ Extended("failure").len =
                   IF streak.kind = "failure" THEN Bump(streak.len) ELSE 1
          BY ExtendedFacts, <1>1 DEF IInv
        <4>2. /\ failures = FailuresInARow /\ requests = failures
              /\ failures < FailureThreshold /\ failures \in Nat
              /\ failures' = failures + 1 /\ requests' = failures + 1
          BY <1>1, <3>1, BumpFacts
             DEF FailureClosed, IInv, TypeOK, TripsOnTime
        <4>3. state' = "open" => failures' >= FailureThreshold
          BY <3>1, <4>2, RateRuleIsDead DEF FailureClosed
        <4>4. streak'.len = failures + 1
          BY <1>1, <2>5, <4>1, <4>2, BumpFacts
             DEF RecordFailure, FailuresInARow, IInv, TypeOK, Streaks
        <4>5. QED
          BY <2>5, <3>1, <4>1, <4>2, <4>3, <4>4
             DEF RecordFailure, FailureClosed
      <3>2. QED
        BY <2>5, <3>1 DEF RecordFailure, FailureHalfOpen, FailureOpen, breaker
    <2>6. QED
      BY <1>1, <2>1, <2>2, <2>3, <2>4, <2>5 DEF Next, CallerStep, Report
  <1>2. Spec => [][IInv /\ [Next]_vars]_vars
    BY Invariance, PTL DEF Spec
  <1>3. [IInv /\ [Next]_vars]_vars => [Closes]_vars
    BY <1>1
  <1>4. QED
    BY <1>2, <1>3, PTL

\* Until Timeout has passed since the last failure an open breaker admits
\* nobody and only Reset closes it (Allow, StateOpen; RecordFailure).
LEMMA CoolsDownHolds == Spec => [][CoolsDown]_vars
  <1>1. ASSUME TypeOK, [Next]_vars
        PROVE  CoolsDown
    <2> USE ConfigAssumption DEF ResetStreak, TypeOK, breaker, CoolsDown
    <2>1. CASE Reset
      BY <2>1 DEF Reset
    <2>2. CASE UNCHANGED vars \/ Tick \/ RedisFlips
      BY <2>2 DEF vars, Tick, RedisFlips
    <2>3. ASSUME NEW c \in Caller, Enter(c)
          PROVE  CoolsDown
      <3>1. age \in Int /\ Timeout \in Int
        BY <1>1
      <3>2. ~(state = "open" /\ age <= Timeout)
        BY <2>3, <3>1
           DEF Enter, Allow, AllowClosed, AllowExpired, AllowHalfOpen, Expired
      <3>3. QED
        BY <3>2
    <2>4. ASSUME NEW c \in Caller, RedisCommand(c)
          PROVE  CoolsDown
      BY <2>4, <1>1 DEF RedisCommand
    <2>5. ASSUME NEW c \in Caller, Report(c)
          PROVE  CoolsDown
      BY <2>5, <1>1 DEF Report, RecordSuccess, SuccessClosed, SuccessHalfOpen,
                  SuccessCloses, SuccessOpen, RecordFailure, FailureClosed,
                  FailureHalfOpen, FailureOpen
    <2>6. QED
      BY <1>1, <2>1, <2>2, <2>3, <2>4, <2>5 DEF Next, CallerStep
  <1>2. Spec => [][TypeOK /\ [Next]_vars]_vars
    BY TypeCorrect, PTL DEF Spec
  <1>3. [TypeOK /\ [Next]_vars]_vars => [CoolsDown]_vars
    BY <1>1
  <1>4. QED
    BY <1>2, <1>3, PTL

\* The breaker closes and trips only on enough outcomes in a row, and admits
\* nobody before it has cooled down, for any thresholds and goroutines.
THEOREM MovesOnEvidenceHolds == Spec => MovesOnEvidence
  <1>1. [Closes]_vars /\ [CoolsDown]_vars => [Closes /\ CoolsDown]_vars
    OBVIOUS
  <1>2. Spec => [][Closes /\ CoolsDown]_vars
    BY <1>1, ClosesHolds, CoolsDownHolds, PTL
  <1>3. QED
    BY <1>2 DEF MovesOnEvidence

-----------------------------------------------------------------------------
(* When the breaker can be stuck: the safety side of Recovers.             *)

\* Half-open, every place given away and nobody left who could report.
UnderWay == {c \in Caller : call[c] # "idle"}
Stuck == state = "half-open" /\ halfOpenReqs = MaxHalfOpenReqs /\ UnderWay = {}

\* Whom a half-open breaker let in has reported a success or is under way:
\* after a failure it would not be half-open.
PlacesAccounted ==
    /\ IsFiniteSet(UnderWay)
    /\ state = "half-open" => admitted <= successes + Cardinality(UnderWay)

\* A breaker is never stuck when the requests it lets in half-open suffice to
\* close it.
StuckOnlyIfShort == Stuck => MaxHalfOpenReqs + 1 < SuccessThreshold

\* Who enters is under way, and who reports no longer is.
LEMMA EnterWay ==
    ASSUME IInv, PlacesAccounted, NEW c \in Caller, Enter(c)
    PROVE  /\ IsFiniteSet(UnderWay')
           /\ Cardinality(UnderWay) \in Nat
           /\ Cardinality(UnderWay') = Cardinality(UnderWay) + 1
<1>1. UnderWay' = UnderWay \cup {c} /\ c \notin UnderWay
    BY DEF Enter, UnderWay, IInv, TypeOK
<1> QED BY <1>1, FS_AddElement, FS_CardinalityType DEF PlacesAccounted

LEMMA ReportWay ==
    ASSUME IInv, PlacesAccounted, NEW c \in Caller, Report(c)
    PROVE  /\ IsFiniteSet(UnderWay')
           /\ Cardinality(UnderWay) \in Nat
           /\ Cardinality(UnderWay') = Cardinality(UnderWay) - 1
<1>1. UnderWay' = UnderWay \ {c} /\ c \in UnderWay
    BY DEF Report, UnderWay, IInv, TypeOK
<1> QED BY <1>1, FS_RemoveElement, FS_CardinalityType DEF PlacesAccounted

LEMMA PlacesStep ==
    ASSUME IInv, PlacesAccounted, [Next]_vars
    PROVE  PlacesAccounted'
<1>1. successes \in Nat /\ admitted \in Nat
    BY CapAssumption DEF IInv, TypeOK
<1>2. CASE UNCHANGED <<call, state, successes, admitted>>
    BY <1>2 DEF PlacesAccounted, UnderWay
<1>3. CASE Reset
    BY <1>3 DEF Reset, PlacesAccounted, UnderWay
<1>4. ASSUME NEW c \in Caller, Enter(c) PROVE PlacesAccounted'
  <2>1. /\ IsFiniteSet(UnderWay') /\ Cardinality(UnderWay) \in Nat
        /\ Cardinality(UnderWay') = Cardinality(UnderWay) + 1
      BY <1>4, EnterWay
  <2>2. CASE AllowClosed
      BY <2>1, <2>2 DEF AllowClosed, breaker, PlacesAccounted
  <2>3. CASE AllowExpired
      BY <2>1, <2>3 DEF AllowExpired, PlacesAccounted
  <2>4. CASE AllowHalfOpen
      BY <1>1, <2>1, <2>4 DEF AllowHalfOpen, PlacesAccounted
  <2> QED BY <1>4, <2>2, <2>3, <2>4 DEF Enter, Allow
<1>5. ASSUME NEW c \in Caller, RedisCommand(c) PROVE PlacesAccounted'
  <2>1. UnderWay' = UnderWay
      BY <1>5 DEF RedisCommand, UnderWay, IInv, TypeOK
  <2> QED BY <1>5, <2>1 DEF RedisCommand, breaker, PlacesAccounted
<1>6. ASSUME NEW c \in Caller, Report(c) PROVE PlacesAccounted'
  <2>1. CASE RecordSuccess
      BY <1>1, <1>6, <2>1, ReportWay
         DEF RecordSuccess, SuccessClosed, SuccessHalfOpen, SuccessCloses, SuccessOpen,
             breaker, PlacesAccounted
  <2>2. CASE RecordFailure
      BY <1>6, <2>2, ReportWay
         DEF RecordFailure, FailureClosed, FailureHalfOpen, FailureOpen, breaker,
             PlacesAccounted
  <2> QED BY <1>6, <2>1, <2>2 DEF Report
<1> QED BY <1>2, <1>3, <1>4, <1>5, <1>6
        DEF Next, CallerStep, Tick, RedisFlips, vars, breaker

LEMMA PlacesHold == Spec => []PlacesAccounted
<1>1. Init => PlacesAccounted
  <2>1. Init => UnderWay = {}
      BY DEF Init, UnderWay
  <2> QED BY <2>1, FS_EmptySet DEF Init, PlacesAccounted
<1> QED BY <1>1, PlacesStep, Invariance, PTL DEF Spec

\* Only a configuration whose half-open places, with the one not counted, are
\* fewer than SuccessThreshold lets the breaker get stuck; the defaults 1 and 3
\* are one (DefaultCircuitBreakerConfig, Allow).
THEOREM StuckOnlyIfShortHolds == Spec => []StuckOnlyIfShort
<1>1. IInv /\ PlacesAccounted => StuckOnlyIfShort
  <2>1. SUFFICES ASSUME IInv, PlacesAccounted, Stuck
                 PROVE  MaxHalfOpenReqs + 1 < SuccessThreshold
      BY DEF StuckOnlyIfShort
  <2>2. admitted = MaxHalfOpenReqs + 1 /\ successes \in Nat /\ successes < SuccessThreshold
      BY <2>1, CapAssumption
         DEF IInv, TypeOK, Stuck, HalfOpenBudget, CountsOnlyTheStreak, SuccessesInARow
  <2>3. admitted <= successes
      BY <2>1, <2>2, FS_EmptySet DEF Stuck, PlacesAccounted
  <2> QED BY <2>2, <2>3, Thresholds
<1> QED BY <1>1, Invariance, PlacesHold, PTL

\* A stuck breaker stays stuck until somebody calls Reset, which only a test does:
\* no time, no request and no recovery of Redis helps (Allow, StateHalfOpen).
THEOREM StuckUntilReset == Spec => [][Stuck => Stuck' \/ Reset]_vars
<1>1. ASSUME TypeOK, [Next]_vars, Stuck, ~Reset PROVE Stuck'
  <2>1. UnderWay = {} /\ \A c \in Caller : call[c] = "idle"
      BY <1>1 DEF Stuck, UnderWay
  <2>2. ~ \E c \in Caller : CallerStep(c)
      BY <1>1, <2>1, Thresholds
         DEF CallerStep, Enter, RedisCommand, Report, Allow, AllowClosed, AllowExpired,
             AllowHalfOpen, Stuck
  <2>3. UNCHANGED <<call, state, halfOpenReqs>>
      BY <1>1, <2>2 DEF Next, Tick, RedisFlips, vars, breaker
  <2> QED BY <1>1, <2>3 DEF Stuck, UnderWay
<1>2. Spec => [][TypeOK /\ [Next]_vars]_vars
    BY TypeCorrect, PTL DEF Spec
<1>3. [TypeOK /\ [Next]_vars]_vars => [Stuck => Stuck' \/ Reset]_vars
    BY <1>1
<1> QED BY <1>2, <1>3, PTL

-----------------------------------------------------------------------------
(* The posts behind it: HotPosts.                                          *)

\* The arithmetic of the lifetimes: the marker in Redis dies within one of the
\* last write, so whoever is about to adopt it does so within one, and what he
\* adopts dies within two.
MarkersAge ==
    /\ redisMark > 0 => redisMark + quiet <= MarkerTTL
    /\ \A i \in Replica : mark[i] > 0 => mark[i] + quiet <= 2 * MarkerTTL - 1
    /\ \A r \in Reader : at[r] \in {"adopt", "readopt"} => quiet < MarkerTTL

HotInv == HotTypeOK /\ MarkersAge

\* What a worker is bound to is a replica.
LEMMA OnFacts ==
    ASSUME HotTypeOK, NEW w \in Worker
    PROVE  On(w) \in Replica
BY HotAssumption DEF HotTypeOK, On, Worker

\* A step of one worker: where he stands, and the faults so far.
LEMMA GoesFacts ==
    ASSUME HotTypeOK, NEW w \in Worker, NEW s \in Steps, Goes(w, s)
    PROVE  /\ at' \in [Worker -> Steps] /\ home' \in [Reader -> Replica]
           /\ at'[w] = s /\ \A v \in Worker : v # w => at'[v] = at[v]
BY DEF HotTypeOK, Goes

LEMMA HotFaultFacts ==
    ASSUME HotTypeOK, Fault \/ NoFault
    PROVE  faults' \in 0..MaxFaults
BY HotAssumption DEF HotTypeOK, Fault, NoFault

\* The marker, or the copy, of w's replica is set.
LEMMA MarkFacts ==
    ASSUME HotTypeOK, NEW w \in Worker, NEW n \in 0..MarkerTTL,
           mark' = Here(mark, w, n)
    PROVE  /\ mark' \in [Replica -> 0..MarkerTTL]
           /\ \A i \in Replica : mark'[i] = IF i = On(w) THEN n ELSE mark[i]
BY OnFacts DEF Here, HotTypeOK

LEMMA LocalFacts ==
    ASSUME HotTypeOK, NEW w \in Worker, NEW b \in BOOLEAN,
           local' = Here(local, w, b)
    PROVE  /\ local' \in [Replica -> BOOLEAN]
           /\ \A i \in Replica : local'[i] = IF i = On(w) THEN b ELSE local[i]
BY OnFacts DEF Here, HotTypeOK

LEMMA HotInitInv == HotInit => HotInv
<1>1. SUFFICES ASSUME HotInit PROVE HotInv
    OBVIOUS
<1>2. MarkerTTL \in Nat \ {0} /\ MaxFaults \in Nat /\ 1 \in 1..Len(Ranges)
    BY HotAssumption
<1>3. HotTypeOK
  <2>1. detail \in BOOLEAN /\ local \in [Replica -> BOOLEAN]
      BY <1>1 DEF HotInit
  <2>2. at \in [Worker -> Steps] /\ turn \in [Job -> 1..Len(Ranges)]
      BY <1>1, <1>2 DEF HotInit, Steps
  <2>3. mark \in [Replica -> 0..MarkerTTL]
      BY <1>1, <1>2 DEF HotInit
  <2> QED BY <1>1, <1>2, <2>1, <2>2, <2>3 DEF HotInit, HotTypeOK
<1>4. MarkersAge
    BY <1>1, HotAssumption DEF HotInit, MarkersAge, Worker
<1> QED BY <1>3, <1>4 DEF HotInv

\* Markers that stay or go break nothing, as long as nobody new adopts one.
LEMMA MarksFramed ==
    ASSUME HotInv, HotTypeOK', UNCHANGED quiet,
           redisMark' = redisMark \/ redisMark' = 0,
           \A i \in Replica : mark'[i] = mark[i] \/ mark'[i] = 0,
           \A r \in Reader : at'[r] \in {"adopt", "readopt"} => at[r] = at'[r]
    PROVE  HotInv'
BY DEF HotInv, MarkersAge

-----------------------------------------------------------------------------
(* Readers.                                                                *)

LEMMA LookInv ==
    ASSUME HotInv, NEW r \in Reader, NEW i \in Replica, LookLocal(r, i)
    PROVE  HotInv'
<1> USE DEF LookLocal, HotInv, copies, marks, lists, NoFault
<1>1. HotTypeOK'
    BY DEF HotTypeOK, Worker, Steps
<1>2. \A v \in Reader : at'[v] \in {"adopt", "readopt"} => at[v] = at'[v]
    BY DEF HotTypeOK, Worker
<1> QED BY <1>1, <1>2, MarksFramed

\* A reader goes to adopt a marker only when it finds one in Redis.
LEMMA AskInv ==
    ASSUME HotInv, NEW r \in Reader, IsEmptyCached(r)
    PROVE  HotInv'
<1> USE DEF HotInv
<1>1. UNCHANGED <<row, copies, marks, lists>> /\ (Fault \/ NoFault)
    BY DEF IsEmptyCached
<1>2. PICK s \in Steps : /\ Goes(r, s)
                         /\ s \in {"adopt", "readopt"} => redisMark # 0
    BY DEF IsEmptyCached, Steps
<1>3. HotTypeOK'
    BY <1>1, <1>2, GoesFacts, HotFaultFacts
       DEF HotTypeOK, copies, marks, lists, Worker
<1>4. at'[r] = s /\ \A v \in Reader : v # r => at'[v] = at[v]
    BY <1>2, GoesFacts DEF Worker
<1>5. redisMark # 0 => quiet < MarkerTTL
    BY HotAssumption DEF HotTypeOK, MarkersAge
<1> QED BY <1>1, <1>2, <1>3, <1>4, <1>5 DEF MarkersAge, marks

LEMMA AdoptInv ==
    ASSUME HotInv, NEW r \in Reader, Adopt(r)
    PROVE  HotInv'
<1> USE DEF HotInv
<1>1. MarkerTTL \in 0..MarkerTTL /\ r \in Worker
    BY HotAssumption DEF Worker
<1>2. PICK s \in {"recheck", "idle"} : Goes(r, s)
    BY DEF Adopt
<1>3. /\ at' \in [Worker -> Steps] /\ home' \in [Reader -> Replica]
      /\ at'[r] = s /\ \A v \in Worker : v # r => at'[v] = at[v]
    BY <1>1, <1>2, GoesFacts DEF Steps
<1>4. /\ mark' \in [Replica -> 0..MarkerTTL]
      /\ \A i \in Replica : mark'[i] = IF i = On(r) THEN MarkerTTL ELSE mark[i]
    BY <1>1, MarkFacts DEF Adopt
<1>5. HotTypeOK'
    BY <1>3, <1>4 DEF Adopt, HotTypeOK, NoFault, copies, lists
<1>6. quiet < MarkerTTL
    BY DEF Adopt, MarkersAge
<1>7. MarkersAge'
    BY <1>3, <1>4, <1>6, HotAssumption DEF Adopt, HotTypeOK, MarkersAge, Worker
<1> QED BY <1>5, <1>7

\* Looks at the copies and at the row.
LEMMA ReadInv ==
    ASSUME HotInv, NEW r \in Reader, ReadDetail(r) \/ Keep(r) \/ Fetch(r)
    PROVE  HotInv'
<1> USE DEF HotInv
<1>1. r \in Worker /\ UNCHANGED <<row, detail, marks, lists>> /\ (Fault \/ NoFault)
    BY DEF ReadDetail, Keep, Fetch, Worker, copies
<1>2. PICK s \in Steps \ {"adopt", "readopt"} : Goes(r, s)
    BY DEF ReadDetail, Keep, Fetch, AfterNil, Steps
<1>3. local' \in [Replica -> BOOLEAN]
  <2>1. local' = Here(local, r, TRUE) => local' \in [Replica -> BOOLEAN]
      BY <1>1, LocalFacts
  <2> QED BY <2>1 DEF ReadDetail, Keep, Fetch, copies, HotTypeOK
<1>4. HotTypeOK'
    BY <1>1, <1>2, <1>3, GoesFacts, HotFaultFacts DEF HotTypeOK, marks, lists
<1>5. \A v \in Reader : at'[v] \in {"adopt", "readopt"} => at[v] = at'[v]
    BY <1>1, <1>2, GoesFacts DEF Worker
<1> QED BY <1>1, <1>4, <1>5, MarksFramed DEF marks

\* CacheEmpty starts both lifetimes and the time since.
LEMMA EmptyInv ==
    ASSUME HotInv, NEW r \in Reader, CacheEmptyLocal(r) \/ CacheEmptyRedis(r)
    PROVE  HotInv'
<1> USE DEF HotInv
<1>1. /\ MarkerTTL \in 0..MarkerTTL /\ MarkerTTL \in Nat \ {0} /\ r \in Worker
      /\ 0 \in 0..(2 * MarkerTTL - 1)
    BY HotAssumption DEF Worker
<1>2. PICK s \in {"emptyRedis", "idle"} : Goes(r, s)
    BY DEF CacheEmptyLocal, CacheEmptyRedis
<1>3. /\ at' \in [Worker -> Steps] /\ home' \in [Reader -> Replica]
      /\ at'[r] = s /\ \A v \in Worker : v # r => at'[v] = at[v]
    BY <1>1, <1>2, GoesFacts DEF Steps
<1>4. UNCHANGED <<row, copies, lists>> /\ (Fault \/ NoFault)
    BY DEF CacheEmptyLocal, CacheEmptyRedis
<1>5. CASE CacheEmptyLocal(r)
  <2>1. /\ mark' \in [Replica -> 0..MarkerTTL]
        /\ \A i \in Replica : mark'[i] = IF i = On(r) THEN MarkerTTL ELSE mark[i]
      BY <1>1, <1>5, MarkFacts DEF CacheEmptyLocal
  <2>2. HotTypeOK'
      BY <1>1, <1>3, <1>4, <1>5, <2>1, HotFaultFacts
         DEF CacheEmptyLocal, HotTypeOK, copies, lists
  <2>3. MarkersAge'
      BY <1>1, <1>3, <1>5, <2>1 DEF CacheEmptyLocal, HotTypeOK, MarkersAge, Worker
  <2> QED BY <2>2, <2>3
<1>6. CASE CacheEmptyRedis(r)
  <2>1. HotTypeOK'
      BY <1>1, <1>3, <1>4, <1>6, HotFaultFacts
         DEF CacheEmptyRedis, HotTypeOK, copies, lists
  <2>2. MarkersAge'
      BY <1>1, <1>3, <1>6 DEF CacheEmptyRedis, HotTypeOK, MarkersAge, Worker
  <2> QED BY <2>1, <2>2
<1> QED BY <1>5, <1>6

-----------------------------------------------------------------------------
(* Copies, the job and the writers: their markers stay or go.              *)

\* A step of somebody who may remove markers and adopts none.
LEMMA WorkerInv ==
    ASSUME HotInv, NEW w \in Worker,
           UNCHANGED quiet, Fault \/ NoFault,
           row' \in {"none", "live", "deleted"}, detail' \in BOOLEAN,
           local' = local \/ \E b \in BOOLEAN : local' = Here(local, w, b),
           mark' = mark \/ mark' = Here(mark, w, 0),
           redisMark' = redisMark \/ redisMark' = 0,
           listed' \subseteq {Ranges[n] : n \in 1..Len(Ranges)},
           turn' \in [Job -> 1..Len(Ranges)],
           Stay \/ \E s \in Steps \ {"adopt", "readopt"} : Goes(w, s)
    PROVE  HotInv'
<1> USE DEF HotInv
<1>1. 0 \in 0..MarkerTTL
    BY HotAssumption
<1>2. /\ mark' \in [Replica -> 0..MarkerTTL]
      /\ \A i \in Replica : mark'[i] = mark[i] \/ mark'[i] = 0
  <2>1. CASE mark' = mark
      BY <2>1 DEF HotTypeOK
  <2>2. CASE mark' = Here(mark, w, 0)
      BY <1>1, <2>2, MarkFacts
  <2> QED BY <2>1, <2>2
<1>3. local' \in [Replica -> BOOLEAN]
  <2>1. CASE local' = local
      BY <2>1 DEF HotTypeOK
  <2>2. ASSUME NEW b \in BOOLEAN, local' = Here(local, w, b)
        PROVE  local' \in [Replica -> BOOLEAN]
      BY <2>2, LocalFacts
  <2> QED BY <2>1, <2>2
<1>4. /\ at' \in [Worker -> Steps] /\ home' \in [Reader -> Replica]
      /\ \A r \in Reader : at'[r] \in {"adopt", "readopt"} => at[r] = at'[r]
  <2>1. CASE Stay
      BY <2>1 DEF Stay, HotTypeOK
  <2>2. ASSUME NEW s \in Steps \ {"adopt", "readopt"}, Goes(w, s)
        PROVE  /\ at' \in [Worker -> Steps] /\ home' \in [Reader -> Replica]
               /\ \A r \in Reader : at'[r] \in {"adopt", "readopt"} => at[r] = at'[r]
      BY <2>2, GoesFacts DEF Worker
  <2> QED BY <2>1, <2>2
<1>5. HotTypeOK'
    BY <1>1, <1>2, <1>3, <1>4, HotFaultFacts DEF HotTypeOK
<1> QED BY <1>2, <1>4, <1>5, MarksFramed

LEMMA CachePostDetailInv ==
    ASSUME HotInv, NEW w \in Reader \cup Job, CachePostDetail(w)
    PROVE  HotInv'
<1>0. w \in Worker /\ HotTypeOK
    BY DEF Worker, HotInv
<1>1. \E s \in Steps \ {"adopt", "readopt"} : Goes(w, s)
    BY DEF CachePostDetail, CacheLocal, Unmark, StoreDetail, Steps
<1>2. detail' \in BOOLEAN
  <2>1. CASE UNCHANGED detail
      BY <1>0, <2>1 DEF HotTypeOK
  <2>2. CASE detail' = TRUE
      BY <2>2
  <2> QED BY <2>1, <2>2 DEF CachePostDetail, CacheLocal, Unmark, StoreDetail, copies
<1>3. /\ UNCHANGED <<row, quiet, listed, turn>> /\ (Fault \/ NoFault)
      /\ local' = local \/ \E b \in BOOLEAN : local' = Here(local, w, b)
      /\ mark' = mark \/ mark' = Here(mark, w, 0)
      /\ redisMark' = redisMark \/ redisMark' = 0
    BY DEF CachePostDetail, CacheLocal, Unmark, StoreDetail, marks, lists, copies
<1> QED BY <1>0, <1>1, <1>2, <1>3, WorkerInv DEF HotTypeOK

LEMMA RunInv ==
    ASSUME HotInv, NEW j \in Job, Run(j)
    PROVE  HotInv'
<1>0. /\ j \in Worker /\ HotTypeOK /\ Len(Ranges) \in Nat \ {0} /\ turn[j] \in 1..Len(Ranges)
      /\ \A n \in 1..Len(Ranges) : TurnAfter(n) \in 1..Len(Ranges)
    BY HotAssumption DEF Worker, HotInv, HotTypeOK, TurnAfter
<1>1. CASE CachePostDetail(j)
    BY <1>1, CachePostDetailInv
<1>2. CASE GetRecentPosts(j) \/ UpdatePostScore(j) \/ Cleanup(j)
  <2>1. Stay \/ \E s \in Steps \ {"adopt", "readopt"} : Goes(j, s)
      BY <1>2 DEF GetRecentPosts, UpdatePostScore, Cleanup, Steps
  <2>2. /\ UNCHANGED <<row, copies, marks>> /\ (Fault \/ NoFault)
      BY <1>2 DEF GetRecentPosts, UpdatePostScore, Cleanup, Fault, NoFault
  <2>3. turn' \in [Job -> 1..Len(Ranges)]
    <3>1. turn' \in {turn, [turn EXCEPT ![j] = TurnAfter(@)], [turn EXCEPT ![j] = 1]}
        BY <1>2 DEF GetRecentPosts, UpdatePostScore, Cleanup, lists
    <3>2. TurnAfter(turn[j]) \in 1..Len(Ranges) /\ 1 \in 1..Len(Ranges)
        BY <1>0
    <3> QED BY <1>0, <3>1, <3>2 DEF HotTypeOK
  <2>4. listed' \subseteq {Ranges[n] : n \in 1..Len(Ranges)}
      BY <1>0, <1>2 DEF GetRecentPosts, UpdatePostScore, Cleanup, AfterCleanup,
                        lists, HotTypeOK
  <2> QED BY <1>0, <2>1, <2>2, <2>3, <2>4, WorkerInv DEF HotTypeOK, copies, marks
<1> QED BY <1>1, <1>2 DEF Run

LEMMA WriterInv ==
    ASSUME HotInv, NEW w \in Writer, Create(w) \/ Change(w) \/ DeletePostCache(w)
    PROVE  HotInv'
<1>0. w \in Worker /\ HotTypeOK
    BY DEF Worker, HotInv
<1>1. Stay \/ \E s \in Steps \ {"adopt", "readopt"} : Goes(w, s)
    BY DEF Create, Change, DeletePostCache, SweepLocal, SweepMark, SweepDetail,
           Stay, Steps
<1>2. detail' \in BOOLEAN
  <2>1. CASE UNCHANGED detail
      BY <1>0, <2>1 DEF HotTypeOK
  <2>2. CASE detail' = FALSE
      BY <2>2
  <2> QED BY <2>1, <2>2 DEF Create, Change, DeletePostCache, SweepLocal, SweepMark,
                            SweepDetail, copies
<1>3. /\ UNCHANGED <<quiet, listed, turn>> /\ (Fault \/ NoFault)
      /\ row' \in {"none", "live", "deleted"}
      /\ local' = local \/ \E b \in BOOLEAN : local' = Here(local, w, b)
      /\ mark' = mark \/ mark' = Here(mark, w, 0)
      /\ redisMark' = redisMark \/ redisMark' = 0
    BY <1>0 DEF Create, Change, DeletePostCache, SweepLocal, SweepMark, SweepDetail,
           marks, lists, copies, HotTypeOK
<1> QED BY <1>0, <1>1, <1>2, <1>3, WorkerInv DEF HotTypeOK

-----------------------------------------------------------------------------
(* Time.                                                                   *)

\* A tick takes from every marker at least what it adds to the time since,
\* which stands still while a marker waits to be adopted.
LEMMA TimeInv == ASSUME HotInv, TimePasses PROVE HotInv'
<1> USE DEF HotInv, TimePasses
<1>1. /\ MarkerTTL \in Nat \ {0} /\ redisMark \in 0..MarkerTTL
      /\ quiet \in 0..(2 * MarkerTTL - 1)
      /\ mark \in [Replica -> 0..MarkerTTL]
    BY HotAssumption DEF HotTypeOK
<1>2. /\ redisMark' \in 0..MarkerTTL
      /\ quiet' \in 0..(2 * MarkerTTL - 1)
      /\ redisMark' > 0 => redisMark' = redisMark - 1
    BY <1>1 DEF Older
<1>3. /\ mark' \in [Replica -> 0..MarkerTTL]
      /\ \A i \in Replica : mark'[i] > 0 => mark'[i] = mark[i] - 1
    BY <1>1 DEF Older
<1>4. HotTypeOK'
    BY <1>2, <1>3 DEF HotTypeOK, copies, lists, NoFault
<1>5. quiet' = quiet + 1 \/ quiet' = quiet
    BY <1>1
<1>6. MarkersAge'
  <2>1. redisMark' > 0 => redisMark' + quiet' <= MarkerTTL
      BY <1>1, <1>2, <1>5 DEF MarkersAge
  <2>2. \A i \in Replica : mark'[i] > 0 => mark'[i] + quiet' <= 2 * MarkerTTL - 1
      BY <1>1, <1>3, <1>5 DEF MarkersAge
  <2>3. \A r \in Reader : at'[r] \in {"adopt", "readopt"} => quiet' < MarkerTTL
      BY DEF MarkersAge, MarkInHand
  <2> QED BY <2>1, <2>2, <2>3 DEF MarkersAge
<1> QED BY <1>4, <1>6

LEMMA ExpiryInv ==
    ASSUME HotInv, DetailExpires \/ \E i \in Replica : LocalExpires(i)
    PROVE  HotInv'
<1>1. /\ UNCHANGED <<row, marks, lists, at, home, faults>>
      /\ detail' \in BOOLEAN /\ local' \in [Replica -> BOOLEAN]
  <2>1. CASE DetailExpires
      BY <2>1 DEF DetailExpires, NoFault, HotInv, HotTypeOK
  <2>2. ASSUME NEW i \in Replica, LocalExpires(i)
        PROVE  /\ UNCHANGED <<row, marks, lists, at, home, faults>>
               /\ detail' \in BOOLEAN /\ local' \in [Replica -> BOOLEAN]
    <3>1. detail \in BOOLEAN /\ local \in [Replica -> BOOLEAN]
        BY DEF HotInv, HotTypeOK
    <3>2. local' \in [Replica -> BOOLEAN]
        BY <2>2, <3>1 DEF LocalExpires
    <3> QED BY <2>2, <3>1, <3>2 DEF LocalExpires, NoFault
  <2> QED BY <2>1, <2>2
<1> QED BY <1>1 DEF HotInv, HotTypeOK, MarkersAge, marks, lists

\* A restart takes the markers of its replica and whoever was about to adopt one.
LEMMA RestartInv ==
    ASSUME HotInv, NEW i \in Replica, Restart(i)
    PROVE  HotInv'
<1> USE DEF HotInv, Restart
<1>1. /\ 0 \in 0..MarkerTTL /\ 1 \in 1..Len(Ranges) /\ "idle" \in Steps
    BY HotAssumption DEF Steps
<1>2. /\ mark' \in [Replica -> 0..MarkerTTL]
      /\ \A k \in Replica : mark'[k] = mark[k] \/ mark'[k] = 0
    BY <1>1 DEF HotTypeOK
<1>3. local' \in [Replica -> BOOLEAN] /\ turn' \in [Job -> 1..Len(Ranges)]
    BY <1>1 DEF HotTypeOK
<1>4. /\ at' \in [Worker -> Steps]
      /\ \A w \in Worker : at'[w] = "idle" \/ at'[w] = at[w]
    BY <1>1 DEF HotTypeOK
<1>5. HotTypeOK'
    BY <1>2, <1>3, <1>4, HotFaultFacts DEF HotTypeOK
<1> QED BY <1>2, <1>4, <1>5, MarksFramed DEF Worker

LEMMA HotStepInv == HotInv /\ [HotNext]_hotVars => HotInv'
<1>1. SUFFICES ASSUME HotInv, [HotNext]_hotVars PROVE HotInv'
    OBVIOUS
<1>2. CASE UNCHANGED hotVars
    BY <1>1, <1>2 DEF hotVars, copies, marks, lists, HotInv, HotTypeOK, MarkersAge
<1>3. ASSUME NEW r \in Reader, (\E i \in Replica : LookLocal(r, i)) \/ ReaderStep(r)
      PROVE  HotInv'
    BY <1>1, <1>3, LookInv, AskInv, AdoptInv, ReadInv, EmptyInv, CachePostDetailInv
       DEF ReaderStep
<1>4. ASSUME NEW j \in Job, Run(j) PROVE HotInv'
    BY <1>1, <1>4, RunInv
<1>5. ASSUME NEW w \in Writer, Create(w) \/ Change(w) \/ DeletePostCache(w) PROVE HotInv'
    BY <1>1, <1>5, WriterInv
<1>6. CASE TimePasses \/ DetailExpires \/ \E i \in Replica : LocalExpires(i) \/ Restart(i)
    BY <1>1, <1>6, TimeInv, ExpiryInv, RestartInv
<1> QED BY <1>1, <1>2, <1>3, <1>4, <1>5, <1>6 DEF HotNext

-----------------------------------------------------------------------------
(* The properties of HotPosts.                                             *)

\* HotInv holds in every reachable state.
THEOREM HotInvariance == HotSpec => []HotInv
BY HotInitInv, HotStepInv, PTL DEF HotSpec

\* Types: a marker never has more than one lifetime left (CacheEmpty,
\* IsEmptyCached), and the job's turn is one of its ranges.
THEOREM HotTypeCorrect == HotSpec => []HotTypeOK
<1>1. HotInv => HotTypeOK
    BY DEF HotInv
<1> QED BY <1>1, HotInvariance, PTL

\* However often replicas pick a marker up from Redis, none answers "not found"
\* two lifetimes after the last look that found no row (IsEmptyCached).
THEOREM MarkersAreShortHolds == HotSpec => []MarkersAreShort
<1>1. HotInv => MarkersAreShort
    BY HotAssumption DEF HotInv, HotTypeOK, MarkersAge, MarkersAreShort
<1> QED BY <1>1, HotInvariance, PTL

\* The steps that write a copy or pick one up need a copy, a carrier of one or
\* a live row.
LEMMA GoneStays == ASSUME HotTypeOK, Gone, [HotNext]_hotVars PROVE Gone'
<1> USE DEF Gone
<1>1. /\ at \in [Worker -> Steps] /\ local \in [Replica -> BOOLEAN]
      /\ \A w \in Worker : at[w] \notin Carrying
    BY DEF HotTypeOK
<1>2. CASE UNCHANGED hotVars
    BY <1>2 DEF hotVars, copies
<1>3. ASSUME NEW w \in Worker, UNCHANGED <<row, copies>>,
             UNCHANGED at \/ \E s \in Steps \ Carrying : at' = [at EXCEPT ![w] = s]
      PROVE  Gone'
  <2>1. \A v \in Worker : at'[v] \notin Carrying
      BY <1>1, <1>3
  <2> QED BY <1>3, <2>1 DEF copies
<1>4. ASSUME NEW r \in Reader, (\E i \in Replica : LookLocal(r, i)) \/ ReaderStep(r)
      PROVE  Gone'
  <2>1. ~CachePostDetail(r) /\ ~Keep(r) /\ r \in Worker
      BY <1>1 DEF CachePostDetail, CacheLocal, Unmark, StoreDetail, Keep, Carrying, Worker
  <2>2. UNCHANGED <<row, copies>>
      BY <1>4, <2>1 DEF LookLocal, ReaderStep, IsEmptyCached, Adopt, ReadDetail, Fetch,
                        CacheEmptyLocal, CacheEmptyRedis, copies
  <2>3. \E s \in Steps \ Carrying : at' = [at EXCEPT ![r] = s]
      BY <1>4, <2>1 DEF LookLocal, ReaderStep, IsEmptyCached, Adopt, ReadDetail, Fetch,
                        AfterNil, CacheEmptyLocal, CacheEmptyRedis, Goes, Steps,
                        Carrying
  <2> QED BY <1>3, <2>1, <2>2, <2>3
<1>5. ASSUME NEW j \in Job, Run(j) PROVE Gone'
  <2>1. ~CachePostDetail(j) /\ ~UpdatePostScore(j) /\ j \in Worker
      BY <1>1 DEF CachePostDetail, CacheLocal, Unmark, StoreDetail, UpdatePostScore,
                  Carrying, Worker
  <2>2. GetRecentPosts(j) \/ Cleanup(j)
      BY <1>5, <2>1 DEF Run
  <2>3. UNCHANGED <<row, copies>>
      BY <2>2 DEF GetRecentPosts, Cleanup
  <2>4. UNCHANGED at \/ \E s \in Steps \ Carrying : at' = [at EXCEPT ![j] = s]
      BY <2>2 DEF GetRecentPosts, Recent, Cleanup, Goes, Stay, Steps, Carrying
  <2> QED BY <1>3, <2>1, <2>3, <2>4
<1>6. ASSUME NEW w \in Writer, Create(w) \/ Change(w) \/ DeletePostCache(w) PROVE Gone'
  <2>1. DeletePostCache(w) /\ w \in Worker
      BY <1>6 DEF Create, Change, Worker
  <2>2. \E s \in Steps \ Carrying : Goes(w, s)
      BY <2>1 DEF DeletePostCache, SweepLocal, SweepMark, SweepDetail, Steps, Carrying
  <2>3. \A v \in Worker : at'[v] \notin Carrying
      BY <1>1, <2>1, <2>2 DEF Goes
  <2>4. UNCHANGED row /\ ~detail'
    <3>1. UNCHANGED row /\ (detail' = detail \/ detail' = FALSE)
        BY <2>1 DEF DeletePostCache, SweepLocal, SweepMark, SweepDetail, copies
    <3>2. CASE detail' = detail
        BY <3>1, <3>2, Zenon
    <3>3. CASE detail' = FALSE
        BY <3>1, <3>3, Zenon
    <3> QED BY <3>1, <3>2, <3>3
  <2>5. \A i \in Replica : ~local'[i]
      BY <1>1, <2>1 DEF DeletePostCache, SweepLocal, SweepMark, SweepDetail, copies, Here
  <2> QED BY <2>3, <2>4, <2>5
<1>7. CASE TimePasses \/ DetailExpires \/ \E i \in Replica : LocalExpires(i)
    BY <1>7 DEF TimePasses, DetailExpires, LocalExpires, copies
<1>8. ASSUME NEW i \in Replica, Restart(i) PROVE Gone'
  <2>1. \A w \in Worker : at'[w] \notin Carrying
      BY <1>1, <1>8 DEF Restart, Carrying
  <2>2. UNCHANGED <<row, detail>> /\ \A k \in Replica : ~local'[k]
      BY <1>1, <1>8 DEF Restart
  <2> QED BY <2>1, <2>2
<1> QED BY <1>2, <1>4, <1>5, <1>6, <1>7, <1>8 DEF HotNext

\* Neither readers nor the job bring a deleted post back that is in no cache
\* and that nobody carries (GetPostDetailWithFallback, CronScheduler.Run).
THEOREM NoRevivalHolds == HotSpec => NoRevival
<1>1. HotSpec => [][HotTypeOK /\ [HotNext]_hotVars]_hotVars
    BY HotTypeCorrect, PTL DEF HotSpec
<1>2. [HotTypeOK /\ [HotNext]_hotVars]_hotVars => [Gone => Gone']_hotVars
    BY GoneStays
<1>3. HotSpec => [][Gone => Gone']_hotVars
    BY <1>1, <1>2, PTL
<1> QED BY <1>3 DEF NoRevival

\* The safety side of MarkersDieOut: a live post without markers, with nobody
\* about to write one from a look at the row before it was there.
Clear ==
    /\ row = "live" /\ Unmarked
    /\ \A r \in Reader : at[r] \notin {"adopt", "readopt", "empty", "emptyRedis"}

LEMMA ClearStep ==
    ASSUME HotTypeOK, Clear, row' = "live", [HotNext]_hotVars
    PROVE  Clear'
<1> USE DEF Clear, Unmarked
<1> DEFINE Still == \A i \in Replica : mark'[i] = 0
           Unlooked == \A r \in Reader :
                        at'[r] \notin {"adopt", "readopt", "empty", "emptyRedis"}
<1>1. at \in [Worker -> Steps] /\ mark \in [Replica -> 0..MarkerTTL]
    BY DEF HotTypeOK
<1>2. CASE UNCHANGED hotVars
    BY <1>2 DEF hotVars, marks
<1>3. ASSUME NEW w \in Worker, mark' = mark \/ mark' = Here(mark, w, 0)
      PROVE  Still
    BY <1>1, <1>3 DEF Here
<1>4. ASSUME NEW w \in Worker,
             \/ UNCHANGED at
             \/ \E s \in Steps \ {"adopt", "readopt", "empty", "emptyRedis"} :
                    at' = [at EXCEPT ![w] = s]
      PROVE  Unlooked
    BY <1>1, <1>4 DEF Worker
<1>5. ASSUME NEW r \in Reader, (\E i \in Replica : LookLocal(r, i)) \/ ReaderStep(r)
      PROVE  Clear'
  <2>1. r \in Worker /\ ~Adopt(r) /\ ~CacheEmptyLocal(r) /\ ~CacheEmptyRedis(r)
      BY DEF Adopt, CacheEmptyLocal, CacheEmptyRedis, Worker
  <2>2. \E s \in Steps \ {"adopt", "readopt", "empty", "emptyRedis"} :
            at' = [at EXCEPT ![r] = s]
      BY <1>5, <2>1 DEF LookLocal, ReaderStep, IsEmptyCached, ReadDetail, Keep, Fetch, AfterNil,
            CachePostDetail, CacheLocal, Unmark, StoreDetail, Goes, Steps
  <2>3. redisMark' = 0 /\ (mark' = mark \/ mark' = Here(mark, r, 0))
      BY <1>5, <2>1 DEF LookLocal, ReaderStep, IsEmptyCached, ReadDetail, Keep, Fetch,
            CachePostDetail, CacheLocal, Unmark, StoreDetail, marks
  <2> QED BY <1>3, <1>4, <2>1, <2>2, <2>3
<1>6. ASSUME NEW j \in Job, Run(j) PROVE Clear'
  <2>1. \/ UNCHANGED at
        \/ \E s \in Steps \ {"adopt", "readopt", "empty", "emptyRedis"} :
                at' = [at EXCEPT ![j] = s]
      BY <1>6 DEF Run, GetRecentPosts, UpdatePostScore, Cleanup, CachePostDetail,
            CacheLocal, Unmark, StoreDetail, Goes, Stay, Steps
  <2>2. redisMark' = 0 /\ (mark' = mark \/ mark' = Here(mark, j, 0))
      BY <1>6 DEF Run, GetRecentPosts, UpdatePostScore, Cleanup, CachePostDetail,
            CacheLocal, Unmark, StoreDetail, marks
  <2> QED BY <1>3, <1>4, <2>1, <2>2 DEF Worker
<1>7. ASSUME NEW w \in Writer, Create(w) \/ Change(w) \/ DeletePostCache(w) PROVE Clear'
  <2>1. \/ UNCHANGED at
        \/ \E s \in Steps \ {"adopt", "readopt", "empty", "emptyRedis"} :
                at' = [at EXCEPT ![w] = s]
      BY <1>7 DEF Create, Change, DeletePostCache, SweepLocal, SweepMark, SweepDetail,
            Goes, Stay, Steps
  <2>2. redisMark' = 0 /\ (mark' = mark \/ mark' = Here(mark, w, 0))
      BY <1>7 DEF Create, Change, DeletePostCache, SweepLocal, SweepMark, SweepDetail, marks
  <2> QED BY <1>3, <1>4, <2>1, <2>2 DEF Worker
<1>8. CASE TimePasses
    BY <1>1, <1>8 DEF TimePasses, Older
<1>9. CASE DetailExpires \/ \E i \in Replica : LocalExpires(i)
    BY <1>9 DEF DetailExpires, LocalExpires, marks
<1>10. ASSUME NEW i \in Replica, Restart(i) PROVE Clear'
  <2>1. \A w \in Worker : at'[w] = "idle" \/ at'[w] = at[w]
      BY <1>10 DEF Restart
  <2>2. \A k \in Replica : mark'[k] = 0
      BY <1>1, <1>10 DEF Restart
  <2> QED BY <1>10, <2>1, <2>2 DEF Restart, Worker
<1> QED BY <1>2, <1>5, <1>6, <1>7, <1>8, <1>9, <1>10 DEF HotNext

\* Once a live post is free of markers nobody writes one again while it lives:
\* what MarkersDieOut says comes about stays (CacheEmpty, IsEmptyCached).
THEOREM ClearStays == HotSpec => [][Clear /\ row' = "live" => Clear']_hotVars
<1>1. HotSpec => [][HotTypeOK /\ [HotNext]_hotVars]_hotVars
    BY HotTypeCorrect, PTL DEF HotSpec
<1>2. [HotTypeOK /\ [HotNext]_hotVars]_hotVars => [Clear /\ row' = "live" => Clear']_hotVars
    BY ClearStep
<1> QED BY <1>1, <1>2, PTL
=============================================================================
