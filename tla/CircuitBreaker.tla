--------------------------- MODULE CircuitBreaker ---------------------------
(***************************************************************************)
(* The circuit breaker of the post service (post/internal/repository/      *)
(* circuit_breaker.go) and the goroutines of HotPostService that call it.  *)
(*                                                                         *)
(* A goroutine asks Allow, then talks to Redis, then records what Redis    *)
(* answered.  The mutex covers Allow and each Record separately, so what   *)
(* is recorded may belong to a request admitted in an earlier state of the *)
(* breaker: that is the hazard the properties below are about.             *)
(***************************************************************************)
EXTENDS Integers, FiniteSets

CONSTANTS
    Caller,                \* request goroutines of HotPostService
    ConfFailureThreshold,  \* CircuitBreakerConfig as given; 0 means default
    ConfSuccessThreshold,
    ConfMaxHalfOpenReqs,
    RateNum, RateDen,      \* FailureRate = RateNum / RateDen
    Timeout,               \* Timeout, in ticks of the model's clock
    CounterCap             \* counters saturate here: bound of the model

OrDefault(given, default) == IF given = 0 THEN default ELSE given

FailureThreshold == OrDefault(ConfFailureThreshold, 5)
SuccessThreshold == OrDefault(ConfSuccessThreshold, 3)
MaxHalfOpenReqs == OrDefault(ConfMaxHalfOpenReqs, 1)

ASSUME ConfigAssumption ==
    /\ ConfFailureThreshold \in Nat
    /\ ConfSuccessThreshold \in Nat
    /\ ConfMaxHalfOpenReqs \in Nat
    /\ RateNum \in Nat /\ RateDen \in Nat \ {0}
    /\ Timeout \in Nat \ {0}

\* No guard distinguishes values at or above the cap.
ASSUME CapAssumption ==
    /\ CounterCap \in Nat
    /\ CounterCap >= FailureThreshold
    /\ CounterCap >= SuccessThreshold

VARIABLES
    state,         \* cb.state
    failures,      \* cb.failures
    successes,     \* cb.successes
    requests,      \* cb.requests
    halfOpenReqs,  \* cb.halfOpenReqs
    age,           \* time.Since(cb.lastFailTime), saturated past Timeout
    call,          \* where each caller stands
    redisUp,       \* whether Redis answers
    streak,        \* history: the last outcomes recorded, all of one kind
    admitted       \* history: requests let through in this half-open period

breaker == <<state, failures, successes, requests, halfOpenReqs>>
vars == <<breaker, age, call, redisUp, streak, admitted>>

States == {"closed", "open", "half-open"}
CallStates == {"idle", "admitted", "succeeded", "failed"}
Streaks == [kind : {"success", "failure"}, len : 0..CounterCap]

Bump(n) == IF n < CounterCap THEN n + 1 ELSE n
Extended(kind) ==
    [kind |-> kind, len |-> IF streak.kind = kind THEN Bump(streak.len) ELSE 1]

TypeOK ==
    /\ state \in States
    /\ failures \in 0..CounterCap
    /\ successes \in 0..CounterCap
    /\ requests \in 0..CounterCap
    /\ halfOpenReqs \in 0..MaxHalfOpenReqs
    /\ age \in 0..(Timeout + 1)
    /\ call \in [Caller -> CallStates]
    /\ redisUp \in BOOLEAN
    /\ streak \in Streaks
    /\ admitted \in 0..(MaxHalfOpenReqs + 1)

\* NewCircuitBreaker: lastFailTime is the zero time, long ago.
Init ==
    /\ state = "closed"
    /\ failures = 0 /\ successes = 0 /\ requests = 0 /\ halfOpenReqs = 0
    /\ age = Timeout + 1
    /\ call = [c \in Caller |-> "idle"]
    /\ redisUp = TRUE
    /\ streak = [kind |-> "success", len |-> 0]
    /\ admitted = 0

-----------------------------------------------------------------------------
(* Faults seeded one at a time by the mutation runs; the specification     *)
(* does not use them.                                                      *)

FaultKeepsSuccesses ==
    /\ state = "open" /\ age > Timeout
    /\ state' = "half-open"
    /\ halfOpenReqs' = 0
    /\ admitted' = 1
    /\ UNCHANGED <<failures, successes, requests>>

FaultCountsFirstProbe ==
    /\ state = "open" /\ age > Timeout
    /\ state' = "half-open"
    /\ halfOpenReqs' = 1
    /\ successes' = 0
    /\ admitted' = 1
    /\ UNCHANGED <<failures, requests>>

FaultUnlimitedProbes ==
    /\ state = "half-open"
    /\ halfOpenReqs' = halfOpenReqs + 1
    /\ admitted' = admitted + 1
    /\ UNCHANGED <<state, failures, successes, requests>>

FaultKeepsFailures ==
    /\ state = "closed"
    /\ successes' = Bump(successes)
    /\ requests' = 0
    /\ UNCHANGED <<state, failures, halfOpenReqs, admitted>>

-----------------------------------------------------------------------------
(* The methods of CircuitBreaker, each one critical section.               *)

Expired == age > Timeout

\* Allow, the three ways it returns true.
AllowClosed == state = "closed" /\ UNCHANGED <<breaker, admitted>>

AllowExpired ==
    /\ state = "open" /\ Expired
    /\ state' = "half-open"
    /\ halfOpenReqs' = 0
    /\ successes' = 0
    /\ admitted' = 1
    /\ UNCHANGED <<failures, requests>>

AllowHalfOpen ==
    /\ state = "half-open"
    /\ halfOpenReqs < MaxHalfOpenReqs
    /\ halfOpenReqs' = halfOpenReqs + 1
    /\ admitted' = admitted + 1
    /\ UNCHANGED <<state, failures, successes, requests>>

Allow == AllowClosed \/ AllowExpired \/ AllowHalfOpen

\* RecordSuccess; nothing happens in state open.
SuccessClosed ==
    /\ state = "closed"
    /\ successes' = Bump(successes)
    /\ failures' = 0 /\ requests' = 0
    /\ UNCHANGED <<state, halfOpenReqs, admitted>>

SuccessHalfOpen ==
    /\ state = "half-open" /\ successes + 1 < SuccessThreshold
    /\ successes' = successes + 1
    /\ UNCHANGED <<state, failures, requests, halfOpenReqs, admitted>>

SuccessCloses ==
    /\ state = "half-open" /\ successes + 1 >= SuccessThreshold
    /\ state' = "closed"
    /\ failures' = 0 /\ successes' = 0 /\ requests' = 0
    /\ admitted' = 0
    /\ UNCHANGED halfOpenReqs

SuccessOpen == state = "open" /\ UNCHANGED <<breaker, admitted>>

RecordSuccess ==
    /\ SuccessClosed \/ SuccessHalfOpen \/ SuccessCloses \/ SuccessOpen
    /\ streak' = Extended("success")
    /\ UNCHANGED age

\* RecordFailure; every failure restarts the timeout, in whatever state.
TooManyFailures(f) == f >= FailureThreshold
RateExceeded(f, r) == r >= FailureThreshold /\ f * RateDen >= RateNum * r

FailureClosed ==
    /\ state = "closed"
    /\ failures' = Bump(failures) /\ requests' = Bump(requests)
    /\ state' = IF TooManyFailures(failures') \/ RateExceeded(failures', requests')
                THEN "open" ELSE "closed"
    /\ UNCHANGED <<successes, halfOpenReqs, admitted>>

FailureHalfOpen ==
    /\ state = "half-open"
    /\ failures' = Bump(failures)
    /\ state' = "open"
    /\ halfOpenReqs' = 0
    /\ admitted' = 0
    /\ UNCHANGED <<successes, requests>>

FailureOpen == state = "open" /\ UNCHANGED <<breaker, admitted>>

RecordFailure ==
    /\ FailureClosed \/ FailureHalfOpen \/ FailureOpen
    /\ streak' = Extended("failure")
    /\ age' = 0

Reset ==
    /\ state' = "closed"
    /\ failures' = 0 /\ successes' = 0 /\ requests' = 0 /\ halfOpenReqs' = 0
    /\ streak' = [kind |-> "success", len |-> 0]
    /\ admitted' = 0
    /\ UNCHANGED <<age, call, redisUp>>

-----------------------------------------------------------------------------
(* HotPostService: Allow, the Redis command, then the outcome.  A caller   *)
(* that Allow refuses returns ErrCircuitBreakerOpen and changes nothing.   *)

Enter(c) ==
    /\ call[c] = "idle"
    /\ Allow
    /\ call' = [call EXCEPT ![c] = "admitted"]
    /\ UNCHANGED <<age, redisUp, streak>>

RedisCommand(c) ==
    /\ call[c] = "admitted"
    /\ call' = [call EXCEPT ![c] = IF redisUp THEN "succeeded" ELSE "failed"]
    /\ UNCHANGED <<breaker, age, redisUp, streak, admitted>>

Report(c) ==
    /\ \/ call[c] = "succeeded" /\ RecordSuccess
       \/ call[c] = "failed" /\ RecordFailure
    /\ call' = [call EXCEPT ![c] = "idle"]
    /\ UNCHANGED redisUp

Tick ==
    /\ age <= Timeout
    /\ age' = age + 1
    /\ UNCHANGED <<breaker, call, redisUp, streak, admitted>>

\* Redis goes down and comes back at any time.
RedisFlips ==
    /\ redisUp' = ~redisUp
    /\ UNCHANGED <<breaker, age, call, streak, admitted>>

CallerStep(c) == Enter(c) \/ RedisCommand(c) \/ Report(c)

Next == Reset \/ Tick \/ RedisFlips \/ \E c \in Caller : CallerStep(c)

Spec == Init /\ [][Next]_vars

\* Requests keep arriving, the Go scheduler runs each goroutine, time passes.
FairSpec == Spec /\ WF_vars(Tick) /\ \A c \in Caller : WF_vars(CallerStep(c))

-----------------------------------------------------------------------------
(* Properties.                                                             *)

\* RecordSuccess and RecordFailure clear and count in different fields; a
\* closed breaker must still know exactly how many failures came in a row,
\* whatever order the goroutines report in, and must not have reached the
\* threshold without tripping.
FailuresInARow == IF streak.kind = "failure" THEN streak.len ELSE 0
TripsOnTime ==
    state = "closed" =>
        /\ failures = FailuresInARow
        /\ requests = failures
        /\ failures < FailureThreshold

\* A half-open breaker lets at most one request more than MaxHalfOpenReqs
\* through before it closes or opens again: the request that finds the
\* timeout expired (Allow, StateOpen) is not counted in halfOpenReqs, and a
\* request that has finished does not give its place back.
HalfOpenBudget ==
    state = "half-open" =>
        admitted = halfOpenReqs + 1 /\ admitted <= MaxHalfOpenReqs + 1

InARow(s, kind, n) == s.kind = kind /\ s.len >= n
ResetStreak(s) == s.len = 0
Closes ==
    /\ state = "half-open" /\ state' = "closed" =>
            \/ ResetStreak(streak')
            \/ InARow(streak', "success", SuccessThreshold)
    /\ state = "closed" /\ state' = "open" =>
            InARow(streak', "failure", FailureThreshold)
CoolsDown ==
    state = "open" /\ age <= Timeout =>
        /\ \A c \in Caller : call[c] = "idle" => call'[c] = "idle"
        /\ state' # "half-open"
        /\ state' = "closed" => ResetStreak(streak')

\* The breaker closes by itself only when the last SuccessThreshold outcomes
\* recorded were all successes, and trips from closed only when the last
\* FailureThreshold were all failures, although outcomes of requests admitted
\* in an earlier state are counted with the others.  While it is open and
\* Timeout has not passed since the LAST failure anyone recorded, no request
\* gets through, and only Reset closes it.
MovesOnEvidence == [][Closes /\ CoolsDown]_vars

\* The breaker recovers: when Redis is up for good, the breaker closes for
\* good.  It holds when the requests a half-open breaker lets through are
\* enough to reach SuccessThreshold, and fails with the defaults of
\* CircuitBreakerConfig.
Recovers == <>[]redisUp => <>[](state = "closed")
=============================================================================
