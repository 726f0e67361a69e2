-------------------------- MODULE MCCircuitBreaker --------------------------
(* Model-checking instance of CircuitBreaker: three goroutines, one more   *)
(* than a half-open breaker admits with MaxHalfOpenReqs = 1.               *)
EXTENDS CircuitBreaker

CONSTANTS c1, c2, c3
MCCaller == {c1, c2, c3}
=============================================================================
