-------------------------- MODULE MCCircuitBreaker --------------------------
(* Two callers and one probe at a time: enough for a call admitted while   *)
(* closed to fail late, while the other caller is the probe.               *)
EXTENDS CircuitBreaker, TLC

CONSTANTS c1, c2
=============================================================================
