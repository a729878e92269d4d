--------------------------- MODULE MCCircuitBreaker ---------------------------
(* Three callers; the breaker opens after two failures for two time units. *)
EXTENDS CircuitBreaker
================================================================================
