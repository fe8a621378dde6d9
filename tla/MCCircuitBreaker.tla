-------------------------- MODULE MCCircuitBreaker -------------------------
(***************************************************************************)
(* Instances of CircuitBreaker: more goroutines than half-open admits.     *)
(***************************************************************************)
EXTENDS CircuitBreaker

CONSTANTS g1, g2, g3
=============================================================================
