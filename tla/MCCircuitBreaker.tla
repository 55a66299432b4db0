--------------------------- MODULE MCCircuitBreaker ---------------------------
(***************************************************************************)
(* Model checking of CircuitBreaker: the goroutines are interchangeable.   *)
(***************************************************************************)
EXTENDS CircuitBreaker, TLC

Symmetry == Permutations(Callers) \cup Permutations(Readers)

=============================================================================
