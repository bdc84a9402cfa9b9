-------------------------- MODULE MCCircuitBreaker --------------------------
(* Three requests in flight at most; requests are interchangeable. *)
EXTENDS CircuitBreaker, TLC

RequestSymmetry == Permutations(Requests)
=============================================================================
