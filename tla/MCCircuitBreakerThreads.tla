----------------------- MODULE MCCircuitBreakerThreads ----------------------
(* Threads are interchangeable, which the safety runs exploit. *)
EXTENDS CircuitBreakerThreads, TLC

ThreadSymmetry == Permutations(Threads)
=============================================================================
