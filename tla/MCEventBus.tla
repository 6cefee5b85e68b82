----------------------------- MODULE MCEventBus ------------------------------
(* TLC instances of EventBus; the bounds are the CONSTANTS of the cfg files *)
EXTENDS EventBus, TLC

CONSTANTS e1, e2, e3, c1, c2, d1, d2

\* Slots and dispatchers are interchangeable; used by safety runs only.
Symmetry == Permutations({c1, c2}) \cup Permutations({d1, d2})
=============================================================================
