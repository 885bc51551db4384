---------------------- MODULE MCObjectCheckpointStore -----------------------
(* Model-checking instance of ObjectCheckpointStore.                       *)
EXTENDS ObjectCheckpointStore, TLC

\* Clients and states are interchangeable.
Symmetry == Permutations(Clients) \cup Permutations(States)
=============================================================================
