----------------------- MODULE MCFileCheckpointStore ------------------------
(* Model-checking instance of FileCheckpointStore.                         *)
EXTENDS FileCheckpointStore, TLC

\* Processes, keys and states are interchangeable.
Symmetry ==
  Permutations(Savers) \cup Permutations(Keys) \cup Permutations(States)
=============================================================================
