----------------------- MODULE MCCheckpointedRuntime ------------------------
(* Model-checking instances of CheckpointedRuntime.  Two jobs of one       *)
(* algorithm end after as many iterations on different data, and so share  *)
(* a checkpoint; a third is of another algorithm or needs an iteration     *)
(* more.                                                                   *)
EXTENDS CheckpointedRuntime, TLC

CONSTANTS j1, j2, k1, long, pagerank, kcore

MCJobs     == {j1, j2, k1}
MCLongJobs == {j1, j2, long}
MCAlgs     == {pagerank, kcore}
MCAlgOf    == [j \in Jobs |-> IF j = k1 THEN kcore ELSE pagerank]
MCItersOf  == [j \in Jobs |-> IF j = long THEN 2 ELSE 1]

\* A caller asks for any iteration, or for the one its job ends at.
MCAsksAny   == [j \in Jobs |-> {1, 2}]
MCAsksExact == [j \in Jobs |-> {ItersOf[j]}]

\* The processes, and the two jobs that share a checkpoint, are alike.
Symmetry == Permutations(Drivers) \cup Permutations({j1, j2})
=============================================================================
