---------------------------- MODULE MCJobService ----------------------------
(* Model-checking instance of JobService: two connections, a backlog that  *)
(* holds one of them, and a job on another thread.  There is no symmetry   *)
(* set, as the run checks a liveness property.                             *)
EXTENDS JobService

MCIterations == {1, 2}
=============================================================================
