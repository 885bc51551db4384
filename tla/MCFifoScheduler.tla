-------------------------- MODULE MCFifoScheduler ---------------------------
(* Model-checking instance of FifoScheduler: the cfg names jobs, clients   *)
(* and workers.  No symmetry, which liveness would not survive.            *)
EXTENDS FifoScheduler
=============================================================================
