------------------------------- MODULE MCSSSP -------------------------------
(* Model-checking instances of SSSP: every subset of ten edges between     *)
(* four vertices, with diamonds (two senders to one vertex in a            *)
(* superstep), a direct edge longer than a detour, cycles, and an edge of  *)
(* negative weight that closes a negative cycle in some of the datasets.   *)
EXTENDS SSSP

CONSTANTS s, a, b, c

MCNodes == {s, a, b, c}

MCCandidates ==
  { <<s, a, 1>>, <<s, b, 2>>, <<s, c, 7>>, <<a, b, 0>>, <<a, c, 4>>,
    <<b, c, 2>>, <<b, a, 1>>, <<c, a, -3>>, <<c, s, 1>>, <<c, b, 1>> }
=============================================================================
