------------------------- MODULE MCRayActorRuntime --------------------------
(* Model-checking instance of RayActorRuntime: no edge; an edge in both    *)
(* directions and twice; loops and negative identifiers; a weighted edge,  *)
(* which no run gets past.                                                 *)
EXTENDS RayActorRuntime

MCDatasets ==
  { <<>>,
    << <<2, 1>>, <<1, 2>>, <<0, 3>>, <<2, 1>> >>,
    << <<3, 3>>, <<-1, 2>>, <<-1, 0>>, <<3, 4>> >>,
    << <<1, 2, 5>> >> }
=============================================================================
