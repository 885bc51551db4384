----------------------------- MODULE MCLouvain ------------------------------
(* Model-checking instance of Louvain: every subset of nine edges on six   *)
(* vertices: two triangles and a bridge, a loop, an edge both ways.        *)
EXTENDS Louvain

MCNodes == 1 .. 6

MCCandidates ==
  { <<1, 2>>, <<2, 3>>, <<1, 3>>, <<3, 4>>, <<4, 5>>, <<5, 6>>, <<6, 4>>,
    <<2, 2>>, <<2, 1>> }
=============================================================================
