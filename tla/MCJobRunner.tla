---------------------------- MODULE MCJobRunner -----------------------------
(* Model-checking instance of JobRunner: every plugin on every subset of   *)
(* edges chosen for it.                                                    *)
EXTENDS JobRunner

MCNodes == 1 .. 7

\* Cycles of length three, four and five, an edge in both directions, a loop
\* and a tail.
BFSEdges ==
  { <<3, 1>>, <<1, 4>>, <<4, 2>>, <<2, 3>>, <<2, 5>>, <<5, 1>>, <<5, 2>>,
    <<4, 4>>, <<5, 6>> }

\* A short and a long way to a vertex that leads on, a cycle, a loop.
KHopEdges ==
  { <<1, 2>>, <<2, 4>>, <<4, 3>>, <<1, 5>>, <<5, 3>>, <<3, 6>>, <<6, 1>>,
    <<3, 3>> }

\* Numbers that run against the paths, a loop, an edge in both directions.  The
\* longest path has five edges, one more than five supersteps can carry a label
\* and see that nothing changes.
ComponentEdges ==
  { <<1, 4>>, <<4, 2>>, <<5, 2>>, <<3, 5>>, <<5, 3>>, <<2, 2>>, <<3, 4>>,
    <<6, 3>> }

\* A clique of four with a tail, and a loop.
CoreEdges ==
  { <<1, 2>>, <<1, 3>>, <<4, 1>>, <<2, 3>>, <<2, 4>>, <<3, 4>>,
    <<4, 5>>, <<5, 6>>, <<6, 4>>, <<6, 6>> }

\* Two triangles joined by a bridge, a square over them, a pair apart.
LabelEdges ==
  { <<1, 6>>, <<6, 2>>, <<1, 2>>, <<3, 4>>, <<4, 5>>, <<5, 3>>, <<2, 5>>,
    <<6, 3>>, <<7, 4>>, <<5, 5>> }

\* Two triangles and a bridge, a loop, an edge in both directions.
LouvainEdges ==
  { <<1, 2>>, <<2, 3>>, <<1, 3>>, <<3, 4>>, <<4, 5>>, <<5, 6>>, <<6, 4>>,
    <<2, 2>>, <<2, 1>> }

\* Triangles that share an edge, an edge in both directions, a loop.
TriangleEdges ==
  { <<1, 2>>, <<2, 1>>, <<2, 3>>, <<3, 1>>, <<3, 4>>, <<4, 2>>, <<4, 5>>,
    <<5, 5>> }

\* A cycle, a shortcut, ways back, a loop; subsets have sinks.
PageRankEdges ==
  { <<1, 2>>, <<2, 3>>, <<3, 1>>, <<1, 3>>, <<2, 2>>, <<3, 2>> }

MCEdgesOf == [bfs |-> BFSEdges, k_hop |-> KHopEdges,
              connected_components |-> ComponentEdges, k_core |-> CoreEdges,
              label_propagation |-> LabelEdges, louvain |-> LouvainEdges,
              triangle_count |-> TriangleEdges, pagerank |-> PageRankEdges]

MCMaxIterations == [connected_components |-> 5, label_propagation |-> 4, pagerank |-> 3,
                    kmeans |-> 3, linear_regression |-> 4]

Half == <<1, 2>>
Eighth == <<1, 8>>

\* Points that coincide, that are in line, and that are far apart.
Places == { <<0, 0>>, <<12, 0>>, <<24, 12>>, <<36, 36>> }

MCClusterings == [1 .. 4 -> Places] \X (1 .. 3)

\* Samples with one feature, with two, and samples that no line fits.
MCRegressions ==
  LET samples(x) == [1 .. x -> -1 .. 1] \X {-1, 2}
  IN  [1 .. 1 -> samples(2)] \cup [1 .. 2 -> samples(2)] \cup [1 .. 3 -> samples(1)]

\* No source, one, two, and a source given twice.
MCSourceLists == { <<>>, <<1>>, <<6, 1>>, <<4, 4>> }
=============================================================================
