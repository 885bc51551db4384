------------------------------ MODULE EdgeList ------------------------------
(***************************************************************************)
(* The undirected adjacency that BFS, ConnectedComponents,                 *)
(* LabelPropagation and KCore build from their edge list before they start *)
(* (bfs.py, connected_components.py, label_propagation.py, k_core.py):     *)
(* both directions of every edge; a vertex is there only if an edge        *)
(* mentions it, and a self-loop makes it its own neighbour.                *)
(*                                                                         *)
(* A dataset is a set of edges: the dictionaries hold sets (BFS holds      *)
(* lists, where a repeated neighbour is skipped the second time), so a     *)
(* repeated edge changes nothing.                                          *)
(***************************************************************************)

Vertices(data) == {e[1] : e \in data} \cup {e[2] : e \in data}

Neighbors(data, v) == {w \in Vertices(data) : <<v, w>> \in data \/ <<w, v>> \in data}

\* A set of vertices that no edge leaves: a union of connected components.
Closed(data, S) == \A e \in data : e[1] \in S <=> e[2] \in S
=============================================================================
