--------------------------- MODULE TriangleCount ----------------------------
(***************************************************************************)
(* TriangleCount of algorithms/graph/triangle_count.py.  A step is one     *)
(* pass of the outermost loop, over the vertices in their order; loops are *)
(* dropped when the adjacency is built, and sets hold an edge that is      *)
(* repeated or given in both directions once.                              *)
(***************************************************************************)
EXTENDS Integers, FiniteSetsExt

CONSTANTS
  Nodes,             \* vertices are numbers
  Candidates         \* edges <<src, dst>> a dataset may contain

VARIABLES
  data,              \* the edges of this run
  todo,              \* vertices the outermost loop has not reached
  count

vars == <<data, todo, count>>

Adjacency(a) == {b \in Nodes \ {a} : <<a, b>> \in data \/ <<b, a>> \in data}

\* The keys of adjacency.
Present == {a \in Nodes : Adjacency(a) # {}}

\* A faulty variant: c is compared with a.
FaultyTrianglesFrom(a) ==
  {p \in Adjacency(a) \X Adjacency(a) :
     p[1] > a /\ p[2] > a /\ p[2] \in Adjacency(p[1])}

\* The pairs <<b, c>> that the inner loops count for a.
TrianglesFrom(a) ==
  {p \in Adjacency(a) \X Adjacency(a) :
     p[1] > a /\ p[2] > p[1] /\ p[2] \in Adjacency(p[1])}

Init ==
  /\ data \in SUBSET Candidates
  /\ todo = Present
  /\ count = 0

Visit(a) ==
  /\ a \in todo
  /\ \A b \in todo : a <= b
  /\ count' = count + Cardinality(TrianglesFrom(a))
  /\ todo' = todo \ {a}
  /\ UNCHANGED data

Next == \E a \in Nodes : Visit(a)

Spec == Init /\ [][Next]_vars

-----------------------------------------------------------------------------
(* Properties.                                                             *)

\* The variables have their types.
TypeOK ==
  /\ data \in SUBSET Candidates
  /\ todo \subseteq Present
  /\ count \in Nat

\* Every set of three vertices that are neighbours of each other is counted
\* once, when its least vertex is visited, however its edges are directed.
TrianglesAreCountedOnce ==
  count = Cardinality(
    {T \in kSubset(3, Nodes) :
       /\ \A a, b \in T : a # b => <<a, b>> \in data \/ <<b, a>> \in data
       /\ Min(T) \notin todo})
=============================================================================
