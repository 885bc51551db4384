-------------------------- MODULE LabelPropagation --------------------------
(***************************************************************************)
(* LabelPropagation of algorithms/graph/label_propagation.py: every vertex *)
(* takes the label most frequent among its neighbours, the least of those  *)
(* if there are several.                                                   *)
(*                                                                         *)
(* Unlike ConnectedComponents a pass updates `labels` in place, in the     *)
(* order of sorted(adjacency), so a vertex sees the labels that smaller    *)
(* vertices took in the same pass.  One step is one pass of the inner      *)
(* loop.  Every key of adjacency has a neighbour: `if not counts` never    *)
(* holds and has no action here.                                           *)
(***************************************************************************)
EXTENDS Integers, FiniteSets, Functions, EdgeList

CONSTANTS
  Nodes,           \* vertices are numbers
  Candidates,      \* edges a dataset may contain
  MaxIterations    \* max_iterations

VARIABLES
  data,            \* the edges of this run
  labels,
  todo,            \* vertices this pass has not visited yet
  changed,
  iterations,      \* passes completed
  done             \* the loop has ended

vars == <<data, labels, todo, changed, iterations, done>>

\* Counter(...)[l]
Count(v, l) == Cardinality({w \in Neighbors(data, v) : labels[w] = l})

Seen(v) == {labels[w] : w \in Neighbors(data, v)}

\* A faulty variant of MostFrequent: every label a vertex sees, however rare.
FaultyMostFrequent(v) == Seen(v)

MostFrequent(v) == {l \in Seen(v) : \A m \in Seen(v) : Count(v, m) <= Count(v, l)}

-----------------------------------------------------------------------------
Init ==
  /\ data \in SUBSET Candidates
  /\ labels = [v \in Vertices(data) |-> v]
  /\ changed = FALSE
  /\ iterations = 0
  /\ done = (MaxIterations = 0)
  /\ todo = IF done THEN {} ELSE Vertices(data)

\* The next vertex of sorted(adjacency) takes its best label.
Visit(v) ==
  /\ ~done
  /\ v \in todo
  /\ \A w \in todo : v <= w
  /\ \E best_label \in MostFrequent(v) :
       /\ \A l \in MostFrequent(v) : best_label <= l
       /\ labels' = [labels EXCEPT ![v] = best_label]
       /\ changed' = (changed \/ best_label # labels[v])
  /\ todo' = todo \ {v}
  /\ UNCHANGED <<data, iterations, done>>

\* The end of a pass, and the reset of changed for the next.
EndPass ==
  /\ ~done
  /\ todo = {}
  /\ iterations' = iterations + 1
  /\ done' = (~changed \/ iterations' = MaxIterations)
  /\ changed' = IF done' THEN changed ELSE FALSE
  /\ todo' = IF done' THEN {} ELSE Vertices(data)
  /\ UNCHANGED <<data, labels>>

Next == (\E v \in Nodes : Visit(v)) \/ EndPass

Spec == Init /\ [][Next]_vars

\* The field of the result.
Converged == done /\ iterations < MaxIterations

-----------------------------------------------------------------------------
(* Properties.                                                             *)

\* The variables have their types: labels are vertices of the graph.
TypeOK ==
  /\ data \subseteq Candidates
  /\ labels \in [Vertices(data) -> Vertices(data)]
  /\ todo \subseteq Vertices(data)
  /\ changed \in BOOLEAN
  /\ iterations \in 0 .. MaxIterations
  /\ done \in BOOLEAN

\* converged=True means that no vertex wants another label.
ConvergedIsStable ==
  Converged => \A v \in Vertices(data) :
                 /\ labels[v] \in MostFrequent(v)
                 /\ \A l \in MostFrequent(v) : labels[v] <= l

\* Pairs of neighbours (each counted in both directions) that agree.
Agreeing ==
  Cardinality({p \in Vertices(data) \X Vertices(data) :
                 /\ p[1] # p[2] /\ p[1] \in Neighbors(data, p[2])
                 /\ labels[p[1]] = labels[p[2]]})

Total == SumFunction(labels)

\* Why the passes come to an end although each one undoes decisions of the
\* last: a vertex that changes its label makes more neighbours agree, or as
\* many and with a smaller label.  The labels never return to where they were.
MoveHelps ==
  labels' # labels =>
    \/ Agreeing' > Agreeing
    \/ Agreeing' = Agreeing /\ Total' < Total
=============================================================================
