------------------------ MODULE ConnectedComponents -------------------------
(***************************************************************************)
(* ConnectedComponents of algorithms/graph/connected_components.py: every  *)
(* vertex repeatedly takes the least label among its own and those of its  *)
(* neighbours.                                                             *)
(*                                                                         *)
(* A superstep reads `labels` and writes `next_labels`; one step here is   *)
(* one pass of the inner loop.  The code takes the vertices in the order   *)
(* of a dictionary, here they are taken in any order.                      *)
(***************************************************************************)
EXTENDS Integers, FiniteSets, EdgeList

CONSTANTS
  Nodes,           \* vertices are numbers
  Candidates,      \* edges a dataset may contain
  MaxIterations    \* max_iterations

VARIABLES
  data,            \* the edges of this run
  labels,          \* the labels of the last superstep
  next_labels,
  todo,            \* vertices this superstep has not visited yet
  changed,
  iterations,      \* supersteps completed
  done             \* the loop has ended

vars == <<data, labels, next_labels, todo, changed, iterations, done>>

\* The labels a vertex takes the least of.
Heard(v) == {labels[v]} \cup {labels[w] : w \in Neighbors(data, v)}

-----------------------------------------------------------------------------
(* Faulty variants of the actions below.                                   *)

\* The labels are updated in place.
FaultyVisitInPlace(v) ==
  /\ ~done
  /\ v \in todo
  /\ \E candidate \in Heard(v) :
       /\ \A l \in Heard(v) : candidate <= l
       /\ labels' = [labels EXCEPT ![v] = candidate]
       /\ next_labels' = [next_labels EXCEPT ![v] = candidate]
       /\ changed' = (changed \/ candidate < labels[v])
  /\ todo' = todo \ {v}
  /\ UNCHANGED <<data, iterations, done>>

\* changed is assigned for every vertex, so the last one decides.
FaultyVisitForgets(v) ==
  /\ ~done
  /\ v \in todo
  /\ \E candidate \in Heard(v) :
       /\ \A l \in Heard(v) : candidate <= l
       /\ next_labels' = [next_labels EXCEPT ![v] = candidate]
       /\ changed' = (candidate < next_labels[v])
  /\ todo' = todo \ {v}
  /\ UNCHANGED <<data, labels, iterations, done>>

-----------------------------------------------------------------------------
Init ==
  /\ data \in SUBSET Candidates
  /\ labels = [v \in Vertices(data) |-> v]
  /\ next_labels = labels
  /\ changed = FALSE
  /\ iterations = 0
  /\ done = (MaxIterations = 0)
  /\ todo = IF done THEN {} ELSE Vertices(data)

\* candidate = min(...); next_labels takes it if it is less.
Visit(v) ==
  /\ ~done
  /\ v \in todo
  /\ \E candidate \in Heard(v) :
       /\ \A l \in Heard(v) : candidate <= l
       /\ IF candidate < next_labels[v]
            THEN /\ next_labels' = [next_labels EXCEPT ![v] = candidate]
                 /\ changed' = TRUE
            ELSE UNCHANGED <<next_labels, changed>>
  /\ todo' = todo \ {v}
  /\ UNCHANGED <<data, labels, iterations, done>>

\* labels = next_labels, and the copy that begins the next superstep.
EndSuperstep ==
  /\ ~done
  /\ todo = {}
  /\ labels' = next_labels
  /\ iterations' = iterations + 1
  /\ done' = (~changed \/ iterations' = MaxIterations)
  /\ changed' = IF done' THEN changed ELSE FALSE
  /\ todo' = IF done' THEN {} ELSE Vertices(data)
  /\ UNCHANGED <<data, next_labels>>

Next == (\E v \in Nodes : Visit(v)) \/ EndSuperstep

Spec == Init /\ [][Next]_vars

\* The field of the result.
Converged == done /\ iterations < MaxIterations

-----------------------------------------------------------------------------
(* Properties.                                                             *)

\* The variables have their types: labels are vertices of the graph.
TypeOK ==
  /\ data \subseteq Candidates
  /\ labels \in [Vertices(data) -> Vertices(data)]
  /\ next_labels \in [Vertices(data) -> Vertices(data)]
  /\ todo \subseteq Vertices(data)
  /\ changed \in BOOLEAN
  /\ iterations \in 0 .. MaxIterations
  /\ done \in BOOLEAN
  /\ done => todo = {}

\* A label never leaves the connected component of its vertex and never
\* exceeds it.
LabelsStayHome ==
  \A v \in Vertices(data) :
    /\ labels[v] <= v
    /\ \A S \in SUBSET Vertices(data) :
         Closed(data, S) => (v \in S <=> labels[v] \in S)

\* converged=True means that the labels are the components: the two ends of
\* every edge agree, so that a label is constant on a component, and by
\* LabelsStayHome no two components share one.
ConvergedIsComponents ==
  Converged => \A e \in data : labels[e[1]] = labels[e[2]]

\* The reference: the vertices within n hops.
Within(v, n) ==
  LET near[i \in 0 .. n] ==
        IF i = 0 THEN {v}
        ELSE near[i - 1] \cup UNION {Neighbors(data, w) : w \in near[i - 1]}
  IN  near[n]

\* The two dictionaries keep the supersteps apart: after n supersteps a label
\* is the least vertex within n hops, in whatever order vertices were taken.
LabelsAreHopLimited ==
  \A v \in Vertices(data) :
    LET near == Within(v, iterations)
    IN  labels[v] \in near /\ \A w \in near : labels[v] <= w
=============================================================================
