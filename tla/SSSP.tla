-------------------------------- MODULE SSSP --------------------------------
(***************************************************************************)
(* SSSP of algorithms/graph/sssp.py: single-source shortest paths by       *)
(* supersteps.                                                             *)
(*                                                                         *)
(* In a superstep every active vertex sends, along each of its edges, the  *)
(* distance it had when it became active plus the weight.  The receiving   *)
(* vertex updates its distance IN PLACE, so vertices later in the same     *)
(* superstep are compared with the new distances, while what they send is  *)
(* still the value of the snapshot.                                        *)
(*                                                                         *)
(* One step is one pass of the innermost loop.  The code takes the active  *)
(* vertices in the order of a dictionary and the edges in the order of the *)
(* input; here they are taken in any order.  Weights are integers, of any  *)
(* sign: the code does not reject negative ones.  A dictionary lookup with *)
(* default inf is a function that is Inf at absent keys; a vertex that no  *)
(* edge mentions is in no dictionary of the code and is Inf here.          *)
(***************************************************************************)
EXTENDS Integers, FiniteSets

CONSTANTS
  Nodes,
  Source,
  Candidates,      \* edges <<src, dst, weight>> a dataset may contain
  MaxIterations,   \* max_iterations
  Inf              \* float("inf")

ASSUME GraphAssumption ==
  /\ Source \in Nodes
  /\ Candidates \subseteq Nodes \X Nodes \X Int
ASSUME MaxIterationsAssumption == MaxIterations \in Nat
ASSUME InfAssumption == Inf \notin Int

VARIABLES
  data,            \* the dataset: the edges of this run
  distances,
  active,          \* the snapshot this superstep sends from
  next_active,
  unsent,          \* edges of active vertices not yet used in this superstep
  iterations,      \* supersteps completed
  done             \* the loop has ended

vars == <<data, distances, active, next_active, unsent, iterations, done>>

Src(e) == e[1]
Dst(e) == e[2]
Weight(e) == e[3]

Nowhere == [v \in Nodes |-> Inf]

\* The comparison with float("inf"), and the order it extends.
Less(c, d) == d = Inf \/ (c # Inf /\ c < d)
LessEq(c, d) == d = Inf \/ (c # Inf /\ c <= d)

\* adjacency.get(node, []) of all vertices of a dictionary.
EdgesOf(dict) == {e \in data : dict[Src(e)] # Inf}

-----------------------------------------------------------------------------
(* Faulty variants of the actions below.                                   *)

\* The distance is read when the message is sent, not from the snapshot.
FaultySendCurrent(e) ==
  LET candidate == distances[Src(e)] + Weight(e)
      improves  == Less(candidate, distances[Dst(e)])
  IN
  /\ ~done
  /\ e \in unsent
  /\ unsent' = unsent \ {e}
  /\ distances' = IF improves THEN [distances EXCEPT ![Dst(e)] = candidate]
                              ELSE distances
  /\ next_active' = IF improves THEN [next_active EXCEPT ![Dst(e)] = candidate]
                                ELSE next_active
  /\ UNCHANGED <<data, active, iterations, done>>

\* A vertex that is active in this superstep is not activated again.
FaultySendOnce(e) ==
  LET candidate == active[Src(e)] + Weight(e)
      improves  == Less(candidate, distances[Dst(e)])
      activates == improves /\ active[Dst(e)] = Inf
  IN
  /\ ~done
  /\ e \in unsent
  /\ unsent' = unsent \ {e}
  /\ distances' = IF improves THEN [distances EXCEPT ![Dst(e)] = candidate]
                              ELSE distances
  /\ next_active' = IF activates THEN [next_active EXCEPT ![Dst(e)] = candidate]
                                 ELSE next_active
  /\ UNCHANGED <<data, active, iterations, done>>

\* The active vertices are cleared whenever the loop is left.
FaultyEndClears ==
  /\ ~done
  /\ unsent = {}
  /\ iterations' = iterations + 1
  /\ done' = (next_active = Nowhere \/ iterations' = MaxIterations)
  /\ active' = IF done' THEN Nowhere ELSE next_active
  /\ next_active' = Nowhere
  /\ unsent' = EdgesOf(active')
  /\ UNCHANGED <<data, distances>>

-----------------------------------------------------------------------------
Init ==
  /\ data \in SUBSET Candidates /\ IsFiniteSet(data)
  /\ distances = [Nowhere EXCEPT ![Source] = 0]
  /\ active = [Nowhere EXCEPT ![Source] = 0]
  /\ next_active = Nowhere
  /\ unsent = EdgesOf(active)
  /\ iterations = 0
  /\ done = (MaxIterations = 0)

\* candidate = distance + weight, and the two nested tests.
Send(e) ==
  LET candidate == active[Src(e)] + Weight(e)
      improves  == Less(candidate, distances[Dst(e)])
      activates == improves /\ Less(candidate, next_active[Dst(e)])
  IN
  /\ ~done
  /\ e \in unsent
  /\ unsent' = unsent \ {e}
  /\ distances' = IF improves THEN [distances EXCEPT ![Dst(e)] = candidate]
                              ELSE distances
  /\ next_active' = IF activates THEN [next_active EXCEPT ![Dst(e)] = candidate]
                                 ELSE next_active
  /\ UNCHANGED <<data, active, iterations, done>>

\* The end of the loop body; the loop ends when nobody is active or after
\* max_iterations.
EndSuperstep ==
  /\ ~done
  /\ unsent = {}
  /\ iterations' = iterations + 1
  /\ active' = next_active
  /\ next_active' = Nowhere
  /\ unsent' = EdgesOf(next_active)
  /\ done' = (next_active = Nowhere \/ iterations' = MaxIterations)
  /\ UNCHANGED <<data, distances>>

Next == (\E e \in Candidates : Send(e)) \/ EndSuperstep

Spec == Init /\ [][Next]_vars

\* The field of the result.
Converged == done /\ active = Nowhere

-----------------------------------------------------------------------------
(* Properties.                                                             *)

Distance == [Nodes -> Int \cup {Inf}]

\* The variables have their types: distances are integers or infinite.
TypeOK ==
  /\ data \subseteq Candidates
  /\ distances \in Distance
  /\ active \in Distance
  /\ next_active \in Distance
  /\ unsent \subseteq data
  /\ \A e \in unsent : active[Src(e)] # Inf
  /\ iterations \in 0 .. MaxIterations
  /\ done \in BOOLEAN

\* What a vertex will send next is the distance it has, so the inner test of
\* the code never fails once the outer one holds.
NextActiveIsCurrent ==
  \A v \in Nodes : next_active[v] # Inf => next_active[v] = distances[v]

\* No improvement is forgotten: the head of an edge is as near as the edge
\* makes it, or its tail will be active in the next superstep, or the edge
\* is still unused in this one and its tail sends its current distance.
RelaxedOrPending ==
  \A e \in data :
    \/ distances[Src(e)] = Inf
    \/ LessEq(distances[Dst(e)], distances[Src(e)] + Weight(e))
    \/ next_active[Src(e)] # Inf
    \/ e \in unsent /\ active[Src(e)] = distances[Src(e)]

\* converged=True means that no edge can improve any distance.
ConvergedIsFixpoint ==
  Converged =>
    /\ LessEq(distances[Source], 0)
    /\ \A e \in data :
         distances[Src(e)] # Inf =>
           LessEq(distances[Dst(e)], distances[Src(e)] + Weight(e))

\* The reference: the least weight of a walk from the source with at most n
\* edges.
Least(S) == IF S \subseteq {Inf} THEN Inf
            ELSE CHOOSE x \in S \ {Inf} : \A y \in S \ {Inf} : x <= y

WithinHops[n \in 0 .. MaxIterations + 1] ==
  IF n = 0 THEN [Nowhere EXCEPT ![Source] = 0]
  ELSE [v \in Nodes |->
          Least({WithinHops[n - 1][v]} \cup
                {WithinHops[n - 1][Src(e)] + Weight(e) :
                   e \in {f \in data : Dst(f) = v
                                         /\ WithinHops[n - 1][Src(f)] # Inf}})]

\* The updates in place do not leak into the superstep: after n supersteps
\* the distances are those of the walks with at most n edges, in whatever
\* order the vertices were taken, and between two supersteps they lie
\* between the two.
DistancesAreHopLimited ==
  LET best == WithinHops IN
  /\ \A v \in Nodes : LessEq(distances[v], best[iterations][v])
  /\ \A v \in Nodes : LessEq(best[iterations + 1][v], distances[v])
  /\ done => distances = best[iterations]
=============================================================================
