------------------------------ MODULE Louvain -------------------------------
(***************************************************************************)
(* Louvain of algorithms/graph/louvain.py: vertices move, one after the    *)
(* other, to the neighbouring community that raises a score most.          *)
(*                                                                         *)
(* The score is a quotient of integers with the denominator (2 m)^2, where *)
(* m is the total weight; here it is the numerator.  In the code a move    *)
(* has to gain more than 1e-12, which every gain of the numerator does as  *)
(* long as 2 m is below a million.  Repeated edges add up to a weight, as  *)
(* do the two directions of an edge: a dataset is a set of edges here, and *)
(* a weight of two is an edge in both directions.                          *)
(***************************************************************************)
EXTENDS Integers, FiniteSetsExt, Functions

CONSTANTS
  Nodes,
  Candidates,      \* edges <<src, dst>> a dataset may contain
  MaxPasses        \* max_passes

VARIABLES
  data,              \* the edges of this run
  communities,
  best_modularity,   \* times (2 m)^2
  todo,              \* vertices not yet visited in this pass
  moved,
  iterations,
  done               \* the loop has ended

vars == <<data, communities, best_modularity, todo, moved, iterations, done>>

\* adjacency[u].get(v, 0.0); a loop counts twice.
Adjacency(u, v) ==
  (IF <<u, v>> \in data THEN 1 ELSE 0) + (IF <<v, u>> \in data THEN 1 ELSE 0)

Neighbors(v) == {w \in Nodes : Adjacency(v, w) > 0}

Vertices == {v \in Nodes : Neighbors(v) # {}}

Degree(v) == SumFunction([w \in Neighbors(v) |-> Adjacency(v, w)])

\* 2 m.
Total == SumFunction([v \in Vertices |-> Degree(v)])

\* What a pair of members adds to the score.
Bond(u, v) == Adjacency(u, v) * Total - Degree(u) * Degree(v)

\* _modularity: the pairs of members that are neighbours.
Score(c) ==
  SumFunction([p \in {p \in Vertices \X Vertices :
                        p[2] \in Neighbors(p[1]) /\ c[p[1]] = c[p[2]]} |->
                 Bond(p[1], p[2])])

\* The communities of the neighbours of v and its own.
CandidateCommunities(v) == {communities[w] : w \in Neighbors(v)} \cup {communities[v]}

Moved(v, candidate) == [communities EXCEPT ![v] = candidate]

\* Where v goes: the first of the best choices, if better than staying.
BestFor(v) ==
  LET better == {c \in CandidateCommunities(v) : Score(Moved(v, c)) > best_modularity}
      best   == {c \in better : \A d \in better : Score(Moved(v, d)) <= Score(Moved(v, c))}
  IN  IF better = {} THEN communities[v] ELSE Min(best)

\* Where the community of v comes up in sorted(communities).
First(c, v) == Min({w \in DOMAIN c : c[w] = c[v]})

\* _normalize_communities: a community's number, next_id, is that of the
\* communities that have come up before it.
Normalized(c) ==
  [v \in DOMAIN c |-> Cardinality({w \in DOMAIN c : w = First(c, w) /\ w < First(c, v)})]

-----------------------------------------------------------------------------
(* Faulty variants of the definitions below.                               *)

\* The score of the pass's beginning is kept.
FaultyVisitStale(v) ==
  /\ ~done
  /\ v \in todo
  /\ \A w \in todo : v <= w
  /\ communities' = Moved(v, BestFor(v))
  /\ moved' = (moved \/ BestFor(v) # communities[v])
  /\ todo' = todo \ {v}
  /\ UNCHANGED <<data, best_modularity, iterations, done>>

-----------------------------------------------------------------------------
Init ==
  /\ data \in SUBSET Candidates
  /\ communities = [v \in Vertices |-> v]
  /\ best_modularity = Score(communities)
  /\ moved = FALSE
  /\ iterations = 0
  /\ done = (MaxPasses = 0)
  /\ todo = IF done THEN {} ELSE Vertices

\* The next vertex of `nodes`; a score that is kept is the one of the trial.
Visit(v) ==
  /\ ~done
  /\ v \in todo
  /\ \A w \in todo : v <= w
  /\ communities' = Moved(v, BestFor(v))
  /\ best_modularity' = IF BestFor(v) = communities[v] THEN best_modularity
                        ELSE Score(communities')
  /\ moved' = (moved \/ BestFor(v) # communities[v])
  /\ todo' = todo \ {v}
  /\ UNCHANGED <<data, iterations, done>>

\* The end of a pass, and the reset of moved for the next.
EndPass ==
  /\ ~done
  /\ todo = {}
  /\ iterations' = iterations + 1
  /\ done' = (~moved \/ iterations' = MaxPasses)
  /\ moved' = IF done' THEN moved ELSE FALSE
  /\ todo' = IF done' THEN {} ELSE Vertices
  /\ UNCHANGED <<data, communities, best_modularity>>

Next == (\E v \in Nodes : Visit(v)) \/ EndPass

Spec == Init /\ [][Next]_vars

\* The fields of the result.
Converged == done /\ iterations < MaxPasses
Output == Normalized(communities)

-----------------------------------------------------------------------------
(* Properties.                                                             *)

\* The variables have their types: communities are named after vertices.
TypeOK ==
  /\ data \in SUBSET Candidates
  /\ communities \in [Vertices -> Vertices]
  /\ best_modularity \in Int
  /\ todo \subseteq Vertices
  /\ moved \in BOOLEAN
  /\ iterations \in 0 .. MaxPasses
  /\ done \in BOOLEAN

\* The score that is carried along from vertex to vertex is the one of the
\* communities as they are, and a vertex that moves raises it: communities
\* that were given up never come back and the passes end.
MoveGains ==
  communities' # communities =>
    /\ best_modularity' = Score(communities')
    /\ Score(communities') > Score(communities)

\* converged=True means that no vertex alone can gain by joining a neighbour,
\* in the output too: renumbering keeps communities apart and together.
ConvergedIsLocalMaximum ==
  Converged =>
    /\ Score(Output) = best_modularity
    /\ \A v \in Vertices : \A w \in Neighbors(v) :
         Score([Output EXCEPT ![v] = Output[w]]) <= best_modularity

\* Modularity as it is defined: all pairs of members count, neighbours or not.
Modularity(c) ==
  SumFunction([p \in {p \in Vertices \X Vertices : c[p[1]] = c[p[2]]} |-> Bond(p[1], p[2])])

\* The docstring of the class says that moves are made against modularity,
\* and the output calls the score so.
ReportedIsModularity == done => best_modularity = Modularity(communities)
=============================================================================
