------------------------------ MODULE PageRank ------------------------------
(***************************************************************************)
(* PageRank of algorithms/graph/pagerank.py, and pagerank_kernel of        *)
(* backends/accelerated.py, which takes over when a GPU is asked for.  The *)
(* plugin (and the fallback of the kernel, a copy of it) goes along sets   *)
(* of neighbours, the kernel along arrays with a position for each edge:   *)
(* each is translated for itself.  A repeated edge is in a set once, and   *)
(* has two positions.                                                      *)
(*                                                                         *)
(* Scores are exact here: integers over the denominator scale, which a     *)
(* superstep multiplies by the denominator of damping and by Unit, a       *)
(* common multiple of the numbers of vertices and of edges out of one.     *)
(* The last normalisation of the code divides by a sum that is 1.          *)
(***************************************************************************)
EXTENDS Integers, FiniteSetsExt, Functions, EdgeList

CONSTANTS
  Candidates,        \* edges <<src, dst>> a dataset may contain
  Damping,           \* damping, <<numerator, denominator>>
  Tolerance,         \* tolerance, <<numerator, denominator>>
  MaxIterations,     \* max_iterations
  Unit

VARIABLES
  data,              \* the edges of this run
  twice,             \* those of them the dataset has two times
  kernel,            \* "sets" or "arrays"
  scores,            \* times scale
  scale,
  delta,             \* of the last superstep, times scale
  iterations,
  converged,
  done               \* the loop has ended

vars == <<data, twice, kernel, scores, scale, delta, iterations, converged, done>>

Size == Cardinality(Vertices(data))

\* A faulty variant: what vertices without an edge out of them have is lost.
FaultySpread(s, sinks) == 0

\* What every vertex gets from those that no edge leaves.
Spread(s, sinks) == SumFunction([u \in sinks |-> s[u]]) * (Unit \div Size)

\* And what it starts with.
Base(n) == (Damping[2] - Damping[1]) * (Unit \div Size) * n

-----------------------------------------------------------------------------
\* The kernel with sets: who a vertex leads to, and who leads to it.
Outgoing(u) == {v \in Vertices(data) : <<u, v>> \in data}

Incoming(v) == {u \in Vertices(data) : <<u, v>> \in data}

\* A faulty variant: a vertex sends its whole score to each neighbour.
FaultyReceived(s, v) == SumFunction([u \in Incoming(v) |-> s[u] * Unit])

\* What v receives, one share from each neighbour that leads to it.
Received(s, v) ==
  SumFunction([u \in {w \in Incoming(v) : Outgoing(w) # {}} |->
                 s[u] * (Unit \div Cardinality(Outgoing(u)))])

SetScores(s, n) ==
  LET sinks == {u \in Vertices(data) : Outgoing(u) = {}} IN
  [v \in Vertices(data) |->
     Base(n) + Damping[1] * Spread(s, sinks) + Damping[1] * Received(s, v)]

-----------------------------------------------------------------------------
\* The kernel with arrays: one position for each edge of the dataset, so that
\* one that is there two times has two.
Copies(e) == IF e \in twice THEN 2 ELSE 1

OutDegree(u) == SumFunction([e \in {f \in data : f[1] = u} |-> Copies(e)])

\* contributions, at each of the positions of the edge e.
Contribution(s, e) == s[e[1]] * (Unit \div OutDegree(e[1]))

\* A faulty variant: next_scores[dst_index] += ... instead of add.at, which
\* leaves one of the contributions to a vertex.
FaultyAdded(s, v) ==
  LET into == {f \in data : f[2] = v} IN
  IF into = {} THEN 0 ELSE Contribution(s, CHOOSE e \in into : TRUE)

\* What add.at adds to the score of v: the contributions of all positions.
Added(s, v) ==
  SumFunction([e \in {f \in data : f[2] = v} |-> Copies(e) * Contribution(s, e)])

ArrayScores(s, n) ==
  LET sinks == {u \in Vertices(data) : OutDegree(u) = 0} IN
  [v \in Vertices(data) |->
     Base(n) + Damping[1] * Spread(s, sinks) + Damping[1] * Added(s, v)]

-----------------------------------------------------------------------------
\* What a superstep makes of the scores s over the denominator n.
NextScores(s, n) == IF kernel = "sets" THEN SetScores(s, n) ELSE ArrayScores(s, n)

\* The sum of the differences between new scores and old ones.
Difference(new, old) ==
  LET change(v) == new[v] - Damping[2] * Unit * old[v] IN
  SumFunction([v \in DOMAIN new |-> IF change(v) < 0 THEN - change(v) ELSE change(v)])

-----------------------------------------------------------------------------
\* An empty dataset is answered at once, as converged.
Init ==
  /\ data \in SUBSET Candidates
  /\ twice \in SUBSET data
  /\ kernel \in {"sets", "arrays"}
  /\ scores = [v \in Vertices(data) |-> 1]
  /\ scale = Size
  /\ delta = 0
  /\ iterations = 0
  /\ converged = (data = {})
  /\ done = (data = {} \/ MaxIterations = 0)

Superstep ==
  LET next_scores == NextScores(scores, scale) IN
  /\ ~done
  /\ iterations' = iterations + 1
  /\ scores' = next_scores
  /\ scale' = Damping[2] * Unit * scale
  /\ delta' = Difference(next_scores, scores)
  /\ converged' = (delta' * Tolerance[2] <= Tolerance[1] * scale')
  /\ done' = (converged' \/ iterations' = MaxIterations)
  /\ UNCHANGED <<data, twice, kernel>>

Next == Superstep

Spec == Init /\ [][Next]_vars

-----------------------------------------------------------------------------
(* Properties.                                                             *)

\* The variables have their types.
TypeOK ==
  /\ data \in SUBSET Candidates
  /\ twice \in SUBSET data
  /\ kernel \in {"sets", "arrays"}
  /\ scores \in [Vertices(data) -> Nat]
  /\ scale \in Nat
  /\ delta \in Nat
  /\ iterations \in 0 .. MaxIterations
  /\ converged \in BOOLEAN
  /\ done \in BOOLEAN

\* No score is lost or made: what vertices without edges out of them have is
\* spread over all, and the scores sum up to 1 after every superstep.
MassIsPreserved == data # {} => SumFunction(scores) = scale

\* A superstep moves the scores by at most damping times what the one before
\* moved them: small changes stay small, so converged=True says that no
\* number of further supersteps would move them by much.
SuperstepsContract ==
  iterations > 0 =>
    Difference(NextScores(scores, scale), scores)
      <= Damping[1] * Unit * delta

\* Sets and arrays compute the same if each vertex repeats all of its edges or
\* none: shares per neighbour and contributions per position then add up to
\* the same, and vertices without edges out of them are the same.
KernelsAgree ==
  (\A e, f \in data : e[1] = f[1] => (e \in twice <=> f \in twice))
    => SetScores(scores, scale) = ArrayScores(scores, scale)
=============================================================================
