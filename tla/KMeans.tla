------------------------------- MODULE KMeans -------------------------------
(***************************************************************************)
(* KMeans of algorithms/ml/kmeans.py, and kmeans_kernel of                 *)
(* backends/accelerated.py, which repeats the loop with a list and with    *)
(* arrays.                                                                 *)
(*                                                                         *)
(* Coordinates are integers that every possible size of a cluster divides, *)
(* so that centres are integers too; square roots are left out where only  *)
(* the order of distances matters.  Of shift, which the three loops        *)
(* compute in two ways, the code compares with a tolerance that is below   *)
(* any shift but 0 on such points; a tolerance of 0 turns the test off.    *)
(***************************************************************************)
EXTENDS Integers, Sequences, FiniteSetsExt, Functions

CONSTANTS
  Clusterings,       \* pairs <<points, k>>, as many points as clusters or more
  MaxIterations      \* max_iterations

VARIABLES
  data, k,           \* points and parameter of this run
  tolerance,         \* "zero" or "positive"
  centers,
  assignments,
  iterations,
  converged,
  done               \* the loop has ended

vars == <<data, k, tolerance, centers, assignments, iterations, converged, done>>

\* _distance, squared.
Distance(p, q) == SumFunction([i \in DOMAIN p |-> (p[i] - q[i]) * (p[i] - q[i])])

\* _nearest: the first of the centers that are nearest.
Nearest(p, cs) ==
  Min({c \in DOMAIN cs : \A d \in DOMAIN cs : Distance(p, cs[c]) <= Distance(p, cs[d])})

Assigned(cs) == [i \in DOMAIN data |-> Nearest(data[i], cs)]

Members(assignment, c) == {i \in DOMAIN data : assignment[i] = c}

\* Faulty: the mean of no members is 0.
FaultyCenterOf(assignment, c) ==
  LET members == Members(assignment, c) IN
  [x \in DOMAIN centers[c] |->
     IF members = {} THEN 0
     ELSE SumFunction([i \in members |-> data[i][x]]) \div Cardinality(members)]

\* The mean of the members; a cluster without any keeps its center.
CenterOf(assignment, c) ==
  LET members == Members(assignment, c) IN
  IF members = {} THEN centers[c]
  ELSE [x \in DOMAIN centers[c] |->
          SumFunction([i \in members |-> data[i][x]]) \div Cardinality(members)]

-----------------------------------------------------------------------------
(* Faulty variants of the definitions below.                               *)

\* centers is replaced before shift is computed.
FaultyIterate ==
  LET assigned == Assigned(centers) IN
  /\ ~done
  /\ assignments' = assigned
  /\ centers' = [c \in 1 .. k |-> CenterOf(assigned, c)]
  /\ iterations' = iterations + 1
  /\ converged' = (tolerance = "positive")
  /\ done' = (converged' \/ iterations' = MaxIterations)
  /\ UNCHANGED <<data, k, tolerance>>

-----------------------------------------------------------------------------
\* The first k points are the first centers.
Init ==
  /\ \E clustering \in Clusterings : data = clustering[1] /\ k = clustering[2]
  /\ tolerance \in {"zero", "positive"}
  /\ centers = SubSeq(data, 1, k)
  /\ assignments = [i \in DOMAIN data |-> 1]
  /\ iterations = 0
  /\ converged = FALSE
  /\ done = (MaxIterations = 0)

Iterate ==
  LET assigned == Assigned(centers) IN
  /\ ~done
  /\ assignments' = assigned
  /\ centers' = [c \in 1 .. k |-> CenterOf(assigned, c)]
  /\ iterations' = iterations + 1
  /\ converged' = (tolerance = "positive" /\ centers' = centers)
  /\ done' = (converged' \/ iterations' = MaxIterations)
  /\ UNCHANGED <<data, k, tolerance>>

Next == Iterate

Spec == Init /\ [][Next]_vars

-----------------------------------------------------------------------------
(* Properties.                                                             *)

\* The variables have their types.
TypeOK ==
  /\ <<data, k>> \in Clusterings
  /\ tolerance \in {"zero", "positive"}
  /\ DOMAIN centers = 1 .. k
  /\ \A c \in 1 .. k : DOMAIN centers[c] = DOMAIN data[1]
  /\ assignments \in [DOMAIN data -> 1 .. k]
  /\ iterations \in 0 .. MaxIterations
  /\ converged \in BOOLEAN
  /\ done \in BOOLEAN

Distortion ==
  SumFunction([i \in DOMAIN data |-> Distance(data[i], centers[assignments[i]])])

\* An iteration that moves a center brings points and centers closer together
\* on the whole, a cluster that lost its members included: no clustering comes
\* back, which a tolerance could not guarantee.
MoveGains ==
  centers' # centers => Distortion' < Distortion

\* converged=True means that every point is with its nearest center and every
\* center in the middle of its points: another iteration would change nothing.
ConvergedIsFixpoint ==
  converged =>
    /\ assignments = Assigned(centers)
    /\ \A c \in 1 .. k : CenterOf(assignments, c) = centers[c]
=============================================================================
