------------------------------- MODULE KCore --------------------------------
(***************************************************************************)
(* KCore of algorithms/graph/k_core.py: rounds that remove every vertex    *)
(* with fewer than k neighbours left, until a round removes nobody.        *)
(*                                                                         *)
(* The list to_remove is computed from `remaining` as the round found it,  *)
(* and nothing bounds the number of rounds: the loop relies on a round     *)
(* without removals to come.                                               *)
(***************************************************************************)
EXTENDS Naturals, FiniteSets, EdgeList

CONSTANTS
  Nodes,
  Candidates,      \* edges a dataset may contain
  Ks               \* values of the parameter k, never negative

VARIABLES
  data,            \* the edges of this run
  k,               \* the parameter of this run
  remaining,
  changed,
  iterations       \* rounds begun

vars == <<data, k, remaining, changed, iterations>>

\* sum(1 for neighbor in adjacency[node] if neighbor in remaining).
Degree(v, S) == Cardinality({w \in Neighbors(data, v) : w \in S})

ToRemove == {v \in remaining : Degree(v, remaining) < k}

-----------------------------------------------------------------------------
(* Faulty variants of the definitions below.                               *)

\* <= instead of <.
FaultyRoundTooMany ==
  LET doomed == {v \in remaining : Degree(v, remaining) <= k} IN
  /\ changed
  /\ iterations' = iterations + 1
  /\ remaining' = remaining \ doomed
  /\ changed' = (doomed # {})
  /\ UNCHANGED <<data, k>>

-----------------------------------------------------------------------------
Init ==
  /\ data \in SUBSET Candidates
  /\ k \in Ks
  /\ remaining = Vertices(data)
  /\ changed = TRUE
  /\ iterations = 0

\* The body of `while changed`.
Round ==
  /\ changed
  /\ iterations' = iterations + 1
  /\ remaining' = remaining \ ToRemove
  /\ changed' = (ToRemove # {})
  /\ UNCHANGED <<data, k>>

Next == Round

Spec == Init /\ [][Next]_vars

-----------------------------------------------------------------------------
(* Properties.                                                             *)

\* Everybody in S has k neighbours in S.
IsCore(S) == \A v \in S : Degree(v, S) >= k

\* The variables have their types: only vertices of the graph remain.
TypeOK ==
  /\ data \subseteq Candidates
  /\ k \in Ks
  /\ remaining \subseteq Vertices(data)
  /\ changed \in BOOLEAN
  /\ iterations \in Nat

\* The result is the k-core: everybody left has k neighbours left, and no set
\* of vertices with that property ever loses a member, although a round
\* removes several vertices that count each other.
ResultIsTheCore ==
  /\ \A S \in SUBSET Vertices(data) : IsCore(S) => S \subseteq remaining
  /\ ~changed => IsCore(remaining)

\* Every round but the last removes somebody: the number of rounds that is
\* reported is at most one more than the number of vertices removed, and the
\* loop ends.
RoundsAreBounded ==
  iterations <= Cardinality(Vertices(data) \ remaining)
                  + (IF changed THEN 0 ELSE 1)
=============================================================================
