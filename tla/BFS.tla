-------------------------------- MODULE BFS ---------------------------------
(***************************************************************************)
(* BFS of algorithms/graph/bfs.py, and bfs_frontier_kernel of              *)
(* backends/accelerated.py, which repeats the same loop.                   *)
(*                                                                         *)
(* A step is one pass of `while queue`: the vertex at the head is expanded *)
(* and its new neighbours go to the end in the order of their numbers.     *)
(* The source need not occur in any edge.                                  *)
(***************************************************************************)
EXTENDS Integers, Sequences, FiniteSets, Functions, EdgeList

CONSTANTS
  Nodes,           \* vertices are numbers
  Candidates,      \* edges a dataset may contain
  Sources          \* values of the parameter source

VARIABLES
  data,            \* the edges of this run
  source,          \* the parameter of this run
  distances,       \* a dictionary: its domain is what was discovered
  queue

vars == <<data, source, distances, queue>>

Discovered == DOMAIN distances

\* The sequences that list a set.
Orders(S) == Bijection(1 .. Cardinality(S), S)

\* The sequence sorted() makes of the neighbours of v that are not in distances.
Fresh(v) ==
  {s \in Orders(Neighbors(data, v) \ Discovered) :
     \A i, j \in DOMAIN s : i < j => s[i] < s[j]}

\* distances with the vertices of S at distance d added.
Extended(S, d) == [v \in Discovered \cup S |-> IF v \in S THEN d ELSE distances[v]]

-----------------------------------------------------------------------------
(* Faulty variants of the action below.                                    *)

\* queue.pop() instead of queue.popleft(): depth first.
FaultyExpandLast ==
  LET node == queue[Len(queue)] IN
  /\ queue # <<>>
  /\ distances' = Extended(Neighbors(data, node) \ Discovered, distances[node] + 1)
  /\ \E fresh \in Fresh(node) : queue' = SubSeq(queue, 1, Len(queue) - 1) \o fresh
  /\ UNCHANGED <<data, source>>

\* The edges are followed in their direction only.
FaultyExpandDirected ==
  LET node == Head(queue)
      next == {w \in Neighbors(data, node) : <<node, w>> \in data} \ Discovered
  IN
  /\ queue # <<>>
  /\ distances' = Extended(next, distances[node] + 1)
  /\ \E fresh \in Orders(next) : queue' = Tail(queue) \o fresh
  /\ UNCHANGED <<data, source>>

-----------------------------------------------------------------------------
Init ==
  /\ data \in SUBSET Candidates
  /\ source \in Sources
  /\ distances = [v \in {source} |-> 0]
  /\ queue = <<source>>

Expand ==
  LET node == Head(queue) IN
  /\ queue # <<>>
  /\ distances' = Extended(Neighbors(data, node) \ Discovered, distances[node] + 1)
  /\ \E fresh \in Fresh(node) : queue' = Tail(queue) \o fresh
  /\ UNCHANGED <<data, source>>

Next == Expand

Spec == Init /\ [][Next]_vars

Finished == queue = <<>>

-----------------------------------------------------------------------------
(* Properties.                                                             *)

\* The variables have their types: the queue holds discovered vertices only.
TypeOK ==
  /\ data \subseteq Candidates
  /\ source \in Sources
  /\ Discovered \subseteq Vertices(data) \cup {source}
  /\ distances \in [Discovered -> Nat]
  /\ queue \in Seq(Discovered)

\* The queue holds at most two layers, the nearer one first, every vertex at
\* most once, and what has left it is no farther than its head.
QueueIsLayered ==
  /\ \A i, j \in DOMAIN queue :
       i < j => /\ queue[i] # queue[j]
                /\ distances[queue[i]] <= distances[queue[j]]
                /\ distances[queue[j]] <= distances[queue[i]] + 1
  /\ \A v \in Discovered, i \in DOMAIN queue :
       (\A j \in DOMAIN queue : queue[j] # v) =>
          distances[v] <= distances[queue[i]]

\* The reference: the vertices within n hops of the source.
Within(n) ==
  LET near[i \in 0 .. n] ==
        IF i = 0 THEN {source}
        ELSE near[i - 1] \cup UNION {Neighbors(data, v) : v \in near[i - 1]}
  IN  near[n]

\* A distance, once entered, is the number of hops of a shortest path, and is
\* never improved later; at the end exactly what can be reached has one.
DistancesAreShortest ==
  /\ \A v \in Discovered :
       /\ v \in Within(distances[v])
       /\ distances[v] > 0 => v \notin Within(distances[v] - 1)
  /\ Finished => \A v \in Discovered : Neighbors(data, v) \subseteq Discovered
=============================================================================
