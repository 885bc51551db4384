-------------------------------- MODULE KHop --------------------------------
(***************************************************************************)
(* KHop of algorithms/graph/k_hop.py: for every source the vertices that   *)
(* can be reached along at most `hops` edges, in their direction.          *)
(*                                                                         *)
(* The sources are searched one after the other, in the order given.  The  *)
(* vertices of adjacency[node] are taken in the order of the edge list,    *)
(* here in any order; a step is one pass of `while queue`.                 *)
(***************************************************************************)
EXTENDS Integers, Sequences, FiniteSets, Functions

CONSTANTS
  Nodes,
  Candidates,      \* edges a dataset may contain
  SourceLists,     \* values of the parameter sources
  MaxHops          \* bound on the parameter hops

VARIABLES
  data,            \* the edges of this run
  sources, hops,   \* the parameters of this run
  turn,            \* position in sources of the search that is running
  seen,
  queue,           \* pairs <<node, depth>>
  neighborhoods    \* a dictionary

vars == <<data, sources, hops, turn, seen, queue, neighborhoods>>

\* The sequences that list a set.
Orders(S) == Bijection(1 .. Cardinality(S), S)

Adjacent(v) == {w \in Nodes : <<v, w>> \in data}

\* A dictionary with one more entry.
With(dict, key, value) ==
  [x \in DOMAIN dict \cup {key} |-> IF x = key THEN value ELSE dict[x]]

-----------------------------------------------------------------------------
(* Faulty variants of the actions below.                                   *)

\* The queue is a stack.
FaultyVisitLast ==
  LET node  == queue[Len(queue)][1]
      depth == queue[Len(queue)][2]
      rest  == SubSeq(queue, 1, Len(queue) - 1)
  IN
  /\ queue # <<>>
  /\ IF depth = hops
       THEN queue' = rest /\ UNCHANGED seen
       ELSE /\ seen' = seen \cup Adjacent(node)
            /\ \E fresh \in Orders(Adjacent(node) \ seen) :
                 queue' = rest \o [i \in DOMAIN fresh |-> <<fresh[i], depth + 1>>]
  /\ UNCHANGED <<data, sources, hops, turn, neighborhoods>>

-----------------------------------------------------------------------------
Init ==
  /\ data \in SUBSET Candidates
  /\ sources \in SourceLists
  /\ hops \in 0 .. MaxHops
  /\ turn = 1
  /\ seen = IF sources = <<>> THEN {} ELSE {sources[1]}
  /\ queue = IF sources = <<>> THEN <<>> ELSE <<<<sources[1], 0>>>>
  /\ neighborhoods = <<>>

\* A vertex at the full depth is not expanded.
Visit ==
  LET node  == Head(queue)[1]
      depth == Head(queue)[2]
  IN
  /\ queue # <<>>
  /\ IF depth = hops
       THEN queue' = Tail(queue) /\ UNCHANGED seen
       ELSE /\ seen' = seen \cup Adjacent(node)
            /\ \E fresh \in Orders(Adjacent(node) \ seen) :
                 queue' = Tail(queue) \o [i \in DOMAIN fresh |-> <<fresh[i], depth + 1>>]
  /\ UNCHANGED <<data, sources, hops, turn, neighborhoods>>

\* The search of a source is over; the next one begins afresh.
FinishSource ==
  LET source == sources[turn] IN
  /\ turn <= Len(sources)
  /\ queue = <<>>
  /\ neighborhoods' = With(neighborhoods, source, seen \ {source})
  /\ turn' = turn + 1
  /\ seen' = IF turn' <= Len(sources) THEN {sources[turn']} ELSE seen
  /\ queue' = IF turn' <= Len(sources) THEN <<<<sources[turn'], 0>>>> ELSE <<>>
  /\ UNCHANGED <<data, sources, hops>>

Next == Visit \/ FinishSource

Spec == Init /\ [][Next]_vars

-----------------------------------------------------------------------------
(* Properties.                                                             *)

\* The variables have their types: queued vertices are seen, none too deep.
TypeOK ==
  /\ data \subseteq Candidates
  /\ sources \in SourceLists
  /\ hops \in 0 .. MaxHops
  /\ turn \in 1 .. Len(sources) + 1
  /\ seen \subseteq Nodes
  /\ queue \in Seq(seen \X (0 .. hops))
  /\ DOMAIN neighborhoods \subseteq Nodes
  /\ \A v \in DOMAIN neighborhoods : neighborhoods[v] \subseteq Nodes

\* The reference: the vertices at the end of at most n edges from v.
Within(v, n) ==
  LET near[i \in 0 .. n] ==
        IF i = 0 THEN {v}
        ELSE near[i - 1] \cup UNION {Adjacent(w) : w \in near[i - 1]}
  IN  near[n]

\* A vertex is marked as seen at its least depth, so that one that is queued
\* too deep to be expanded cannot hide a shorter way through it: the entry of
\* every source searched so far is exactly what `hops` edges reach.
NeighborhoodsAreExact ==
  /\ DOMAIN neighborhoods = {sources[i] : i \in 1 .. turn - 1}
  /\ \A v \in DOMAIN neighborhoods : neighborhoods[v] = Within(v, hops) \ {v}
=============================================================================
