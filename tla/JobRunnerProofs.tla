----------------------------- MODULE JobRunnerProofs ----------------------------
(***************************************************************************)
(* Theorems about the plugins that JobRunner runs, for every set of        *)
(* vertices, every finite dataset and all parameters.                      *)
(*                                                                         *)
(* The plugin of a job never changes, and what is a step of the job is a   *)
(* step of that plugin (PluginRuns), so each plugin has an invariant of    *)
(* its own, under the hypothesis that it is the one that runs.             *)
(*                                                                         *)
(* breadth-first search, k-hop neighbourhoods and the components are       *)
(* compared with the vertices that a number of edges reaches; Reach is     *)
(* that set, and the references of the three modules are shown to be it.   *)
(*                                                                         *)
(* pagerank passes scores on by a matrix whose rows sum up to the same, so *)
(* what it needs is about sums over finite sets: SumFunction adds in an    *)
(* order that is left open, and the lemmas say what does not depend on it. *)
(* label_propagation and louvain are shown to raise a score with every     *)
(* move, kmeans to lower one, from the terms of the sums that a move       *)
(* changes; linear_regression lowers one by the inequality of Cauchy and   *)
(* Schwarz.                                                                *)
(***************************************************************************)
EXTENDS JobRunner, Functions, FiniteSetTheorems, SequenceTheorems, WellFoundedInduction, TLAPS

LEMMA ComponentsParameters ==
  /\ Nodes \subseteq Int
  /\ EdgesOf["connected_components"] \subseteq Nodes \X Nodes
  /\ MaxIterations["connected_components"] \in Nat
BY GraphAssumption, ParametersAssumption DEF Plugins, Uses

LEMMA CoreParameters ==
  /\ EdgesOf["k_core"] \subseteq Nodes \X Nodes /\ IsFiniteSet(EdgesOf["k_core"])
  /\ Ks \subseteq Nat
BY GraphAssumption, ParametersAssumption DEF Plugins, Uses

LEMMA LayerParameters ==
  /\ Nodes \subseteq Int /\ Sources \subseteq Nodes
  /\ EdgesOf["bfs"] \subseteq Nodes \X Nodes /\ IsFiniteSet(EdgesOf["bfs"])
BY GraphAssumption, ParametersAssumption DEF Plugins, Uses

LEMMA HopParameters ==
  /\ SourceLists \subseteq Seq(Nodes) /\ MaxHops \in Nat
  /\ EdgesOf["k_hop"] \subseteq Nodes \X Nodes /\ IsFiniteSet(EdgesOf["k_hop"])
BY GraphAssumption, ParametersAssumption DEF Plugins, Uses

LEMMA TriangleParameters ==
  /\ Nodes \subseteq Int
  /\ EdgesOf["triangle_count"] \subseteq Nodes \X Nodes
  /\ IsFiniteSet(EdgesOf["triangle_count"])
BY GraphAssumption, ParametersAssumption DEF Plugins, Uses

LEMMA LabelParameters ==
  /\ Nodes \subseteq Int
  /\ EdgesOf["label_propagation"] \subseteq Nodes \X Nodes
  /\ IsFiniteSet(EdgesOf["label_propagation"])
  /\ MaxIterations["label_propagation"] \in Nat
BY GraphAssumption, ParametersAssumption DEF Plugins, Uses

LEMMA LouvainParameters ==
  /\ Nodes \subseteq Int
  /\ EdgesOf["louvain"] \subseteq Nodes \X Nodes /\ IsFiniteSet(EdgesOf["louvain"])
  /\ MaxPasses \in Nat
BY GraphAssumption, ParametersAssumption DEF Plugins, Uses

LEMMA RankParameters ==
  /\ Nodes \subseteq Int
  /\ EdgesOf["pagerank"] \subseteq Nodes \X Nodes /\ IsFiniteSet(EdgesOf["pagerank"])
  /\ MaxIterations["pagerank"] \in Nat
  /\ Damping[1] \in Nat /\ Damping[2] \in Nat /\ Damping[1] < Damping[2]
  /\ Tolerance[1] \in Nat /\ Tolerance[2] \in Nat /\ Unit \in Nat
BY GraphAssumption, ParametersAssumption DEF Plugins, Uses

\* The job begins with the beginning of its plugin's run.
LEMMA PluginBegins ==
  ASSUME Init
  PROVE  /\ plugin = "bfs" => B!Init
         /\ plugin = "k_hop" => K!Init
         /\ plugin = "connected_components" => C!Init
         /\ plugin = "k_core" => D!Init
         /\ plugin = "triangle_count" => T!Init
         /\ plugin = "label_propagation" => L!Init
         /\ plugin = "louvain" => V!Init
         /\ plugin = "pagerank" => P!Init
         /\ plugin = "kmeans" => M!Init
         /\ plugin = "linear_regression" => R!Init
BY DEF Init

\* A step of the job is a step of its plugin.
LEMMA PluginRuns ==
  ASSUME [Next]_vars
  PROVE  /\ plugin' = plugin
         /\ plugin = "bfs" => [B!Next]_(B!vars)
         /\ plugin = "k_hop" => [K!Next]_(K!vars)
         /\ plugin = "connected_components" => [C!Next]_(C!vars)
         /\ plugin = "k_core" => [D!Next]_(D!vars)
         /\ plugin = "triangle_count" => [T!Next]_(T!vars)
         /\ plugin = "label_propagation" => [L!Next]_(L!vars)
         /\ plugin = "louvain" => [V!Next]_(V!vars)
         /\ plugin = "pagerank" => [P!Next]_(P!vars)
         /\ plugin = "kmeans" => [M!Next]_(M!vars)
         /\ plugin = "linear_regression" => [R!Next]_(R!vars)
PROOF
  <1>1. CASE UNCHANGED vars
    BY <1>1 DEF vars, layerVars, hopVars, communityVars, scoreVars, clusterVars, weightVars,
         B!vars, K!vars, C!vars, D!vars, T!vars, L!vars, V!vars, P!vars, M!vars, R!vars
  <1>2. CASE Next
    BY <1>2 DEF Next, Run, RunBFS, RunKHop, RunConnectedComponents, RunKCore,
         RunLabelPropagation, RunLouvain, RunTriangleCount, RunPageRank, RunKMeans,
         RunLinearRegression
  <1> QED
    BY <1>1, <1>2

-----------------------------------------------------------------------------
(* The vertices that n edges reach.                                        *)

\* The order of the natural numbers as a relation, and its least elements.
Smaller == {p \in Nat \X Nat : p[1] < p[2]}

LEMMA LeastNatural ==
  ASSUME NEW S, S \subseteq Nat, S # {}
  PROVE  \E m \in S : \A n \in S : m <= n
PROOF
  <1>1. IsWellFoundedOn(Smaller, Nat)
    BY NatLessThanWellFounded DEF OpToRel, Smaller
  <1>2. PICK m \in S : \A n \in S : ~ (<<n, m>> \in Smaller)
    BY <1>1, WFMin
  <1>3. ASSUME NEW n \in S
        PROVE  m <= n
    <2>1. m \in Nat /\ n \in Nat
      OBVIOUS
    <2>2. n < m => <<n, m>> \in Smaller
      BY <2>1 DEF Smaller
    <2> QED
      BY <1>2, <2>1, <2>2
  <1> QED
    BY <1>3

\* The chains of `last` steps from `first`, and that there always is one.
Chains(S, first, step, last) ==
  {g \in [0 .. last -> S] :
     g[0] = first /\ \A n \in 0 .. last - 1 : g[n + 1] = step[g[n]]}

LEMMA ChainsExist ==
  ASSUME NEW S, NEW first \in S, NEW step \in [S -> S], NEW last \in Nat
  PROVE  Chains(S, first, step, last) # {}
PROOF
  <1> DEFINE Upto(m) == Chains(S, first, step, m) # {}
             Missing == {m \in Nat : ~Upto(m)}
  <1>1. Upto(0)
    <2>1. [n \in {0} |-> first] \in [{0} -> S] /\ 0 .. 0 = {0} /\ 0 .. 0 - 1 = {}
      OBVIOUS
    <2>2. [n \in {0} |-> first] \in Chains(S, first, step, 0)
      BY <2>1, Zenon DEF Chains
    <2> QED
      BY <2>2
  <1>2. ASSUME NEW m \in Nat, Upto(m)
        PROVE  Upto(m + 1)
    <2>1. PICK g \in [0 .. m -> S] :
            g[0] = first /\ \A n \in 0 .. m - 1 : g[n + 1] = step[g[n]]
      BY <1>2 DEF Chains
    <2> DEFINE h == [n \in 0 .. m + 1 |-> IF n <= m THEN g[n] ELSE step[g[m]]]
    <2>2. h \in [0 .. m + 1 -> S] /\ h[0] = first
      BY <2>1
    <2>3. ASSUME NEW n \in 0 .. (m + 1) - 1
          PROVE  h[n + 1] = step[h[n]]
      <3>1. CASE n = m
        BY <3>1
      <3>2. CASE n # m
        BY <2>1, <3>2
      <3> QED
        BY <3>1, <3>2
    <2> HIDE DEF h
    <2>4. h \in Chains(S, first, step, m + 1)
      BY <2>2, <2>3 DEF Chains
    <2> QED
      BY <2>4
  <1> HIDE DEF Upto
  <1>3. CASE Missing = {}
    BY <1>3 DEF Upto
  <1>4. CASE Missing # {}
    <2>1. PICK m \in Missing : \A n \in Missing : m <= n
      BY <1>4, LeastNatural
    <2>2. m \in Nat /\ ~Upto(m) /\ m # 0
      BY <1>1
    <2>3. m - 1 \in Nat /\ Upto(m - 1)
      BY <2>1, <2>2
    <2> QED
      BY <1>2, <2>2, <2>3
  <1> QED
    BY <1>3, <1>4

\* Chains of different lengths agree as far as both go.
LEMMA ChainsAgree ==
  ASSUME NEW S, NEW first, NEW step, NEW m \in Nat, NEW n \in Nat,
         NEW g \in Chains(S, first, step, m), NEW h \in Chains(S, first, step, n),
         NEW at \in Nat, at <= m, at <= n
  PROVE  g[at] = h[at]
PROOF
  <1> DEFINE Differ == {i \in Nat : i <= m /\ i <= n /\ g[i] # h[i]}
  <1> SUFFICES ASSUME Differ # {} PROVE FALSE
    OBVIOUS
  <1>1. PICK i \in Differ : \A j \in Differ : i <= j
    <2>1. Differ \subseteq Nat
      OBVIOUS
    <2> HIDE DEF Differ
    <2> QED
      BY <2>1, LeastNatural
  <1>2. i \in Nat /\ i <= m /\ i <= n /\ g[i] # h[i]
    OBVIOUS
  <1>3. i # 0
    BY <1>2 DEF Chains
  <1>4. i - 1 \in Nat /\ i - 1 \in 0 .. m - 1 /\ i - 1 \in 0 .. n - 1 /\ (i - 1) + 1 = i
    BY <1>2, <1>3
  <1>5. g[i] = step[g[i - 1]] /\ h[i] = step[h[i - 1]]
    <2>1. g[(i - 1) + 1] = step[g[i - 1]] /\ h[(i - 1) + 1] = step[h[i - 1]]
      BY <1>4, Zenon DEF Chains
    <2> QED
      BY <1>4, <2>1
  <1>6. g[i - 1] = h[i - 1]
    <2>1. i - 1 \notin Differ
      BY <1>1, <1>2
    <2> QED
      BY <1>2, <1>4, <2>1
  <1> QED
    BY <1>2, <1>5, <1>6

\* The ends of the edges of E that begin in w, and the first n + 1 of the sets
\* that follow {v} when each takes up the ends of the edges from the last.
Out(E, w) == {x \in Nodes : <<w, x>> \in E}

Reached(E, v, n, near) ==
  [i \in 0 .. n |-> IF i = 0 THEN {v}
                    ELSE near[i - 1] \cup UNION {Out(E, w) : w \in near[i - 1]}]

Reach(E, v, n) == (CHOOSE near : near = Reached(E, v, n, near))[n]

Grow(E) == [X \in SUBSET Nodes |-> X \cup UNION {Out(E, w) : w \in X}]

\* There are such sets, and whatever satisfies the recursion is them.
LEMMA ReachedExists ==
  ASSUME NEW E, NEW v \in Nodes, NEW n \in Nat
  PROVE  \E near : near = Reached(E, v, n, near)
PROOF
  <1> DEFINE S == SUBSET Nodes
  <1>1. {v} \in S /\ Grow(E) \in [S -> S]
    BY DEF Grow, Out
  <1>2. PICK g \in Chains(S, {v}, Grow(E), n) : TRUE
    <2> HIDE DEF S
    <2>1. Chains(S, {v}, Grow(E), n) # {}
      BY <1>1, ChainsExist
    <2> QED
      BY <2>1
  <1>3. ASSUME NEW i \in 0 .. n
        PROVE  g[i] = IF i = 0 THEN {v}
                      ELSE g[i - 1] \cup UNION {Out(E, w) : w \in g[i - 1]}
    <2>1. CASE i = 0
      BY <1>2, <2>1 DEF Chains
    <2>2. CASE i # 0
      <3>1. i - 1 \in 0 .. n - 1 /\ (i - 1) + 1 = i /\ i - 1 \in 0 .. n
        BY <2>2
      <3>2. g[i] = Grow(E)[g[i - 1]] /\ g[i - 1] \in S
        BY <1>2, <3>1 DEF Chains
      <3> QED
        BY <2>2, <3>2 DEF Grow
    <2> QED
      BY <2>1, <2>2
  <1>4. g = [i \in 0 .. n |-> g[i]]
    BY <1>2 DEF Chains
  <1>5. g = Reached(E, v, n, g)
    BY <1>3, <1>4, Zenon DEF Reached
  <1> QED
    BY <1>5

LEMMA ReachedIsChain ==
  ASSUME NEW E, NEW v \in Nodes, NEW n \in Nat,
         NEW near, near = Reached(E, v, n, near)
  PROVE  near \in Chains(SUBSET Nodes, {v}, Grow(E), n)
PROOF
  <1> DEFINE Bad == {i \in 0 .. n : near[i] \notin SUBSET Nodes}
  <1>1. near = [i \in 0 .. n |-> near[i]]
    BY DEF Reached
  <1>2. near[0] = {v}
    BY DEF Reached
  <1>3. ASSUME NEW i \in 0 .. n, i # 0
        PROVE  near[i] = near[i - 1] \cup UNION {Out(E, w) : w \in near[i - 1]}
    BY <1>3 DEF Reached
  <1>4. Bad = {}
    <2> SUFFICES ASSUME Bad # {} PROVE FALSE
      OBVIOUS
    <2>1. PICK i \in Bad : \A j \in Bad : i <= j
      <3>1. Bad \subseteq Nat
        OBVIOUS
      <3> HIDE DEF Bad
      <3> QED
        BY <3>1, LeastNatural
    <2>2. i \in 0 .. n /\ near[i] \notin SUBSET Nodes /\ i # 0
      BY <1>2
    <2>3. i - 1 \in 0 .. n /\ near[i - 1] \subseteq Nodes
      BY <2>1, <2>2
    <2>4. near[i] = near[i - 1] \cup UNION {Out(E, w) : w \in near[i - 1]}
      BY <1>3, <2>2
    <2>5. \A w : Out(E, w) \subseteq Nodes
      BY DEF Out
    <2>6. near[i] \subseteq Nodes
      BY <2>3, <2>4, <2>5, Zenon
    <2> QED
      BY <2>2, <2>6
  <1>5. near \in [0 .. n -> SUBSET Nodes]
    BY <1>1, <1>4
  <1>6. ASSUME NEW i \in 0 .. n - 1
        PROVE  near[i + 1] = Grow(E)[near[i]]
    <2>1. i + 1 \in 0 .. n /\ i + 1 # 0 /\ (i + 1) - 1 = i /\ i \in 0 .. n
      OBVIOUS
    <2>2. near[i + 1] = near[i] \cup UNION {Out(E, w) : w \in near[i]}
      BY <1>3, <2>1
    <2> QED
      BY <1>5, <2>1, <2>2 DEF Grow
  <1> QED
    BY <1>2, <1>5, <1>6 DEF Chains

LEMMA ReachIs ==
  ASSUME NEW E, NEW v \in Nodes, NEW n \in Nat,
         NEW near, near = Reached(E, v, n, near)
  PROVE  near[n] = Reach(E, v, n)
PROOF
  <1> DEFINE chosen == CHOOSE f : f = Reached(E, v, n, f)
  <1>1. chosen = Reached(E, v, n, chosen)
    BY Zenon
  <1> HIDE DEF chosen
  <1>2. /\ near \in Chains(SUBSET Nodes, {v}, Grow(E), n)
        /\ chosen \in Chains(SUBSET Nodes, {v}, Grow(E), n)
    BY <1>1, ReachedIsChain
  <1>3. near[n] = chosen[n]
    BY <1>2, ChainsAgree
  <1> QED
    BY <1>3, Zenon DEF Reach, chosen

\* One edge more from each that n edges reach.
LEMMA ReachStep ==
  ASSUME NEW E, NEW v \in Nodes, NEW n \in Nat
  PROVE  /\ Reach(E, v, 0) = {v}
         /\ Reach(E, v, n) \subseteq Nodes
         /\ Reach(E, v, n + 1) = Reach(E, v, n) \cup UNION {Out(E, w) : w \in Reach(E, v, n)}
PROOF
  <1> DEFINE S == SUBSET Nodes
  <1>1. ASSUME NEW m \in Nat
        PROVE  \E g \in Chains(S, {v}, Grow(E), m) : Reach(E, v, m) = g[m]
    <2>1. PICK near : near = Reached(E, v, m, near)
      BY ReachedExists
    <2> QED
      BY <2>1, ReachedIsChain, ReachIs, Zenon
  <1>2. PICK f \in Chains(S, {v}, Grow(E), 0) : Reach(E, v, 0) = f[0]
    BY <1>1
  <1>3. PICK g \in Chains(S, {v}, Grow(E), n) : Reach(E, v, n) = g[n]
    BY <1>1
  <1>4. PICK h \in Chains(S, {v}, Grow(E), n + 1) : Reach(E, v, n + 1) = h[n + 1]
    <2>1. n + 1 \in Nat
      OBVIOUS
    <2> QED
      BY <1>1, <2>1, Zenon
  <1>5. g[n] = h[n]
    BY ChainsAgree
  <1>6. h[n + 1] = Grow(E)[h[n]]
    BY n \in 0 .. (n + 1) - 1 DEF Chains
  <1>7. g[n] \in S /\ f[0] = {v}
    BY DEF Chains
  <1> QED
    BY <1>2, <1>3, <1>4, <1>5, <1>6, <1>7 DEF Grow

LEMMA ReachZero ==
  ASSUME NEW E, NEW v \in Nodes
  PROVE  Reach(E, v, 0) = {v}
BY ReachStep

LEMMA ReachNodes ==
  ASSUME NEW E, NEW v \in Nodes, NEW n \in Nat
  PROVE  Reach(E, v, n) \subseteq Nodes
BY ReachStep

LEMMA ReachNext ==
  ASSUME NEW E, NEW v \in Nodes, NEW n \in Nat
  PROVE  \A x : x \in Reach(E, v, n + 1) <=>
                 \/ x \in Reach(E, v, n)
                 \/ \E w \in Reach(E, v, n) : x \in Out(E, w)
PROOF
  <1>1. Reach(E, v, n + 1) = Reach(E, v, n) \cup UNION {Out(E, w) : w \in Reach(E, v, n)}
    BY ReachStep
  <1> QED
    BY <1>1, Zenon

\* The edge added to a path may as well be its first.
LEMMA ReachFirst ==
  ASSUME NEW E, NEW v \in Nodes, NEW n \in Nat
  PROVE  Reach(E, v, n + 1) = Reach(E, v, n) \cup UNION {Reach(E, w, n) : w \in Out(E, v)}
PROOF
  <1> DEFINE First(m) ==
               \A x : x \in Reach(E, v, m + 1) <=>
                      \/ x \in Reach(E, v, m)
                      \/ \E w \in Out(E, v) : x \in Reach(E, w, m)
             Bad == {m \in Nat : ~First(m)}
  <1>1. Out(E, v) \subseteq Nodes
    BY DEF Out
  <1>2. First(0)
    <2>1. \A x : x \in Reach(E, v, 0 + 1) <=>
                   \/ x \in Reach(E, v, 0)
                   \/ \E w \in Reach(E, v, 0) : x \in Out(E, w)
      BY ReachNext
    <2>2. Reach(E, v, 0) = {v} /\ \A w \in Out(E, v) : Reach(E, w, 0) = {w}
      BY <1>1, ReachZero
    <2> QED
      BY <2>1, <2>2
  <1>3. ASSUME NEW m \in Nat, First(m)
        PROVE  First(m + 1)
    <2>1. m + 1 \in Nat
      OBVIOUS
    <2>2. \A x : x \in Reach(E, v, (m + 1) + 1) <=>
                   \/ x \in Reach(E, v, m + 1)
                   \/ \E y \in Reach(E, v, m + 1) : x \in Out(E, y)
      BY <2>1, ReachNext, Zenon
    <2>3. \A x : x \in Reach(E, v, m + 1) <=>
                   \/ x \in Reach(E, v, m)
                   \/ \E y \in Reach(E, v, m) : x \in Out(E, y)
      BY ReachNext, Zenon
    <2>4. \A w \in Out(E, v) : \A x :
            x \in Reach(E, w, m + 1) <=>
              \/ x \in Reach(E, w, m)
              \/ \E y \in Reach(E, w, m) : x \in Out(E, y)
      BY <1>1, ReachNext, Zenon
    <2>5. \A x : x \in Reach(E, v, m + 1) <=>
                   \/ x \in Reach(E, v, m)
                   \/ \E w \in Out(E, v) : x \in Reach(E, w, m)
      BY <1>3
    <2> HIDE DEF First
    <2>6. \A x : x \in Reach(E, v, (m + 1) + 1) <=>
                   \/ x \in Reach(E, v, m + 1)
                   \/ \E w \in Out(E, v) : x \in Reach(E, w, m + 1)
      BY <2>2, <2>3, <2>4, <2>5, Zenon
    <2> QED
      BY <2>6, Zenon DEF First
  <1> HIDE DEF First
  <1>4. Bad = {}
    <2> SUFFICES ASSUME Bad # {} PROVE FALSE
      OBVIOUS
    <2>1. PICK m \in Bad : \A i \in Bad : m <= i
      <3>1. Bad \subseteq Nat
        OBVIOUS
      <3> HIDE DEF Bad
      <3> QED
        BY <3>1, LeastNatural
    <2>2. m \in Nat /\ ~First(m) /\ m # 0
      BY <1>2
    <2>3. m - 1 \in Nat /\ First(m - 1) /\ (m - 1) + 1 = m
      BY <2>1, <2>2
    <2> QED
      BY <1>3, <2>2, <2>3
  <1>5. First(n)
    BY <1>4
  <1> QED
    BY <1>5 DEF First

\* No number of edges leads out of a set that no edge leaves.
LEMMA ReachStays ==
  ASSUME NEW E, NEW X, NEW v \in Nodes, v \in X,
         \A w \in X : Out(E, w) \subseteq X,
         NEW n \in Nat
  PROVE  Reach(E, v, n) \subseteq X
PROOF
  <1> DEFINE Bad == {m \in Nat : ~(Reach(E, v, m) \subseteq X)}
  <1>1. Bad = {}
    <2> SUFFICES ASSUME Bad # {} PROVE FALSE
      OBVIOUS
    <2>1. PICK m \in Bad : \A i \in Bad : m <= i
      <3>1. Bad \subseteq Nat
        OBVIOUS
      <3> HIDE DEF Bad
      <3> QED
        BY <3>1, LeastNatural
    <2>2. m \in Nat /\ ~(Reach(E, v, m) \subseteq X) /\ m # 0
      BY ReachZero
    <2>3. m - 1 \in Nat /\ (m - 1) + 1 = m /\ Reach(E, v, m - 1) \subseteq X
      BY <2>1, <2>2
    <2>4. \A x : x \in Reach(E, v, (m - 1) + 1) <=>
                   \/ x \in Reach(E, v, m - 1)
                   \/ \E w \in Reach(E, v, m - 1) : x \in Out(E, w)
      BY <2>3, ReachNext, Zenon
    <2>5. Reach(E, v, (m - 1) + 1) \subseteq X
      BY <2>3, <2>4, Zenon
    <2> QED
      BY <2>2, <2>3, <2>5
  <1> QED
    BY <1>1

\* More edges reach no less.
LEMMA ReachMonotone ==
  ASSUME NEW E, NEW v \in Nodes, NEW m \in Nat, NEW n \in Nat, m <= n
  PROVE  Reach(E, v, m) \subseteq Reach(E, v, n)
PROOF
  <1> DEFINE Bad == {i \in Nat : m <= i /\ ~(Reach(E, v, m) \subseteq Reach(E, v, i))}
  <1>1. Bad = {}
    <2> SUFFICES ASSUME Bad # {} PROVE FALSE
      OBVIOUS
    <2>1. PICK i \in Bad : \A j \in Bad : i <= j
      <3>1. Bad \subseteq Nat
        OBVIOUS
      <3> HIDE DEF Bad
      <3> QED
        BY <3>1, LeastNatural
    <2>2. i \in Nat /\ m <= i /\ ~(Reach(E, v, m) \subseteq Reach(E, v, i)) /\ i # m
      OBVIOUS
    <2>3. i - 1 \in Nat /\ m <= i - 1 /\ (i - 1) + 1 = i /\ i - 1 < i
      BY <2>2
    <2>4. Reach(E, v, m) \subseteq Reach(E, v, i - 1)
      BY <2>1, <2>2, <2>3
    <2>5. Reach(E, v, i - 1) \subseteq Reach(E, v, (i - 1) + 1)
      BY <2>3, ReachNext, Zenon
    <2> QED
      BY <2>2, <2>3, <2>4, <2>5
  <1> QED
    BY <1>1

\* Both directions of the edges.
Both(E) == E \cup {<<e[2], e[1]>> : e \in E}

-----------------------------------------------------------------------------
(* connected_components                                                    *)

StaysHome(f) ==
  \A v \in C!Vertices(data) :
    /\ f[v] <= v
    /\ \A S \in SUBSET C!Vertices(data) :
         C!Closed(data, S) => (v \in S <=> f[v] \in S)

\* f[v] is not above any label v hears.
Lowest(f, v) == \A l \in C!Heard(v) : f[v] <= l

\* A superstep that has visited a vertex has given it the least label, and one
\* that has not set changed has changed nothing.
SuperstepInProgress ==
  ~done =>
    /\ iterations < MaxIterations["connected_components"]
    /\ \A v \in C!Vertices(data) \ todo : Lowest(next_labels, v)
    /\ ~changed => next_labels = labels

ConvergedIsLowest == C!Converged => \A v \in C!Vertices(data) : Lowest(labels, v)

\* The inductive invariant behind ConvergedIsComponents.
ComponentsInv ==
  /\ C!TypeOK
  /\ StaysHome(labels)
  /\ StaysHome(next_labels)
  /\ SuperstepInProgress
  /\ ConvergedIsLowest

-----------------------------------------------------------------------------
LEMMA VertexType ==
  ASSUME C!TypeOK, NEW v \in C!Vertices(data)
  PROVE  v \in Int /\ C!Neighbors(data, v) \subseteq C!Vertices(data)
BY ComponentsParameters DEF C!TypeOK, C!Vertices, C!Neighbors

LEMMA EdgeEnds ==
  ASSUME C!TypeOK, NEW e \in data
  PROVE  /\ e[1] \in C!Vertices(data) /\ e[2] \in C!Vertices(data)
         /\ e[1] \in C!Neighbors(data, e[2]) /\ e[2] \in C!Neighbors(data, e[1])
PROOF
  <1>1. e = <<e[1], e[2]>>
    BY ComponentsParameters DEF C!TypeOK
  <1> QED
    BY <1>1 DEF C!Vertices, C!Neighbors

\* A neighbour is in the same closed sets.
LEMMA NeighborsStay ==
  ASSUME C!TypeOK, NEW v \in C!Vertices(data), NEW w \in C!Neighbors(data, v),
         NEW S, C!Closed(data, S)
  PROVE  v \in S <=> w \in S
BY DEF C!Neighbors, C!Closed

LEMMA ComponentsInitInv == C!Init => ComponentsInv
PROOF
  <1> SUFFICES ASSUME C!Init PROVE ComponentsInv
    OBVIOUS
  <1>1. data \subseteq EdgesOf["connected_components"] /\ C!Vertices(data) \subseteq Int
    BY ComponentsParameters DEF C!Init, C!Vertices
  <1>2. /\ labels = [v \in C!Vertices(data) |-> v] /\ next_labels = labels
        /\ changed = FALSE /\ iterations = 0
        /\ todo = IF done THEN {} ELSE C!Vertices(data)
    BY DEF C!Init
  <1>3. done \in BOOLEAN /\ (~done => MaxIterations["connected_components"] # 0)
               /\ (done => MaxIterations["connected_components"] = 0)
    BY Zenon DEF C!Init
  <1>4. C!TypeOK
    <2>1. labels \in [C!Vertices(data) -> C!Vertices(data)]
      BY <1>2
    <2>2. iterations \in 0 .. MaxIterations["connected_components"]
      BY <1>2, ComponentsParameters
    <2>3. todo \subseteq C!Vertices(data) /\ (done => todo = {})
      BY <1>2
    <2> QED
      BY <1>1, <1>2, <1>3, <2>1, <2>2, <2>3 DEF C!TypeOK
  <1>5. StaysHome(labels) /\ StaysHome(next_labels)
    BY <1>1, <1>2 DEF StaysHome
  <1>6. SuperstepInProgress
    BY <1>2, <1>3, ComponentsParameters DEF SuperstepInProgress
  <1>7. ConvergedIsLowest
    BY <1>2, <1>3 DEF ConvergedIsLowest, C!Converged
  <1> QED
    BY <1>4, <1>5, <1>6, <1>7 DEF ComponentsInv

LEMMA VisitInv == ASSUME ComponentsInv, NEW v \in Nodes, C!Visit(v) PROVE ComponentsInv'
PROOF
  <1>1. /\ ~done /\ v \in todo /\ todo' = todo \ {v}
        /\ UNCHANGED <<data, labels, iterations, done>>
    BY DEF C!Visit
  <1>2. C!TypeOK /\ v \in C!Vertices(data)
    BY <1>1 DEF ComponentsInv, C!TypeOK
  <1>3. PICK candidate \in C!Heard(v) :
          /\ \A l \in C!Heard(v) : candidate <= l
          /\ IF candidate < next_labels[v]
               THEN /\ next_labels' = [next_labels EXCEPT ![v] = candidate]
                    /\ changed' = TRUE
               ELSE UNCHANGED <<next_labels, changed>>
    BY DEF C!Visit
  <1>4. /\ \A w \in C!Vertices(data) : w \in Int /\ labels[w] \in C!Vertices(data)
                                       /\ next_labels[w] \in C!Vertices(data)
        /\ candidate \in C!Vertices(data)
        /\ labels[v] \in C!Heard(v)
        /\ v \in Int /\ candidate \in Int
        /\ next_labels[v] \in Int /\ labels[v] \in Int
    BY <1>2, <1>3, VertexType DEF C!TypeOK, C!Heard
  <1>5. \A w \in C!Vertices(data) :
          next_labels'[w] = next_labels[w]
            \/ (w = v /\ next_labels'[w] = candidate /\ candidate < next_labels[v])
    BY <1>2, <1>3 DEF C!TypeOK
  <1>6. C!TypeOK'
    <2>1. next_labels' \in [C!Vertices(data) -> C!Vertices(data)]
      BY <1>2, <1>3, <1>4 DEF C!TypeOK
    <2>2. changed' \in BOOLEAN
      BY <1>2, <1>3 DEF C!TypeOK
    <2> QED
      BY <1>1, <1>2, <2>1, <2>2 DEF C!TypeOK
  <1>7. StaysHome(labels)'
    BY <1>1 DEF ComponentsInv, StaysHome
  <1>8. candidate <= v
    <2>1. labels[v] <= v
      BY <1>2 DEF ComponentsInv, StaysHome
    <2> QED
      BY <1>3, <1>4, <2>1
  <1>9. ASSUME NEW S \in SUBSET C!Vertices(data), C!Closed(data, S)
        PROVE  v \in S <=> candidate \in S
    <2>1. CASE candidate = labels[v]
      BY <1>2, <1>9, <2>1 DEF ComponentsInv, StaysHome
    <2>2. CASE \E w \in C!Neighbors(data, v) : candidate = labels[w]
      <3>1. PICK w \in C!Neighbors(data, v) : candidate = labels[w]
        BY <2>2
      <3>2. w \in C!Vertices(data)
        BY <1>2, VertexType
      <3>3. v \in S <=> w \in S
        BY <1>2, <1>9, NeighborsStay
      <3> QED
        BY <1>9, <3>1, <3>2, <3>3 DEF ComponentsInv, StaysHome
    <2> QED
      BY <1>3, <2>1, <2>2 DEF C!Heard
  <1>10. StaysHome(next_labels)'
    <2> SUFFICES ASSUME NEW w \in C!Vertices(data)
                 PROVE  /\ next_labels'[w] <= w
                        /\ \A S \in SUBSET C!Vertices(data) :
                             C!Closed(data, S) => (w \in S <=> next_labels'[w] \in S)
      BY <1>1 DEF StaysHome
    <2>1. CASE next_labels'[w] = next_labels[w]
      BY <2>1 DEF ComponentsInv, StaysHome
    <2>2. CASE w = v /\ next_labels'[w] = candidate
      BY <1>8, <1>9, <2>2
    <2> QED
      BY <1>5, <2>1, <2>2
  <1>11. SuperstepInProgress'
    <2>1. iterations' < MaxIterations["connected_components"]
      BY <1>1 DEF ComponentsInv, SuperstepInProgress
    <2>2. ASSUME NEW w \in C!Vertices(data) \ todo'
          PROVE  Lowest(next_labels, w)'
      <3>1. C!Heard(w)' = C!Heard(w)
        BY <1>1 DEF C!Heard
      <3>2. CASE w = v
        <4>1. next_labels'[v] <= candidate
          BY <1>3, <1>4, <1>5, <1>2 DEF C!TypeOK
        <4>2. \A l \in C!Heard(v) : l \in Int
          BY <1>2, <1>4, VertexType DEF C!Heard
        <4>3. next_labels'[v] \in Int
          BY <1>2, <1>4, <1>5
        <4>4. ASSUME NEW l \in C!Heard(v) PROVE next_labels'[v] <= l
          <5>1. l \in Int /\ candidate <= l
            BY <1>3, <4>2
          <5> QED
            BY <1>4, <4>1, <4>3, <5>1
        <4> QED
          BY <3>1, <3>2, <4>4 DEF Lowest
      <3>3. CASE w # v
        <4>1. Lowest(next_labels, w)
          BY <1>1, <3>3 DEF ComponentsInv, SuperstepInProgress
        <4> QED
          BY <1>5, <3>1, <3>3, <4>1 DEF Lowest
      <3> QED
        BY <3>2, <3>3
    <2>3. ~changed' => next_labels' = labels'
      BY <1>1, <1>3 DEF ComponentsInv, SuperstepInProgress
    <2> QED
      BY <1>1, <2>1, <2>2, <2>3 DEF SuperstepInProgress
  <1>12. ConvergedIsLowest'
    BY <1>1 DEF ConvergedIsLowest, C!Converged
  <1> QED
    BY <1>6, <1>7, <1>10, <1>11, <1>12 DEF ComponentsInv

LEMMA EndSuperstepInv == ASSUME ComponentsInv, C!EndSuperstep PROVE ComponentsInv'
PROOF
  <1>1. /\ ~done /\ todo = {} /\ labels' = next_labels
        /\ iterations' = iterations + 1
        /\ changed' = IF done' THEN changed ELSE FALSE
        /\ todo' = IF done' THEN {} ELSE C!Vertices(data)
        /\ UNCHANGED <<data, next_labels>>
    BY DEF C!EndSuperstep
  <1>2. /\ done' \in BOOLEAN
        /\ done' => ~changed \/ iterations' = MaxIterations["connected_components"]
        /\ ~done' => iterations' # MaxIterations["connected_components"]
    BY Zenon DEF C!EndSuperstep
  <1>3. C!TypeOK /\ iterations \in Nat /\ iterations < MaxIterations["connected_components"]
    BY <1>1, ComponentsParameters DEF ComponentsInv, C!TypeOK, SuperstepInProgress
  <1>4. C!TypeOK'
    <2>1. iterations' \in 0 .. MaxIterations["connected_components"]
      BY <1>1, <1>3, ComponentsParameters
    <2> QED
      BY <1>1, <1>2, <1>3, <2>1 DEF C!TypeOK
  <1>5. StaysHome(labels)' /\ StaysHome(next_labels)'
    BY <1>1 DEF ComponentsInv, StaysHome
  <1>6. SuperstepInProgress'
    BY <1>1, <1>2, <1>3, ComponentsParameters DEF SuperstepInProgress
  <1>7. ConvergedIsLowest'
    <2> SUFFICES ASSUME done', iterations' < MaxIterations["connected_components"],
                        NEW v \in C!Vertices(data)
                 PROVE  Lowest(labels, v)'
      BY <1>1 DEF ConvergedIsLowest, C!Converged
    <2>1. ~changed
      BY <1>1, <1>2, <1>3, ComponentsParameters
    <2>2. labels' = labels /\ next_labels = labels
      BY <1>1, <2>1 DEF ComponentsInv, SuperstepInProgress
    <2>3. Lowest(next_labels, v)
      BY <1>1 DEF ComponentsInv, SuperstepInProgress
    <2> QED
      BY <1>1, <2>2, <2>3 DEF Lowest, C!Heard
  <1> QED
    BY <1>4, <1>5, <1>6, <1>7 DEF ComponentsInv

LEMMA ComponentsStutterInv == ASSUME ComponentsInv, UNCHANGED C!vars PROVE ComponentsInv'
BY DEF ComponentsInv, C!vars, C!TypeOK, StaysHome, SuperstepInProgress, ConvergedIsLowest,
       C!Converged, Lowest, C!Heard

\* What C calls the vertices within n hops is what n edges reach.
LEMMA NeighborsAreOut ==
  ASSUME data \subseteq Nodes \X Nodes, NEW w
  PROVE  /\ Out(Both(data), w) = C!Neighbors(data, w)
         /\ Out(Both(data), w) \subseteq C!Vertices(data)
PROOF
  <1>1. \A x : x \in C!Neighbors(data, w) <=>
                 x \in C!Vertices(data) /\ (<<w, x>> \in data \/ <<x, w>> \in data)
    BY DEF C!Neighbors
  <1>2. \A x : <<w, x>> \in data \/ <<x, w>> \in data =>
                 x \in C!Vertices(data) /\ x \in Nodes
    BY DEF C!Vertices
  <1>3. \A x : <<w, x>> \in Both(data) <=> <<w, x>> \in data \/ <<x, w>> \in data
    <2>1. \A e \in data : e = <<e[1], e[2]>>
      OBVIOUS
    <2> QED
      BY <2>1 DEF Both
  <1> QED
    BY <1>1, <1>2, <1>3 DEF Out

LEMMA ComponentsWithin ==
  ASSUME data \subseteq Nodes \X Nodes, NEW v \in Nodes, NEW n \in Nat
  PROVE  C!Within(v, n) = Reach(Both(data), v, n)
PROOF
  <1> DEFINE F(h) == [i \in 0 .. n |->
                        IF i = 0 THEN {v}
                        ELSE h[i - 1] \cup UNION {C!Neighbors(data, w) : w \in h[i - 1]}]
             near == CHOOSE h : h = F(h)
  <1>1. ASSUME NEW h
        PROVE  F(h) = Reached(Both(data), v, n, h)
    <2>1. ASSUME NEW X
          PROVE  UNION {C!Neighbors(data, w) : w \in X} = UNION {Out(Both(data), w) : w \in X}
      BY NeighborsAreOut
    <2> QED
      BY <2>1, Zenon DEF Reached
  <1>2. PICK h : h = Reached(Both(data), v, n, h)
    BY ReachedExists
  <1> HIDE DEF F
  <1>3. near = F(near)
    <2>1. h = F(h)
      BY <1>1, <1>2
    <2> QED
      BY <2>1, Zenon
  <1>4. C!Within(v, n) = near[n]
    BY Zenon DEF C!Within, F
  <1> HIDE DEF near
  <1>5. near = Reached(Both(data), v, n, near)
    BY <1>1, <1>3
  <1> QED
    BY <1>4, <1>5, ReachIs

LeastWithin(f, n) ==
  \A v \in C!Vertices(data) :
    /\ f[v] \in Reach(Both(data), v, n)
    /\ \A w \in Reach(Both(data), v, n) : f[v] <= w

\* The inductive invariant behind LabelsAreHopLimited: what a vertex takes it
\* has heard in this superstep.
ComponentsHopInv ==
  /\ LeastWithin(labels, iterations)
  /\ \A v \in C!Vertices(data) : next_labels[v] \in C!Heard(v)

LEMMA VertexIsNode ==
  ASSUME C!TypeOK
  PROVE  data \subseteq Nodes \X Nodes /\ C!Vertices(data) \subseteq Nodes
BY ComponentsParameters DEF C!TypeOK, C!Vertices

LEMMA ComponentsInitHopInv == C!Init => ComponentsHopInv
PROOF
  <1> SUFFICES ASSUME C!Init PROVE ComponentsHopInv
    OBVIOUS
  <1>1. /\ labels = [v \in C!Vertices(data) |-> v] /\ next_labels = labels
        /\ iterations = 0
    BY DEF C!Init
  <1>2. C!TypeOK
    BY ComponentsInitInv DEF ComponentsInv
  <1>3. ASSUME NEW v \in C!Vertices(data)
        PROVE  Reach(Both(data), v, 0) = {v} /\ v \in Int
    BY <1>2, VertexIsNode, ReachZero, VertexType
  <1> QED
    BY <1>1, <1>3 DEF ComponentsHopInv, LeastWithin, C!Heard

LEMMA VisitHopInv ==
  ASSUME ComponentsInv, ComponentsHopInv, NEW v \in Nodes, C!Visit(v)
  PROVE  ComponentsHopInv'
PROOF
  <1>1. v \in todo /\ UNCHANGED <<data, labels, iterations>>
    BY DEF C!Visit
  <1>2. PICK candidate \in C!Heard(v) :
          next_labels' \in {next_labels, [next_labels EXCEPT ![v] = candidate]}
    BY DEF C!Visit
  <1>3. ASSUME NEW w \in C!Vertices(data)
        PROVE  next_labels'[w] \in C!Heard(w)
    BY <1>2 DEF ComponentsInv, C!TypeOK, ComponentsHopInv
  <1>4. ASSUME NEW w \in C!Vertices(data)
        PROVE  C!Heard(w)' = C!Heard(w)
    BY <1>1 DEF C!Heard
  <1> QED
    BY <1>1, <1>3, <1>4 DEF ComponentsHopInv, LeastWithin

LEMMA EndHopInv ==
  ASSUME ComponentsInv, ComponentsHopInv, C!EndSuperstep
  PROVE  ComponentsHopInv'
PROOF
  <1>1. /\ ~done /\ todo = {} /\ labels' = next_labels
        /\ iterations' = iterations + 1
        /\ UNCHANGED <<data, next_labels>>
    BY DEF C!EndSuperstep
  <1>2. C!TypeOK /\ iterations \in Nat
    BY DEF ComponentsInv, C!TypeOK
  <1>3. data \subseteq Nodes \X Nodes /\ C!Vertices(data) \subseteq Nodes
    BY <1>2, VertexIsNode
  <1> DEFINE ball(v) == Reach(Both(data), v, iterations)
             next(v) == Reach(Both(data), v, iterations + 1)
  <1>4. ASSUME NEW v \in C!Vertices(data)
        PROVE  /\ next_labels[v] \in next(v)
               /\ \A w \in next(v) : next_labels[v] <= w
    <2>1. next_labels[v] \in C!Heard(v) /\ \A l \in C!Heard(v) : next_labels[v] <= l
      BY <1>1 DEF ComponentsInv, SuperstepInProgress, Lowest, ComponentsHopInv
    <2>2. C!Neighbors(data, v) \subseteq C!Vertices(data)
      BY <1>2, VertexType
    <2>3. \A x : x \in next(v) <=>
            x \in ball(v) \/ \E w \in C!Neighbors(data, v) : x \in ball(w)
      <3>1. next(v) = ball(v) \cup UNION {ball(w) : w \in Out(Both(data), v)}
        BY <1>2, <1>3, ReachFirst
      <3>2. Out(Both(data), v) = C!Neighbors(data, v)
        BY <1>3, NeighborsAreOut
      <3> HIDE DEF ball, next
      <3> QED
        BY <3>1, <3>2
    <2>4. \A w \in C!Vertices(data) :
            /\ labels[w] \in ball(w)
            /\ \A x \in ball(w) : labels[w] <= x
      BY DEF ComponentsHopInv, LeastWithin
    <2>5. ASSUME NEW w \in C!Vertices(data)
          PROVE  ball(w) \subseteq Nodes /\ ball(w) \subseteq Int
      <3>1. w \in Nodes
        BY <1>3
      <3> QED
        BY <1>2, <3>1, ReachNodes, ComponentsParameters
    <2> HIDE DEF ball, next
    <2>6. next_labels[v] \in next(v)
      BY <2>1, <2>2, <2>3, <2>4 DEF C!Heard
    <2>7. ASSUME NEW x \in next(v)
          PROVE  next_labels[v] <= x
      <3>1. PICK w \in {v} \cup C!Neighbors(data, v) : x \in ball(w)
        BY <2>3
      <3>2. w \in C!Vertices(data) /\ labels[w] \in C!Heard(v)
        BY <2>2 DEF C!Heard
      <3>3. labels[w] <= x /\ next_labels[v] <= labels[w]
        BY <2>1, <2>4, <3>1, <3>2
      <3>4. next_labels[v] \in Int /\ labels[w] \in Int /\ x \in Int
        <4>1. next_labels[v] \in C!Vertices(data) /\ labels[w] \in C!Vertices(data)
          BY <1>2, <3>2 DEF C!TypeOK
        <4> QED
          BY <1>2, <2>5, <3>1, <3>2, <4>1, VertexType
      <3> QED
        BY <3>3, <3>4
    <2> QED
      BY <2>6, <2>7
  <1>5. ASSUME NEW v \in C!Vertices(data)
        PROVE  (next_labels[v] \in C!Heard(v))'
    BY <1>1 DEF C!Heard
  <1> QED
    BY <1>1, <1>4, <1>5 DEF ComponentsHopInv, LeastWithin

ComponentsRun == plugin = "connected_components" => ComponentsInv /\ ComponentsHopInv

\* The invariants hold for every graph and every bound on the supersteps.
THEOREM ComponentsInvariance == Spec => []ComponentsRun
PROOF
  <1>1. Init => ComponentsRun
    BY PluginBegins, ComponentsInitInv, ComponentsInitHopInv DEF ComponentsRun
  <1>2. ComponentsRun /\ [Next]_vars => ComponentsRun'
    <2> SUFFICES ASSUME ComponentsInv, ComponentsHopInv, [C!Next]_(C!vars)
                 PROVE  ComponentsInv' /\ ComponentsHopInv'
      BY PluginRuns DEF ComponentsRun
    <2>1. CASE UNCHANGED C!vars
      <3>1. UNCHANGED <<data, labels, next_labels, iterations>>
        BY <2>1 DEF C!vars
      <3>2. ComponentsHopInv'
        BY <3>1 DEF ComponentsHopInv, LeastWithin, C!Heard
      <3> QED
        BY <2>1, <3>2, ComponentsStutterInv
    <2>2. CASE C!Next
      BY <2>2, VisitInv, EndSuperstepInv, VisitHopInv, EndHopInv DEF C!Next
    <2> QED
      BY <2>1, <2>2
  <1> QED
    BY <1>1, <1>2, PTL DEF Spec

\* No superstep of connected_components carries a label into another component.
THEOREM LabelsStay == Spec => [](plugin = "connected_components" => C!LabelsStayHome)
PROOF
  <1>1. ComponentsRun => (plugin = "connected_components" => C!LabelsStayHome)
    BY DEF ComponentsRun, ComponentsInv, StaysHome, C!LabelsStayHome
  <1> QED
    BY <1>1, ComponentsInvariance, PTL

\* A result of connected_components with converged=True labels the components.
THEOREM ConvergedRunIsRight == Spec => []ConvergedIsComponents
PROOF
  <1>1. ComponentsRun => ConvergedIsComponents
    <2> SUFFICES ASSUME ComponentsInv, C!Converged, NEW e \in data
                 PROVE  labels[e[1]] = labels[e[2]]
      BY DEF ComponentsRun, ConvergedIsComponents, C!ConvergedIsComponents
    <2>1. C!TypeOK
      BY DEF ComponentsInv
    <2>2. /\ labels[e[1]] <= labels[e[2]]
          /\ labels[e[2]] <= labels[e[1]]
      BY <2>1, EdgeEnds DEF ComponentsInv, ConvergedIsLowest, Lowest, C!Heard
    <2>3. labels[e[1]] \in Int /\ labels[e[2]] \in Int
      BY <2>1, EdgeEnds, VertexType DEF C!TypeOK
    <2> QED
      BY <2>2, <2>3
  <1> QED
    BY <1>1, ComponentsInvariance, PTL

\* However the vertices are ordered, the supersteps of connected_components do
\* not mix: n of them carry a label over n edges.
THEOREM SuperstepsAreHops == Spec => []LabelsAreHopLimited
PROOF
  <1>1. ComponentsRun => LabelsAreHopLimited
    <2> SUFFICES ASSUME ComponentsInv, ComponentsHopInv, NEW v \in C!Vertices(data)
                 PROVE  LET near == C!Within(v, iterations)
                        IN  labels[v] \in near /\ \A w \in near : labels[v] <= w
      BY DEF ComponentsRun, LabelsAreHopLimited, C!LabelsAreHopLimited
    <2>1. C!TypeOK /\ iterations \in Nat
      BY DEF ComponentsInv, C!TypeOK
    <2>2. C!Within(v, iterations) = Reach(Both(data), v, iterations)
      BY <2>1, VertexIsNode, ComponentsWithin
    <2> QED
      BY <2>2 DEF ComponentsHopInv, LeastWithin
  <1> QED
    BY <1>1, ComponentsInvariance, PTL

-----------------------------------------------------------------------------
(* k_core                                                                  *)

\* The inductive invariant behind ResultIsTheCore.
CoreInv == D!TypeOK /\ D!ResultIsTheCore /\ D!RoundsAreBounded

-----------------------------------------------------------------------------
\* The number of elements is the same in every module.
LEMMA CoreCardinality ==
  ASSUME NEW S
  PROVE  D!Cardinality(S) = Cardinality(S)
BY Zenon DEF D!Cardinality, Cardinality

LEMMA VerticesFinite == ASSUME D!TypeOK PROVE IsFiniteSet(D!Vertices(data))
PROOF
  <1>1. IsFiniteSet(data)
    BY CoreParameters, FS_Subset DEF D!TypeOK
  <1>2. [e \in data |-> e[1]] \in Surjection(data, {e[1] : e \in data})
    BY DEF Surjection
  <1>3. [e \in data |-> e[2]] \in Surjection(data, {e[2] : e \in data})
    BY DEF Surjection
  <1>4. IsFiniteSet({e[1] : e \in data}) /\ IsFiniteSet({e[2] : e \in data})
    BY <1>1, <1>2, <1>3, FS_Surjection DEF ExistsSurjection
  <1> QED
    BY <1>4, FS_Union DEF D!Vertices

\* A vertex has no fewer neighbours in a larger set.
LEMMA DegreeMonotone ==
  ASSUME D!TypeOK, NEW v, NEW S, NEW U, S \subseteq U
  PROVE  D!Degree(v, S) \in Nat /\ D!Degree(v, U) \in Nat /\ D!Degree(v, S) <= D!Degree(v, U)
PROOF
  <1> DEFINE inS == {w \in D!Neighbors(data, v) : w \in S}
             inU == {w \in D!Neighbors(data, v) : w \in U}
  <1>1. inS \subseteq inU /\ inU \subseteq D!Vertices(data)
    BY DEF D!Neighbors
  <1>2. IsFiniteSet(inU)
    BY <1>1, VerticesFinite, FS_Subset
  <1>3. IsFiniteSet(inS) /\ Cardinality(inS) <= Cardinality(inU)
    BY <1>1, <1>2, FS_Subset
  <1> QED
    BY <1>2, <1>3, FS_CardinalityType, CoreCardinality DEF D!Degree

LEMMA CoreInitInv == D!Init => CoreInv
PROOF
  <1> SUFFICES ASSUME D!Init PROVE CoreInv
    OBVIOUS
  <1>1. D!TypeOK
    BY DEF D!Init, D!TypeOK
  <1>2. D!ResultIsTheCore
    BY DEF D!Init, D!ResultIsTheCore
  <1>3. Cardinality(D!Vertices(data) \ remaining) = 0
    BY FS_EmptySet DEF D!Init
  <1>4. D!RoundsAreBounded
    BY <1>3, CoreCardinality DEF D!Init, D!RoundsAreBounded
  <1> QED
    BY <1>1, <1>2, <1>4 DEF CoreInv

LEMMA RoundInv == ASSUME CoreInv, D!Round PROVE CoreInv'
PROOF
  <1>1. /\ changed /\ iterations' = iterations + 1
        /\ remaining' = remaining \ D!ToRemove
        /\ UNCHANGED <<data, k>>
    BY DEF D!Round
  <1>2. changed' \in BOOLEAN /\ (changed' <=> D!ToRemove # {})
    BY DEF D!Round
  <1>3. D!TypeOK /\ k \in Nat
    BY CoreParameters DEF CoreInv, D!TypeOK
  <1>4. D!TypeOK'
    BY <1>1, <1>2, <1>3 DEF D!TypeOK
  <1>5. ASSUME NEW S \in SUBSET D!Vertices(data), D!IsCore(S)
        PROVE  S \subseteq remaining'
    <2>1. S \subseteq remaining
      BY <1>5 DEF CoreInv, D!ResultIsTheCore
    <2>2. ASSUME NEW v \in S PROVE v \notin D!ToRemove
      <3>1. D!Degree(v, S) >= k
        BY <1>5 DEF D!IsCore
      <3>2. /\ D!Degree(v, S) \in Nat /\ D!Degree(v, remaining) \in Nat
            /\ D!Degree(v, S) <= D!Degree(v, remaining)
        BY <1>3, <2>1, DegreeMonotone
      <3> QED
        BY <1>3, <3>1, <3>2 DEF D!ToRemove
    <2> QED
      BY <1>1, <2>1, <2>2
  <1>6. ASSUME ~changed' PROVE D!IsCore(remaining)'
    <2>1. D!ToRemove = {} /\ remaining' = remaining
      BY <1>1, <1>2, <1>6
    <2>2. ASSUME NEW v \in remaining PROVE D!Degree(v, remaining) >= k
      <3>1. D!Degree(v, remaining) \in Nat
        BY <1>3, DegreeMonotone
      <3> QED
        BY <1>3, <2>1, <3>1 DEF D!ToRemove
    <2> QED
      BY <1>1, <2>1, <2>2 DEF D!IsCore, D!Degree
  <1>7. D!ResultIsTheCore'
    <2>1. \A S \in SUBSET D!Vertices(data) : D!IsCore(S)' <=> D!IsCore(S)
      BY <1>1 DEF D!IsCore, D!Degree
    <2> QED
      BY <1>1, <1>5, <1>6, <2>1 DEF D!ResultIsTheCore
  <1>8. D!RoundsAreBounded'
    <2> DEFINE gone == D!Vertices(data) \ remaining
    <2>1. gone \subseteq gone' /\ IsFiniteSet(gone')
      BY <1>1, <1>3, VerticesFinite, FS_Subset
    <2>2. /\ Cardinality(gone) \in Nat /\ Cardinality(gone') \in Nat
          /\ Cardinality(gone) <= Cardinality(gone')
          /\ Cardinality(gone) = Cardinality(gone') => gone = gone'
      BY <2>1, FS_Subset, FS_CardinalityType
    <2>3. iterations <= Cardinality(gone) /\ iterations \in Nat
      BY <1>1, <2>2, CoreCardinality DEF CoreInv, D!TypeOK, D!RoundsAreBounded
    <2>4. changed' => gone # gone'
      BY <1>1, <1>2, <1>3 DEF D!TypeOK, D!ToRemove
    <2> HIDE DEF gone
    <2>5. iterations' <= Cardinality(gone') + (IF changed' THEN 0 ELSE 1)
      BY <1>1, <2>2, <2>3, <2>4
    <2> QED
      BY <2>5, CoreCardinality DEF D!RoundsAreBounded, gone
  <1> QED
    BY <1>4, <1>7, <1>8 DEF CoreInv

LEMMA CoreStutterInv == ASSUME CoreInv, UNCHANGED D!vars PROVE CoreInv'
PROOF
  <1>1. UNCHANGED <<data, k, remaining, changed, iterations>>
    BY DEF D!vars
  <1> QED
    BY <1>1 DEF CoreInv, D!TypeOK, D!ResultIsTheCore, D!RoundsAreBounded, D!IsCore, D!Degree

CoreRun == plugin = "k_core" => CoreInv

\* The invariant holds for every finite graph and every k.
THEOREM CoreInvariance == Spec => []CoreRun
PROOF
  <1>1. Init => CoreRun
    BY PluginBegins, CoreInitInv DEF CoreRun
  <1>2. CoreRun /\ [Next]_vars => CoreRun'
    BY PluginRuns, RoundInv, CoreStutterInv DEF CoreRun, D!Next
  <1> QED
    BY <1>1, <1>2, PTL DEF Spec

\* The result of k_core is the largest set of vertices that have k neighbours
\* in it.
THEOREM GreatestCore == Spec => []ResultIsTheCore
PROOF
  <1>1. CoreRun => ResultIsTheCore
    BY DEF CoreRun, CoreInv, ResultIsTheCore
  <1> QED
    BY <1>1, CoreInvariance, PTL

\* `while changed` needs no bound: it makes at most one round more than it
\* removes vertices.
THEOREM FewRounds == Spec => [](plugin = "k_core" => D!RoundsAreBounded)
PROOF
  <1>1. CoreRun => (plugin = "k_core" => D!RoundsAreBounded)
    BY DEF CoreRun, CoreInv
  <1> QED
    BY <1>1, CoreInvariance, PTL

-----------------------------------------------------------------------------
(* Queues.                                                                 *)

\* What is in a queue after its head was taken and s was put at its end.
LEMMA TakeAndPut ==
  ASSUME NEW S, NEW q \in Seq(S), q # <<>>, NEW s \in Seq(S)
  PROVE  /\ Tail(q) \o s \in Seq(S)
         /\ Len(q) \in Nat \ {0} /\ Len(s) \in Nat
         /\ Len(Tail(q) \o s) = (Len(q) - 1) + Len(s)
         /\ \A i \in 1 .. Len(q) - 1 : (Tail(q) \o s)[i] = q[i + 1]
         /\ \A i \in 1 .. Len(s) : (Tail(q) \o s)[(Len(q) - 1) + i] = s[i]
PROOF
  <1>1. Len(q) \in Nat \ {0} /\ Len(s) \in Nat
    BY EmptySeq, LenProperties
  <1>2. /\ Tail(q) \in Seq(S) /\ Len(Tail(q)) = Len(q) - 1
        /\ \A i \in 1 .. Len(Tail(q)) : Tail(q)[i] = q[i + 1]
    BY HeadTailProperties
  <1> DEFINE t == Tail(q)
             r == Tail(q) \o s
  <1>3. /\ t \o s \in Seq(S) /\ Len(t \o s) = Len(t) + Len(s)
        /\ \A i \in 1 .. Len(t) + Len(s) :
             (t \o s)[i] = IF i <= Len(t) THEN t[i] ELSE s[i - Len(t)]
    BY <1>2, ConcatProperties
  <1>4. r = t \o s
    OBVIOUS
  <1> HIDE DEF t, r
  <1>5. Len(t) = Len(q) - 1 /\ \A i \in 1 .. Len(t) : t[i] = q[i + 1]
    BY <1>2 DEF t
  <1>6. ASSUME NEW i \in 1 .. Len(q) - 1
        PROVE  r[i] = q[i + 1]
    BY <1>1, <1>3, <1>4, <1>5
  <1>7. ASSUME NEW i \in 1 .. Len(s)
        PROVE  r[(Len(q) - 1) + i] = s[i]
    <2>1. /\ (Len(q) - 1) + i \in 1 .. Len(t) + Len(s)
          /\ ~((Len(q) - 1) + i <= Len(t))
          /\ ((Len(q) - 1) + i) - Len(t) = i
      BY <1>1, <1>5
    <2> QED
      BY <1>3, <1>4, <2>1
  <1> QED
    BY <1>1, <1>3, <1>4, <1>5, <1>6, <1>7 DEF r

\* A sequence as long as a finite set and without repetitions has all of it.
LEMMA OrderHasAll ==
  ASSUME NEW S, IsFiniteSet(S), NEW s \in [1 .. Cardinality(S) -> S],
         \A i, j \in 1 .. Cardinality(S) : i # j => s[i] # s[j]
  PROVE  /\ s \in Seq(S) /\ Len(s) = Cardinality(S)
         /\ \A x \in S : \E i \in 1 .. Len(s) : s[i] = x
PROOF
  <1>1. Cardinality(S) \in Nat
    BY FS_CardinalityType
  <1>2. s \in Seq(S) /\ Len(s) = Cardinality(S)
    BY <1>1
  <1>3. s \in Injection(1 .. Cardinality(S), S)
    BY DEF Injection, IsInjective
  <1>4. Cardinality(1 .. Cardinality(S)) = Cardinality(S)
    BY <1>1, FS_Interval
  <1>5. s \in Surjection(1 .. Cardinality(S), S)
    BY <1>3, <1>4, FS_Injection
  <1> QED
    BY <1>2, <1>5 DEF Surjection

-----------------------------------------------------------------------------
(* bfs                                                                     *)

LayerReach(n) == Reach(Both(data), source, n)

Queued(v) == \E i \in DOMAIN queue : queue[i] = v

\* A distance is the number of edges of a shortest path.
LayersAreExact ==
  \A v \in B!Discovered :
    /\ v \in LayerReach(distances[v])
    /\ distances[v] > 0 => v \notin LayerReach(distances[v] - 1)

\* What has left the queue has handed on its neighbours.
LeftIsExpanded ==
  \A v \in B!Discovered : Queued(v) \/ B!Neighbors(data, v) \subseteq B!Discovered

\* When a layer begins to be expanded, all of it has been discovered.
HeadIsReached ==
  queue # <<>> => LayerReach(distances[Head(queue)]) \subseteq B!Discovered

\* The inductive invariant behind QueueIsLayered and DistancesAreShortest.
LayerInv ==
  /\ B!TypeOK
  /\ B!QueueIsLayered
  /\ LayersAreExact
  /\ LeftIsExpanded
  /\ HeadIsReached

LEMMA LayerNodes ==
  ASSUME B!TypeOK
  PROVE  /\ data \subseteq Nodes \X Nodes /\ IsFiniteSet(data) /\ source \in Nodes
         /\ B!Vertices(data) \subseteq Nodes /\ IsFiniteSet(B!Vertices(data))
         /\ B!Discovered \subseteq Nodes
PROOF
  <1>1. data \subseteq Nodes \X Nodes /\ IsFiniteSet(data) /\ source \in Nodes
    BY LayerParameters, FS_Subset DEF B!TypeOK
  <1>2. B!Vertices(data) \subseteq Nodes
    BY <1>1 DEF B!Vertices
  <1>3. [e \in data |-> e[1]] \in Surjection(data, {e[1] : e \in data})
    BY DEF Surjection
  <1>4. [e \in data |-> e[2]] \in Surjection(data, {e[2] : e \in data})
    BY DEF Surjection
  <1>5. IsFiniteSet({e[1] : e \in data}) /\ IsFiniteSet({e[2] : e \in data})
    BY <1>1, <1>3, <1>4, FS_Surjection
  <1>6. IsFiniteSet(B!Vertices(data))
    BY <1>5, FS_Union DEF B!Vertices
  <1> QED
    BY <1>1, <1>2, <1>6 DEF B!TypeOK

\* What B calls the vertices within n hops is what n edges reach.
LEMMA LayerNeighbors ==
  ASSUME data \subseteq Nodes \X Nodes, NEW w
  PROVE  /\ Out(Both(data), w) = B!Neighbors(data, w)
         /\ B!Neighbors(data, w) \subseteq B!Vertices(data)
PROOF
  <1>1. B!Neighbors(data, w) = C!Neighbors(data, w) /\ B!Vertices(data) = C!Vertices(data)
    BY Zenon DEF B!Neighbors, C!Neighbors, B!Vertices, C!Vertices
  <1> QED
    BY <1>1, NeighborsAreOut

LEMMA LayerWithin ==
  ASSUME B!TypeOK, NEW n \in Nat
  PROVE  B!Within(n) = LayerReach(n)
PROOF
  <1>1. B!Within(n) = C!Within(source, n)
    BY Zenon DEF B!Within, C!Within, B!Neighbors, C!Neighbors, B!Vertices, C!Vertices
  <1> QED
    BY <1>1, LayerNodes, ComponentsWithin DEF LayerReach

LEMMA LayerInitInv == B!Init => LayerInv
PROOF
  <1> SUFFICES ASSUME B!Init PROVE LayerInv
    OBVIOUS
  <1>1. /\ source \in Sources /\ data \subseteq EdgesOf["bfs"]
        /\ B!Discovered = {source} /\ distances = [v \in {source} |-> 0]
        /\ queue = <<source>>
    BY DEF B!Init, B!Discovered
  <1>2. B!TypeOK
    <2>1. distances \in [{source} -> Nat] /\ queue \in Seq({source})
      BY <1>1
    <2> QED
      BY <1>1, <2>1 DEF B!TypeOK
  <1>3. LayerReach(0) = {source}
    BY <1>2, LayerNodes, ReachZero DEF LayerReach
  <1>4. DOMAIN queue = {1} /\ queue[1] = source /\ Head(queue) = source
        /\ distances[source] = 0
    BY <1>1
  <1>5. B!QueueIsLayered
    BY <1>1, <1>4 DEF B!QueueIsLayered
  <1>6. LayersAreExact
    BY <1>1, <1>3, <1>4 DEF LayersAreExact
  <1>7. LeftIsExpanded
    BY <1>1, <1>4 DEF LeftIsExpanded, Queued
  <1>8. HeadIsReached
    BY <1>1, <1>3, <1>4 DEF HeadIsReached
  <1> QED
    BY <1>2, <1>5, <1>6, <1>7, <1>8 DEF LayerInv

\* The vertices an expansion discovers.
News == B!Neighbors(data, queue[1]) \ B!Discovered

\* What one expansion does.
LEMMA ExpandEffect ==
  ASSUME B!TypeOK, B!Expand
  PROVE  /\ queue[1] \in B!Discovered /\ distances[queue[1]] \in Nat
         /\ Len(queue) \in Nat \ {0} /\ DOMAIN queue = 1 .. Len(queue)
         /\ B!Discovered' = B!Discovered \cup News
         /\ \A v \in B!Discovered : distances'[v] = distances[v]
         /\ \A v \in News : distances'[v] = distances[queue[1]] + 1
         /\ \E m \in Nat :
              /\ DOMAIN queue' = 1 .. (Len(queue) - 1) + m
              /\ \A i \in 1 .. Len(queue) - 1 : queue'[i] = queue[i + 1]
              /\ \A i \in 1 .. m : queue'[(Len(queue) - 1) + i] \in News
              /\ \A i, j \in 1 .. m : i # j =>
                   queue'[(Len(queue) - 1) + i] # queue'[(Len(queue) - 1) + j]
              /\ \A v \in News : \E i \in 1 .. m : queue'[(Len(queue) - 1) + i] = v
         /\ UNCHANGED <<data, source>>
         /\ B!TypeOK'
PROOF
  <1>1. /\ queue \in Seq(B!Discovered) /\ queue # <<>>
        /\ distances \in [B!Discovered -> Nat]
        /\ UNCHANGED <<data, source>>
    BY DEF B!TypeOK, B!Expand
  <1>2. /\ Len(queue) \in Nat \ {0} /\ DOMAIN queue = 1 .. Len(queue)
        /\ Head(queue) = queue[1] /\ queue[1] \in B!Discovered
    BY <1>1
  <1>3. distances[queue[1]] \in Nat
    BY <1>1, <1>2
  <1>4. distances' = [v \in B!Discovered \cup News |->
                        IF v \in News THEN distances[queue[1]] + 1 ELSE distances[v]]
    BY <1>2 DEF B!Expand, B!Extended, News
  <1>5. B!Discovered' = B!Discovered \cup News
    BY <1>4 DEF B!Discovered
  <1>6. News \cap B!Discovered = {} /\ News \subseteq B!Vertices(data)
    BY LayerNodes, LayerNeighbors DEF News
  <1>7. IsFiniteSet(News)
    BY <1>6, LayerNodes, FS_Subset
  <1>8. PICK s \in B!Fresh(queue[1]) : queue' = Tail(queue) \o s
    BY <1>2 DEF B!Expand
  <1>9. /\ s \in [1 .. Cardinality(News) -> News]
        /\ \A i, j \in 1 .. Cardinality(News) : i # j => s[i] # s[j]
    BY <1>8, Zenon DEF B!Fresh, B!Orders, B!Bijection, B!Injection, B!IsInjective,
           B!Cardinality, Cardinality, News
  <1>10. /\ s \in Seq(News) /\ Len(s) = Cardinality(News)
         /\ \A x \in News : \E i \in 1 .. Len(s) : s[i] = x
    BY <1>7, <1>9, OrderHasAll, Zenon
  <1> DEFINE U == B!Discovered \cup News
  <1>11. /\ queue' \in Seq(U)
         /\ Len(s) \in Nat
         /\ Len(queue') = (Len(queue) - 1) + Len(s)
         /\ \A i \in 1 .. Len(queue) - 1 : queue'[i] = queue[i + 1]
         /\ \A i \in 1 .. Len(s) : queue'[(Len(queue) - 1) + i] = s[i]
    <2>1. queue \in Seq(U) /\ s \in Seq(U)
      BY <1>1, <1>10
    <2> HIDE DEF U
    <2>2. /\ Tail(queue) \o s \in Seq(U) /\ Len(s) \in Nat
          /\ Len(Tail(queue) \o s) = (Len(queue) - 1) + Len(s)
          /\ \A i \in 1 .. Len(queue) - 1 : (Tail(queue) \o s)[i] = queue[i + 1]
          /\ \A i \in 1 .. Len(s) : (Tail(queue) \o s)[(Len(queue) - 1) + i] = s[i]
      BY <1>1, <2>1, TakeAndPut
    <2> QED
      BY <1>8, <2>2, Zenon
  <1> HIDE DEF U
  <1>12. DOMAIN queue' = 1 .. (Len(queue) - 1) + Len(s)
    BY <1>11
  <1>13. \A i \in 1 .. Len(s) : s[i] \in News
    BY <1>9, <1>10
  <1>14. B!TypeOK'
    <2>1. distances' \in [U -> Nat]
      BY <1>1, <1>3, <1>4 DEF U
    <2>2. U \subseteq B!Vertices(data) \cup {source}
      BY <1>6 DEF U, B!TypeOK
    <2> QED
      BY <1>1, <1>5, <1>11, <2>1, <2>2 DEF B!TypeOK, U
  <1>15. /\ \A v \in B!Discovered : distances'[v] = distances[v]
         /\ \A v \in News : distances'[v] = distances[queue[1]] + 1
    BY <1>4, <1>6
  <1>16. /\ \A i \in 1 .. Len(s) : queue'[(Len(queue) - 1) + i] \in News
         /\ \A i, j \in 1 .. Len(s) : i # j =>
              queue'[(Len(queue) - 1) + i] # queue'[(Len(queue) - 1) + j]
         /\ \A v \in News : \E i \in 1 .. Len(s) : queue'[(Len(queue) - 1) + i] = v
    <2>1. \A i, j \in 1 .. Len(s) : i # j => s[i] # s[j]
      BY <1>9, <1>10
    <2>2. \A i \in 1 .. Len(s) : queue'[(Len(queue) - 1) + i] = s[i]
      BY <1>11
    <2>3. \A i \in 1 .. Len(s) : queue'[(Len(queue) - 1) + i] \in News
      BY <1>13, <2>2, Zenon
    <2>4. \A i, j \in 1 .. Len(s) : i # j =>
            queue'[(Len(queue) - 1) + i] # queue'[(Len(queue) - 1) + j]
      <3> SUFFICES ASSUME NEW i \in 1 .. Len(s), NEW j \in 1 .. Len(s), i # j
                   PROVE  queue'[(Len(queue) - 1) + i] # queue'[(Len(queue) - 1) + j]
        OBVIOUS
      <3>1. queue'[(Len(queue) - 1) + i] = s[i] /\ queue'[(Len(queue) - 1) + j] = s[j]
        BY <2>2
      <3>2. s[i] # s[j]
        BY <2>1
      <3> QED
        BY <3>1, <3>2, Zenon
    <2>5. \A v \in News : \E i \in 1 .. Len(s) : queue'[(Len(queue) - 1) + i] = v
      BY <1>10, <2>2, Zenon
    <2> QED
      BY <2>3, <2>4, <2>5, Zenon
  <1> QED
    BY <1>1, <1>2, <1>3, <1>5, <1>11, <1>12, <1>14, <1>15, <1>16

LEMMA ExpandLayered ==
  ASSUME B!TypeOK, B!QueueIsLayered, B!Expand
  PROVE  B!QueueIsLayered'
PROOF
  <1> DEFINE node == queue[1]
             d == distances[node]
             l == Len(queue)
  <1>1. /\ node \in B!Discovered /\ d \in Nat /\ l \in Nat \ {0} /\ DOMAIN queue = 1 .. l
        /\ B!Discovered' = B!Discovered \cup News
        /\ \A v \in B!Discovered : distances'[v] = distances[v]
        /\ \A v \in News : distances'[v] = d + 1
    BY ExpandEffect
  <1>2. PICK m \in Nat :
          /\ DOMAIN queue' = 1 .. (l - 1) + m
          /\ \A i \in 1 .. l - 1 : queue'[i] = queue[i + 1]
          /\ \A i \in 1 .. m : queue'[(l - 1) + i] \in News
          /\ \A i, j \in 1 .. m : i # j => queue'[(l - 1) + i] # queue'[(l - 1) + j]
          /\ \A v \in News : \E i \in 1 .. m : queue'[(l - 1) + i] = v
    BY ExpandEffect
  <1>3. /\ \A i \in 1 .. l : queue[i] \in B!Discovered
        /\ \A v \in B!Discovered : distances[v] \in Nat
    BY DEF B!TypeOK
  <1>4. \A v \in News : v \notin B!Discovered
    BY DEF News
  <1>5. \A i, j \in 1 .. l :
          i < j => /\ queue[i] # queue[j]
                   /\ distances[queue[i]] <= distances[queue[j]]
                   /\ distances[queue[j]] <= distances[queue[i]] + 1
    BY <1>1 DEF B!QueueIsLayered
  <1>6. \A i \in 1 .. l : d <= distances[queue[i]] /\ distances[queue[i]] <= d + 1
    <2> SUFFICES ASSUME NEW i \in 1 .. l
                 PROVE  d <= distances[queue[i]] /\ distances[queue[i]] <= d + 1
      OBVIOUS
    <2>1. CASE i = 1
      BY <1>1, <2>1
    <2>2. CASE i # 1
      <3>1. 1 \in 1 .. l /\ 1 < i
        BY <1>1, <2>2
      <3> QED
        BY <1>5, <3>1
    <2> QED
      BY <2>1, <2>2
  <1> HIDE DEF d, l, node
  \* The places of the new queue: an old one moved up, or a new vertex.
  <1>7. ASSUME NEW i \in DOMAIN queue'
        PROVE  \/ /\ i \in 1 .. l - 1 /\ i + 1 \in 1 .. l /\ i + 1 # 1
                  /\ queue'[i] = queue[i + 1]
                  /\ distances'[queue'[i]] = distances[queue[i + 1]]
               \/ /\ i - (l - 1) \in 1 .. m /\ i = (l - 1) + (i - (l - 1))
                  /\ queue'[i] \in News
                  /\ distances'[queue'[i]] = d + 1
    <2>1. CASE i \in 1 .. l - 1
      <3>1. i + 1 \in 1 .. l /\ i + 1 # 1 /\ queue'[i] = queue[i + 1]
        BY <1>1, <1>2, <2>1
      <3> QED
        BY <1>1, <1>3, <2>1, <3>1
    <2>2. CASE i \notin 1 .. l - 1
      <3>1. i - (l - 1) \in 1 .. m /\ i = (l - 1) + (i - (l - 1))
        BY <1>1, <1>2, <2>2
      <3>2. queue'[i] \in News
        BY <1>2, <3>1
      <3> QED
        BY <1>1, <3>1, <3>2
    <2> QED
      BY <2>1, <2>2
  <1>8. ASSUME NEW i \in DOMAIN queue', NEW j \in DOMAIN queue', i < j
        PROVE  /\ queue'[i] # queue'[j]
               /\ distances'[queue'[i]] <= distances'[queue'[j]]
               /\ distances'[queue'[j]] <= distances'[queue'[i]] + 1
    <2>1. CASE i \in 1 .. l - 1 /\ j \in 1 .. l - 1
      <3>1. i + 1 \in 1 .. l /\ j + 1 \in 1 .. l /\ i + 1 < j + 1
        BY <1>1, <1>8, <2>1
      <3>2. /\ queue'[i] = queue[i + 1] /\ queue'[j] = queue[j + 1]
            /\ distances'[queue'[i]] = distances[queue[i + 1]]
            /\ distances'[queue'[j]] = distances[queue[j + 1]]
        BY <1>1, <1>2, <1>3, <2>1, <3>1
      <3> QED
        BY <1>5, <3>1, <3>2
    <2>2. CASE i \in 1 .. l - 1 /\ j \notin 1 .. l - 1
      <3>1. i + 1 \in 1 .. l /\ queue'[i] = queue[i + 1]
            /\ distances'[queue'[i]] = distances[queue[i + 1]]
        BY <1>1, <1>2, <1>3, <2>2
      <3>2. queue'[j] \in News /\ distances'[queue'[j]] = d + 1
        BY <1>7, <2>2
      <3>3. queue[i + 1] \in B!Discovered /\ distances[queue[i + 1]] \in Nat
        BY <1>3, <3>1
      <3> QED
        BY <1>1, <1>4, <1>6, <3>1, <3>2, <3>3
    <2>3. CASE i \notin 1 .. l - 1 /\ j \notin 1 .. l - 1
      <3>1. /\ i - (l - 1) \in 1 .. m /\ i = (l - 1) + (i - (l - 1))
            /\ j - (l - 1) \in 1 .. m /\ j = (l - 1) + (j - (l - 1))
            /\ distances'[queue'[i]] = d + 1 /\ distances'[queue'[j]] = d + 1
        BY <1>7, <2>3
      <3>2. i - (l - 1) # j - (l - 1)
        BY <1>1, <1>8, <1>2
      <3>3. queue'[(l - 1) + (i - (l - 1))] # queue'[(l - 1) + (j - (l - 1))]
        BY <1>2, <3>1, <3>2
      <3> QED
        BY <1>1, <3>1, <3>3
    <2>4. ~(i \notin 1 .. l - 1 /\ j \in 1 .. l - 1)
      BY <1>1, <1>2, <1>8
    <2> QED
      BY <2>1, <2>2, <2>3, <2>4
  <1>9. ASSUME NEW v \in B!Discovered', NEW i \in DOMAIN queue',
               \A j \in DOMAIN queue' : queue'[j] # v
        PROVE  distances'[v] <= distances'[queue'[i]]
    <2>1. d <= distances'[queue'[i]]
      <3>1. i + 1 \in 1 .. l => d <= distances[queue[i + 1]]
        BY <1>6
      <3> QED
        BY <1>1, <1>7, <3>1
    <2>2. v \notin News
      <3> SUFFICES ASSUME v \in News PROVE FALSE
        OBVIOUS
      <3>1. PICK j \in 1 .. m : queue'[(l - 1) + j] = v
        BY <1>2
      <3>2. (l - 1) + j \in DOMAIN queue'
        BY <1>1, <1>2
      <3> QED
        BY <1>9, <3>1, <3>2
    <2>3. v \in B!Discovered /\ distances'[v] = distances[v] /\ distances[v] \in Nat
      BY <1>1, <1>3, <2>2
    <2>4. CASE v = node
      BY <2>1, <2>3, <2>4 DEF d
    <2>5. CASE v # node
      <3>1. \A j \in 1 .. l : queue[j] # v
        <4> SUFFICES ASSUME NEW j \in 1 .. l, queue[j] = v PROVE FALSE
          OBVIOUS
        <4>1. j # 1
          BY <2>5 DEF node
        <4>2. j - 1 \in 1 .. l - 1 /\ (j - 1) + 1 = j /\ j - 1 \in 1 .. (l - 1) + m
          BY <1>1, <4>1
        <4>3. queue'[j - 1] = v
          BY <1>2, <4>2
        <4> QED
          BY <1>2, <1>9, <4>2, <4>3
      <3>2. 1 \in DOMAIN queue
        BY <1>1
      <3>3. distances[v] <= distances[queue[1]]
        BY <1>1, <2>3, <3>1, <3>2 DEF B!QueueIsLayered
      <3>4. distances'[queue'[i]] \in Nat
        <4>1. i + 1 \in 1 .. l => distances[queue[i + 1]] \in Nat
          BY <1>3
        <4> QED
          BY <1>1, <1>7, <4>1
      <3> QED
        BY <1>1, <2>1, <2>3, <3>3, <3>4 DEF d, node
    <2> QED
      BY <2>4, <2>5
  <1> QED
    BY <1>8, <1>9 DEF B!QueueIsLayered

\* Layers and the other parts of the invariant through one expansion.
LEMMA ExpandInv ==
  ASSUME LayerInv, B!Expand
  PROVE  LayerInv'
PROOF
  <1> DEFINE node == queue[1]
             d == distances[node]
             l == Len(queue)
  <1>1. /\ node \in B!Discovered /\ d \in Nat /\ l \in Nat \ {0} /\ DOMAIN queue = 1 .. l
        /\ B!Discovered' = B!Discovered \cup News
        /\ \A v \in B!Discovered : distances'[v] = distances[v]
        /\ \A v \in News : distances'[v] = d + 1
        /\ UNCHANGED <<data, source>>
        /\ B!TypeOK /\ B!TypeOK'
    BY ExpandEffect DEF LayerInv
  <1>2. PICK m \in Nat :
          /\ DOMAIN queue' = 1 .. (l - 1) + m
          /\ \A i \in 1 .. l - 1 : queue'[i] = queue[i + 1]
          /\ \A i \in 1 .. m : queue'[(l - 1) + i] \in News
          /\ \A v \in News : \E i \in 1 .. m : queue'[(l - 1) + i] = v
    BY ExpandEffect DEF LayerInv
  <1>3. /\ \A i \in 1 .. l : queue[i] \in B!Discovered
        /\ \A v \in B!Discovered : distances[v] \in Nat
        /\ Head(queue) = node /\ queue # <<>>
    BY <1>1 DEF B!TypeOK, B!Expand
  <1>4. /\ \A n : LayerReach(n)' = LayerReach(n)
        /\ \A n \in Nat : /\ LayerReach(n) \subseteq Nodes
                          /\ \A x : x \in LayerReach(n + 1) <=>
                               \/ x \in LayerReach(n)
                               \/ \E w \in LayerReach(n) : x \in B!Neighbors(data, w)
    <2>1. \A n : LayerReach(n)' = LayerReach(n)
      BY <1>1 DEF LayerReach
    <2>2. source \in Nodes /\ data \subseteq Nodes \X Nodes
      BY <1>1, LayerNodes
    <2>3. ASSUME NEW n \in Nat
          PROVE  /\ LayerReach(n) \subseteq Nodes
                 /\ \A x : x \in LayerReach(n + 1) <=>
                      \/ x \in LayerReach(n)
                      \/ \E w \in LayerReach(n) : x \in B!Neighbors(data, w)
      <3>1. Reach(Both(data), source, n) \subseteq Nodes
        BY <2>2, ReachNodes
      <3>2. \A x : x \in Reach(Both(data), source, n + 1) <=>
                   \/ x \in Reach(Both(data), source, n)
                   \/ \E w \in Reach(Both(data), source, n) : x \in Out(Both(data), w)
        BY <2>2, ReachNext, Zenon
      <3>3. \A w : Out(Both(data), w) = B!Neighbors(data, w)
        BY <2>2, LayerNeighbors
      <3> QED
        BY <3>1, <3>2, <3>3 DEF LayerReach
    <2> QED
      BY <2>1, <2>3
  <1>5. \A n, p \in Nat : n <= p => LayerReach(n) \subseteq LayerReach(p)
    <2> SUFFICES ASSUME NEW n \in Nat, NEW p \in Nat, n <= p
                 PROVE  LayerReach(n) \subseteq LayerReach(p)
      OBVIOUS
    <2>1. source \in Nodes
      BY <1>1, LayerNodes
    <2> QED
      BY <2>1, ReachMonotone DEF LayerReach
  <1>6. \A i \in 1 .. l : d <= distances[queue[i]] /\ distances[queue[i]] <= d + 1
    <2> SUFFICES ASSUME NEW i \in 1 .. l
                 PROVE  d <= distances[queue[i]] /\ distances[queue[i]] <= d + 1
      OBVIOUS
    <2>1. CASE i = 1
      BY <1>1, <2>1
    <2>2. CASE i # 1
      <3>1. 1 \in DOMAIN queue /\ i \in DOMAIN queue /\ 1 < i
        BY <1>1, <2>2
      <3> QED
        BY <3>1 DEF LayerInv, B!QueueIsLayered
    <2> QED
      BY <2>1, <2>2
  <1>7. /\ News = B!Neighbors(data, node) \ B!Discovered
        /\ LayerReach(d) \subseteq B!Discovered
    BY <1>3 DEF LayerInv, HeadIsReached, News
  <1>8. \A v \in B!Discovered :
          /\ v \in LayerReach(distances[v])
          /\ distances[v] > 0 => v \notin LayerReach(distances[v] - 1)
    BY DEF LayerInv, LayersAreExact
  <1> HIDE DEF d, l, node
  <1>9. B!QueueIsLayered'
    BY ExpandLayered DEF LayerInv
  <1>10. LayersAreExact'
    <2> SUFFICES ASSUME NEW v \in B!Discovered'
                 PROVE  /\ v \in LayerReach(distances'[v])
                        /\ distances'[v] > 0 => v \notin LayerReach(distances'[v] - 1)
      BY <1>4 DEF LayersAreExact
    <2>1. CASE v \in B!Discovered
      BY <1>1, <1>8, <2>1
    <2>2. CASE v \in News
      <3>1. node \in LayerReach(d)
        BY <1>1, <1>8 DEF d
      <3>2. v \in LayerReach(d + 1)
        BY <1>1, <1>4, <1>7, <2>2, <3>1
      <3>3. v \notin LayerReach(d)
        BY <1>7, <2>2
      <3>4. distances'[v] = d + 1 /\ (d + 1) - 1 = d
        BY <1>1, <2>2
      <3> QED
        BY <3>2, <3>3, <3>4
    <2> QED
      BY <1>1, <2>1, <2>2
  \* What the step leaves out of the queue.
  <1>11. ASSUME NEW v \in B!Discovered', ~Queued(v)'
         PROVE  /\ v \in B!Discovered
                /\ B!Neighbors(data, v) \subseteq B!Discovered'
    <2>1. \A i \in DOMAIN queue' : queue'[i] # v
      BY <1>11 DEF Queued
    <2>2. v \notin News
      <3> SUFFICES ASSUME v \in News PROVE FALSE
        OBVIOUS
      <3>1. PICK j \in 1 .. m : queue'[(l - 1) + j] = v
        BY <1>2
      <3>2. (l - 1) + j \in DOMAIN queue'
        BY <1>1, <1>2
      <3> QED
        BY <2>1, <3>1, <3>2
    <2>3. v \in B!Discovered
      BY <1>1, <2>2
    <2>4. CASE v = node
      BY <1>1, <1>7, <2>4
    <2>5. CASE v # node
      <3>1. ~Queued(v)
        <4> SUFFICES ASSUME NEW j \in 1 .. l, queue[j] = v PROVE FALSE
          BY <1>1 DEF Queued
        <4>1. j # 1
          BY <2>5 DEF node
        <4>2. j - 1 \in 1 .. l - 1 /\ (j - 1) + 1 = j /\ j - 1 \in 1 .. (l - 1) + m
          BY <1>1, <4>1
        <4> QED
          BY <1>2, <2>1, <4>2
      <3> QED
        BY <1>1, <2>3, <3>1 DEF LayerInv, LeftIsExpanded
    <2> QED
      BY <2>3, <2>4, <2>5
  <1>12. LeftIsExpanded'
    <2>1. ASSUME NEW v \in B!Discovered', ~Queued(v)'
          PROVE  (B!Neighbors(data, v) \subseteq B!Discovered)'
      <3>1. B!Neighbors(data, v) \subseteq B!Discovered'
        BY <1>11, <2>1
      <3> QED
        BY <1>1, <3>1
    <2> QED
      BY <2>1 DEF LeftIsExpanded
  <1>13. HeadIsReached'
    <2> SUFFICES ASSUME queue' # <<>>
                 PROVE  LayerReach(distances'[Head(queue')]) \subseteq B!Discovered'
      BY <1>4 DEF HeadIsReached
    <2> DEFINE head == queue'[1]
    <2>1. /\ 1 \in DOMAIN queue' /\ Head(queue') = head
          /\ head \in B!Discovered' /\ distances'[head] \in Nat
      BY <1>1 DEF B!TypeOK
    <2>2. distances'[head] \in {d, d + 1}
      <3>1. CASE 1 \in 1 .. l - 1
        <4>1. head = queue[2] /\ 2 \in 1 .. l
          BY <1>1, <1>2, <3>1
        <4>2. distances'[head] = distances[queue[2]]
          BY <1>1, <1>3, <4>1
        <4>3. d <= distances[queue[2]] /\ distances[queue[2]] <= d + 1
          BY <1>6, <4>1
        <4> QED
          BY <1>1, <2>1, <4>2, <4>3
      <3>2. CASE 1 \notin 1 .. l - 1
        <4>1. l - 1 = 0 /\ 1 \in 1 .. m
          BY <1>1, <1>2, <2>1, <3>2
        <4>2. head \in News
          BY <1>2, <4>1
        <4> QED
          BY <1>1, <4>2
      <3> QED
        BY <3>1, <3>2
    <2>3. CASE distances'[head] = d
      BY <1>1, <1>7, <2>1, <2>3
    <2>4. CASE distances'[head] = d + 1
      <3> SUFFICES ASSUME NEW x \in LayerReach(d + 1)
                   PROVE  x \in B!Discovered'
        BY <2>1, <2>4
      <3>1. CASE x \in LayerReach(d)
        BY <1>1, <1>7, <3>1
      <3>2. CASE \E w \in LayerReach(d) : x \in B!Neighbors(data, w)
        <4>1. PICK w \in LayerReach(d) : x \in B!Neighbors(data, w)
          BY <3>2
        <4>2. w \in B!Discovered /\ distances[w] \in Nat /\ distances'[w] = distances[w]
          BY <1>1, <1>3, <1>7
        <4>3. distances[w] <= d
          <5> SUFFICES ASSUME distances[w] > d PROVE FALSE
            BY <1>1, <4>2
          <5>1. distances[w] - 1 \in Nat /\ d <= distances[w] - 1 /\ distances[w] > 0
            BY <1>1, <4>2
          <5>2. w \in LayerReach(distances[w] - 1)
            BY <1>1, <1>5, <5>1
          <5> QED
            BY <1>8, <4>2, <5>1, <5>2
        <4>4. ~Queued(w)'
          <5> SUFFICES ASSUME NEW i \in DOMAIN queue', queue'[i] = w PROVE FALSE
            BY DEF Queued
          <5>1. distances'[head] <= distances'[queue'[i]]
            <6>1. CASE i = 1
              BY <2>1, <6>1
            <6>2. CASE i # 1
              <7>1. 1 < i
                BY <1>1, <1>2, <6>2
              <7> QED
                BY <1>9, <2>1, <7>1 DEF B!QueueIsLayered
            <6> QED
              BY <6>1, <6>2
          <5> QED
            BY <1>1, <2>4, <4>2, <4>3, <5>1
        <4> QED
          BY <1>1, <1>11, <4>1, <4>2, <4>4
      <3> QED
        BY <1>1, <1>4, <3>1, <3>2
    <2> QED
      BY <2>2, <2>3, <2>4
  <1> QED
    BY <1>1, <1>9, <1>10, <1>12, <1>13 DEF LayerInv

LayerRun == plugin = "bfs" => LayerInv

\* The invariant holds for every finite graph and every source.
THEOREM LayerInvariance == Spec => []LayerRun
PROOF
  <1>1. Init => LayerRun
    BY PluginBegins, LayerInitInv DEF LayerRun
  <1>2. LayerRun /\ [Next]_vars => LayerRun'
    <2> SUFFICES ASSUME LayerInv, [B!Next]_(B!vars)
                 PROVE  LayerInv'
      BY PluginRuns DEF LayerRun
    <2>1. CASE UNCHANGED B!vars
      <3>1. UNCHANGED <<data, source, distances, queue>>
        BY <2>1 DEF B!vars
      <3>2. B!TypeOK' /\ B!QueueIsLayered'
        BY <3>1 DEF LayerInv, B!TypeOK, B!QueueIsLayered, B!Discovered
      <3>3. LayersAreExact' /\ LeftIsExpanded' /\ HeadIsReached'
        BY <3>1 DEF LayerInv, LayersAreExact, LeftIsExpanded, HeadIsReached, Queued,
             LayerReach, B!Discovered
      <3> QED
        BY <3>2, <3>3 DEF LayerInv
    <2>2. CASE B!Next
      BY <2>2, ExpandInv DEF B!Next
    <2> QED
      BY <2>1, <2>2
  <1> QED
    BY <1>1, <1>2, PTL DEF Spec

\* The queue of bfs spans two layers.
THEOREM QueueHasTwoLayers == Spec => []QueueIsLayered
PROOF
  <1>1. LayerRun => QueueIsLayered
    BY DEF LayerRun, LayerInv, QueueIsLayered
  <1> QED
    BY <1>1, LayerInvariance, PTL

\* bfs enters shortest distances only, and at the end all of them.
THEOREM FirstDistanceIsLeast == Spec => []DistancesAreShortest
PROOF
  <1>1. LayerRun => DistancesAreShortest
    <2> SUFFICES ASSUME LayerInv PROVE B!DistancesAreShortest
      BY DEF LayerRun, DistancesAreShortest
    <2>1. B!TypeOK /\ LayersAreExact /\ LeftIsExpanded
      BY DEF LayerInv
    <2>2. ASSUME NEW v \in B!Discovered
          PROVE  /\ v \in B!Within(distances[v])
                 /\ distances[v] > 0 => v \notin B!Within(distances[v] - 1)
      <3>1. distances[v] \in Nat /\ (distances[v] > 0 => distances[v] - 1 \in Nat)
        BY <2>1 DEF B!TypeOK
      <3>2. /\ v \in LayerReach(distances[v])
            /\ distances[v] > 0 => v \notin LayerReach(distances[v] - 1)
        BY <2>1 DEF LayersAreExact
      <3>3. B!Within(distances[v]) = LayerReach(distances[v])
        BY <2>1, <3>1, LayerWithin
      <3>4. distances[v] > 0 => B!Within(distances[v] - 1) = LayerReach(distances[v] - 1)
        BY <2>1, <3>1, LayerWithin
      <3> QED
        BY <3>2, <3>3, <3>4
    <2>3. B!Finished => \A v \in B!Discovered : B!Neighbors(data, v) \subseteq B!Discovered
      <3> SUFFICES ASSUME B!Finished, NEW v \in B!Discovered
                   PROVE  B!Neighbors(data, v) \subseteq B!Discovered
        OBVIOUS
      <3>1. ~Queued(v)
        BY DEF B!Finished, Queued
      <3> QED
        BY <2>1, <3>1 DEF LeftIsExpanded
    <2> QED
      BY <2>2, <2>3, Zenon DEF B!DistancesAreShortest
  <1> QED
    BY <1>1, LayerInvariance, PTL

-----------------------------------------------------------------------------
(* k_hop                                                                   *)

HopReach(n) == Reach(data, sources[turn], n)

Waiting(v, n) == \E i \in DOMAIN queue : queue[i] = <<v, n>>

\* The queue spans two depths, and its vertices are reached at theirs.
WaitingInOrder ==
  /\ \A i, j \in DOMAIN queue :
       i < j => queue[i][2] <= queue[j][2] /\ queue[j][2] <= queue[i][2] + 1
  /\ \A i \in DOMAIN queue : queue[i][1] \in HopReach(queue[i][2])

\* While depth n is expanded, what n edges reach is seen; what else is seen
\* waits at the next depth, and what is not expanded yet waits at this one.
DepthIsComplete(n) ==
  /\ HopReach(n) \subseteq seen
  /\ \A v \in seen : v \in HopReach(n) \/ Waiting(v, n + 1)
  /\ n < hops => \A v \in HopReach(n) : K!Adjacent(v) \subseteq seen \/ Waiting(v, n)

\* The search of the source whose turn it is.
SearchInv ==
  /\ sources[turn] \in seen
  /\ seen \subseteq HopReach(hops)
  /\ WaitingInOrder
  /\ queue # <<>> => DepthIsComplete(queue[1][2])
  /\ queue = <<>> => HopReach(hops) \subseteq seen

\* The searches that are over.
EntriesAreExact ==
  /\ DOMAIN neighborhoods = {sources[i] : i \in 1 .. turn - 1}
  /\ \A v \in DOMAIN neighborhoods : neighborhoods[v] = Reach(data, v, hops) \ {v}

\* The inductive invariant behind NeighborhoodsAreExact.
SearchesInv ==
  /\ K!TypeOK
  /\ IF turn <= Len(sources) THEN SearchInv ELSE queue = <<>>
  /\ EntriesAreExact

LEMMA HopNodes ==
  ASSUME K!TypeOK
  PROVE  /\ data \subseteq Nodes \X Nodes /\ IsFiniteSet(data)
         /\ sources \in Seq(Nodes) /\ hops \in Nat /\ turn \in Nat /\ Len(sources) \in Nat
         /\ turn <= Len(sources) => sources[turn] \in Nodes
         /\ \A w : /\ Out(data, w) = K!Adjacent(w) /\ K!Adjacent(w) \subseteq Nodes
                   /\ IsFiniteSet(K!Adjacent(w))
PROOF
  <1>1. data \subseteq Nodes \X Nodes /\ IsFiniteSet(data) /\ sources \in Seq(Nodes)
    BY HopParameters, FS_Subset DEF K!TypeOK
  <1>2. /\ hops \in Nat /\ turn \in Nat /\ Len(sources) \in Nat
        /\ turn <= Len(sources) => sources[turn] \in Nodes
    BY <1>1, HopParameters DEF K!TypeOK
  <1>3. IsFiniteSet({e[2] : e \in data})
    <2>1. [e \in data |-> e[2]] \in Surjection(data, {e[2] : e \in data})
      BY DEF Surjection
    <2> QED
      BY <1>1, <2>1, FS_Surjection
  <1>4. ASSUME NEW w
        PROVE  /\ Out(data, w) = K!Adjacent(w) /\ K!Adjacent(w) \subseteq Nodes
               /\ IsFiniteSet(K!Adjacent(w))
    <2>1. Out(data, w) = K!Adjacent(w) /\ K!Adjacent(w) \subseteq Nodes
      BY DEF Out, K!Adjacent
    <2>2. K!Adjacent(w) \subseteq {e[2] : e \in data}
      BY DEF K!Adjacent
    <2> QED
      BY <1>3, <2>1, <2>2, FS_Subset
  <1> QED
    BY <1>1, <1>2, <1>4

\* What K calls the vertices within n edges is what n edges reach.
LEMMA HopWithin ==
  ASSUME K!TypeOK, NEW v \in Nodes, NEW n \in Nat
  PROVE  K!Within(v, n) = Reach(data, v, n)
BY Zenon DEF K!Within, K!Adjacent, Reach, Reached, Out

\* A search begins with its source alone.
SearchIsNew ==
  /\ K!TypeOK /\ turn <= Len(sources)
  /\ seen = {sources[turn]} /\ queue = <<<<sources[turn], 0>>>>

LEMMA SearchBegins == SearchIsNew => SearchInv
PROOF
  <1> SUFFICES ASSUME SearchIsNew PROVE SearchInv
    OBVIOUS
  <1> USE DEF SearchIsNew
  <1> DEFINE s == sources[turn]
  <1>1. s \in Nodes /\ hops \in Nat
    BY HopNodes
  <1>2. HopReach(0) = {s} /\ HopReach(0) \subseteq HopReach(hops)
    BY <1>1, ReachZero, ReachMonotone DEF HopReach
  <1>3. DOMAIN queue = {1} /\ queue[1] = <<s, 0>> /\ queue # <<>>
    OBVIOUS
  <1> HIDE DEF s
  <1>4. WaitingInOrder
    <2>1. \A i \in DOMAIN queue : queue[i] = <<s, 0>>
      BY <1>3
    <2>2. \A i, j \in DOMAIN queue : ~(i < j)
      BY <1>3
    <2> QED
      BY <1>2, <2>1, <2>2 DEF WaitingInOrder
  <1>5. DepthIsComplete(0)
    <2>1. \A v \in HopReach(0) : Waiting(v, 0)
      BY <1>2, <1>3 DEF Waiting
    <2> QED
      BY <1>2, <2>1 DEF DepthIsComplete, s
  <1>6. queue[1][2] = 0
    BY <1>3
  <1> QED
    BY <1>2, <1>3, <1>4, <1>5, <1>6 DEF SearchInv, s

LEMMA NextSearchBegins == SearchIsNew' => SearchInv'
BY SearchBegins, PTL

LEMMA SearchesInitInv == K!Init => SearchesInv
PROOF
  <1> SUFFICES ASSUME K!Init PROVE SearchesInv
    OBVIOUS
  <1>1. /\ sources \in SourceLists /\ hops \in 0 .. MaxHops /\ data \subseteq EdgesOf["k_hop"]
        /\ turn = 1 /\ neighborhoods = <<>> /\ DOMAIN neighborhoods = {}
    BY DEF K!Init
  <1>2. sources \in Seq(Nodes) /\ Len(sources) \in Nat
    BY <1>1, HopParameters
  <1>3. CASE sources = <<>>
    <2>1. seen = {} /\ queue = <<>> /\ Len(sources) = 0
      BY <1>3 DEF K!Init
    <2>2. K!TypeOK
      BY <1>1, <2>1 DEF K!TypeOK
    <2> QED
      BY <1>1, <2>1, <2>2 DEF SearchesInv, EntriesAreExact
  <1>4. CASE sources # <<>>
    <2>1. /\ seen = {sources[turn]} /\ queue = <<<<sources[turn], 0>>>>
          /\ Len(sources) # 0 /\ sources[1] \in Nodes
      BY <1>1, <1>2, <1>4, EmptySeq DEF K!Init
    <2>2. K!TypeOK
      <3>1. <<sources[1], 0>> \in seen \X (0 .. hops)
        BY <1>1, <2>1, HopParameters
      <3>2. queue \in Seq(seen \X (0 .. hops))
        BY <1>1, <2>1, <3>1
      <3> QED
        BY <1>1, <1>2, <2>1, <3>2 DEF K!TypeOK
    <2>3. turn <= Len(sources)
      BY <1>1, <1>2, <2>1
    <2> QED
      BY <1>1, <2>1, <2>2, <2>3, SearchBegins DEF SearchIsNew, SearchesInv, EntriesAreExact
  <1> QED
    BY <1>3, <1>4

\* The vertices that a pass of the loop sees first.
FirstSeen ==
  IF queue[1][2] = hops THEN {} ELSE K!Adjacent(queue[1][1]) \ seen

\* What one pass of the loop does.
LEMMA VisitEffect ==
  ASSUME K!TypeOK, K!Visit
  PROVE  /\ queue[1] \in seen \X (0 .. hops) /\ queue # <<>>
         /\ Len(queue) \in Nat \ {0} /\ DOMAIN queue = 1 .. Len(queue)
         /\ seen' = seen \cup FirstSeen
         /\ \E m \in Nat :
              /\ DOMAIN queue' = 1 .. (Len(queue) - 1) + m
              /\ \A i \in 1 .. Len(queue) - 1 : queue'[i] = queue[i + 1]
              /\ \A i \in 1 .. m : \E v \in FirstSeen :
                   queue'[(Len(queue) - 1) + i] = <<v, queue[1][2] + 1>>
              /\ \A v \in FirstSeen : \E i \in 1 .. m :
                   queue'[(Len(queue) - 1) + i] = <<v, queue[1][2] + 1>>
         /\ UNCHANGED <<data, sources, hops, turn, neighborhoods>>
         /\ K!TypeOK'
PROOF
  <1> DEFINE l == Len(queue)
             depth == queue[1][2]
             E == seen \X (0 .. hops)
             U == (seen \cup FirstSeen) \X (0 .. hops)
  <1>1. queue \in Seq(E) /\ queue # <<>> /\ hops \in Nat /\ seen \subseteq Nodes
    BY HopNodes DEF K!TypeOK, K!Visit
  <1>2. /\ l \in Nat \ {0} /\ DOMAIN queue = 1 .. l
        /\ Head(queue) = queue[1] /\ queue[1] \in E
    BY <1>1
  <1>3. depth \in 0 .. hops /\ queue[1][1] \in seen
    BY <1>2
  <1>4. /\ FirstSeen \subseteq Nodes /\ IsFiniteSet(FirstSeen)
        /\ depth = hops => FirstSeen = {}
    <2>1. K!Adjacent(queue[1][1]) \ seen \subseteq K!Adjacent(queue[1][1])
      OBVIOUS
    <2> QED
      BY <2>1, HopNodes, FS_Subset, FS_EmptySet DEF FirstSeen
  <1>5. seen' = seen \cup FirstSeen
    BY <1>2, Zenon DEF K!Visit, FirstSeen
  <1>6. \E t \in Seq(FirstSeen \X {depth + 1}) :
          /\ queue' = Tail(queue) \o t
          /\ \A v \in FirstSeen : \E i \in 1 .. Len(t) : t[i] = <<v, depth + 1>>
    <2>1. CASE depth = hops
      <3>1. queue' = Tail(queue) /\ Tail(queue) \in Seq(E)
        BY <1>1, <1>2, <2>1 DEF K!Visit
      <3>2. queue' = Tail(queue) \o <<>>
        BY <3>1
      <3>3. <<>> \in Seq(FirstSeen \X {depth + 1}) /\ FirstSeen = {}
        BY <1>4, <2>1
      <3> QED
        BY <3>2, <3>3, Zenon
    <2>2. CASE depth # hops
      <3> DEFINE shift(f) == [i \in DOMAIN f |-> <<f[i], depth + 1>>]
      <3>1. FirstSeen = K!Adjacent(queue[1][1]) \ seen
        BY <2>2 DEF FirstSeen
      <3>2. PICK f \in K!Orders(FirstSeen) : queue' = Tail(queue) \o shift(f)
        BY <1>2, <2>2, <3>1, Zenon DEF K!Visit
      <3>3. /\ f \in [1 .. Cardinality(FirstSeen) -> FirstSeen]
            /\ \A i, j \in 1 .. Cardinality(FirstSeen) : i # j => f[i] # f[j]
        BY <3>2, Zenon DEF K!Orders, K!Bijection, K!Injection, K!IsInjective,
               K!Cardinality, Cardinality
      <3>4. /\ f \in Seq(FirstSeen) /\ Len(f) = Cardinality(FirstSeen)
            /\ \A x \in FirstSeen : \E i \in 1 .. Len(f) : f[i] = x
        BY <1>4, <3>3, OrderHasAll
      <3>5. DOMAIN f = 1 .. Len(f) /\ Len(f) \in Nat
        BY <3>4
      <3>6. shift(f) \in [1 .. Len(f) -> FirstSeen \X {depth + 1}]
        BY <3>4, <3>5
      <3>7. shift(f) \in Seq(FirstSeen \X {depth + 1}) /\ Len(shift(f)) = Len(f)
        BY <3>5, <3>6
      <3>8. ASSUME NEW v \in FirstSeen
            PROVE  \E i \in 1 .. Len(shift(f)) : shift(f)[i] = <<v, depth + 1>>
        BY <3>4, <3>5, <3>7
      <3> QED
        BY <3>2, <3>7, <3>8
    <2> QED
      BY <2>1, <2>2
  <1>7. PICK t \in Seq(FirstSeen \X {depth + 1}) :
          /\ queue' = Tail(queue) \o t
          /\ \A v \in FirstSeen : \E i \in 1 .. Len(t) : t[i] = <<v, depth + 1>>
    BY <1>6
  <1>8. FirstSeen # {} => depth + 1 \in 0 .. hops
    BY <1>1, <1>3, <1>4
  <1>9. queue \in Seq(U) /\ t \in Seq(U)
    <2>1. E \subseteq U /\ FirstSeen \X {depth + 1} \subseteq U
      BY <1>8
    <2> HIDE DEF E, U
    <2> QED
      BY <1>1, <2>1
  <1> HIDE DEF U
  <1>10. /\ Tail(queue) \o t \in Seq(U) /\ Len(t) \in Nat
         /\ Len(Tail(queue) \o t) = (l - 1) + Len(t)
         /\ \A i \in 1 .. l - 1 : (Tail(queue) \o t)[i] = queue[i + 1]
         /\ \A i \in 1 .. Len(t) : (Tail(queue) \o t)[(l - 1) + i] = t[i]
    BY <1>1, <1>9, TakeAndPut
  <1>11. /\ queue' \in Seq(U) /\ Len(t) \in Nat
         /\ Len(queue') = (l - 1) + Len(t)
         /\ \A i \in 1 .. l - 1 : queue'[i] = queue[i + 1]
         /\ \A i \in 1 .. Len(t) : queue'[(l - 1) + i] = t[i]
    BY <1>7, <1>10, Zenon
  <1>12. DOMAIN queue' = 1 .. (l - 1) + Len(t)
    BY <1>11
  <1>13. \A i \in 1 .. Len(t) : \E v \in FirstSeen : t[i] = <<v, depth + 1>>
    <2> SUFFICES ASSUME NEW i \in 1 .. Len(t)
                 PROVE  \E v \in FirstSeen : t[i] = <<v, depth + 1>>
      OBVIOUS
    <2>1. t[i] \in FirstSeen \X {depth + 1}
      BY <1>7
    <2> QED
      BY <2>1
  <1>14. /\ \A i \in 1 .. Len(t) : \E v \in FirstSeen : queue'[(l - 1) + i] = <<v, depth + 1>>
         /\ \A v \in FirstSeen : \E i \in 1 .. Len(t) : queue'[(l - 1) + i] = <<v, depth + 1>>
    <2>1. \A i \in 1 .. Len(t) : queue'[(l - 1) + i] = t[i]
      BY <1>11
    <2> HIDE DEF l, depth
    <2>2. \A i \in 1 .. Len(t) : \E v \in FirstSeen : queue'[(l - 1) + i] = <<v, depth + 1>>
      BY <1>13, <2>1, Zenon
    <2>3. \A v \in FirstSeen : \E i \in 1 .. Len(t) : queue'[(l - 1) + i] = <<v, depth + 1>>
      BY <1>7, <2>1, Zenon
    <2> QED
      BY <2>2, <2>3
  <1>15. UNCHANGED <<data, sources, hops, turn, neighborhoods>>
    BY DEF K!Visit
  <1>16. K!TypeOK'
    <2>1. seen' \subseteq Nodes
      BY <1>1, <1>4, <1>5
    <2> QED
      BY <1>5, <1>11, <1>15, <2>1 DEF K!TypeOK, U
  <1> QED
    BY <1>1, <1>2, <1>5, <1>11, <1>12, <1>14, <1>15, <1>16

\* What holds of the search through one pass of the loop.
LEMMA PassInv ==
  ASSUME K!TypeOK, turn <= Len(sources), SearchInv, K!Visit
  PROVE  SearchInv'
PROOF
  <1> DEFINE node == queue[1][1]
             n == queue[1][2]
             l == Len(queue)
             s == sources[turn]
             Waits(v, d) == \E i \in DOMAIN queue' : queue'[i] = <<v, d>>
  <1>1. /\ node \in seen /\ n \in 0 .. hops /\ queue[1] = <<node, n>> /\ queue # <<>>
        /\ l \in Nat \ {0} /\ DOMAIN queue = 1 .. l
        /\ seen' = seen \cup FirstSeen
        /\ UNCHANGED <<data, sources, hops, turn>>
        /\ K!TypeOK'
    BY VisitEffect
  <1>2. PICK m \in Nat :
          /\ DOMAIN queue' = 1 .. (l - 1) + m
          /\ \A i \in 1 .. l - 1 : queue'[i] = queue[i + 1]
          /\ \A i \in 1 .. m : \E v \in FirstSeen : queue'[(l - 1) + i] = <<v, n + 1>>
          /\ \A v \in FirstSeen : \E i \in 1 .. m : queue'[(l - 1) + i] = <<v, n + 1>>
    BY VisitEffect
  <1>3. FirstSeen = IF n = hops THEN {} ELSE K!Adjacent(node) \ seen
    BY DEF FirstSeen
  <1>4. /\ hops \in Nat /\ s \in Nodes
        /\ \A i \in 1 .. l : queue[i][2] \in 0 .. hops
    <2>1. hops \in Nat /\ s \in Nodes
      BY HopNodes
    <2>2. queue \in Seq(seen \X (0 .. hops))
      BY DEF K!TypeOK
    <2>3. \A i \in 1 .. l : queue[i] \in seen \X (0 .. hops)
      BY <2>2
    <2> QED
      BY <2>1, <2>3
  <1>5. /\ \A i : HopReach(i)' = HopReach(i)
        /\ \A i \in Nat : \A x : x \in HopReach(i + 1) <=>
              \/ x \in HopReach(i)
              \/ \E w \in HopReach(i) : x \in K!Adjacent(w)
        /\ \A i, j \in Nat : i <= j => HopReach(i) \subseteq HopReach(j)
    <2>1. \A i : HopReach(i)' = HopReach(i)
      BY <1>1 DEF HopReach
    <2>2. \A i \in Nat : \A x : x \in HopReach(i + 1) <=>
              \/ x \in HopReach(i)
              \/ \E w \in HopReach(i) : x \in Out(data, w)
      BY <1>4, ReachNext, Zenon DEF HopReach
    <2>3. \A i, j \in Nat : i <= j => HopReach(i) \subseteq HopReach(j)
      BY <1>4, ReachMonotone, Zenon DEF HopReach
    <2>4. \A w : Out(data, w) = K!Adjacent(w)
      BY HopNodes
    <2> QED
      BY <2>1, <2>2, <2>3, <2>4
  <1>6. \A w : K!Adjacent(w)' = K!Adjacent(w)
    BY <1>1 DEF K!Adjacent
  <1>7. /\ s \in seen /\ seen \subseteq HopReach(hops)
        /\ \A i, j \in 1 .. l :
             i < j => queue[i][2] <= queue[j][2] /\ queue[j][2] <= queue[i][2] + 1
        /\ \A i \in 1 .. l : queue[i][1] \in HopReach(queue[i][2])
        /\ HopReach(n) \subseteq seen
        /\ \A v \in seen : v \in HopReach(n) \/ Waiting(v, n + 1)
        /\ n < hops => \A v \in HopReach(n) : K!Adjacent(v) \subseteq seen \/ Waiting(v, n)
    BY <1>1 DEF SearchInv, WaitingInOrder, DepthIsComplete
  <1>8. \A i \in 1 .. l : n <= queue[i][2] /\ queue[i][2] <= n + 1
    <2> SUFFICES ASSUME NEW i \in 1 .. l
                 PROVE  n <= queue[i][2] /\ queue[i][2] <= n + 1
      OBVIOUS
    <2>1. CASE i = 1
      BY <1>1, <1>4, <2>1
    <2>2. CASE i # 1
      <3>1. 1 \in 1 .. l /\ 1 < i
        BY <1>1, <2>2
      <3> QED
        BY <1>7, <3>1
    <2> QED
      BY <2>1, <2>2
  <1>9. node \in HopReach(n)
    BY <1>1, <1>7
  <1> HIDE DEF n, l, s, node
  \* The places of the new queue: an old one moved up, or a new vertex.
  <1>10. ASSUME NEW i \in DOMAIN queue'
         PROVE  \/ i \in 1 .. l - 1 /\ i + 1 \in 1 .. l /\ queue'[i] = queue[i + 1]
                \/ i \notin 1 .. l - 1 /\ \E v \in FirstSeen : queue'[i] = <<v, n + 1>>
    <2>1. CASE i \in 1 .. l - 1
      BY <1>1, <1>2, <2>1
    <2>2. CASE i \notin 1 .. l - 1
      <3>1. i - (l - 1) \in 1 .. m /\ i = (l - 1) + (i - (l - 1))
        BY <1>1, <1>2, <2>2
      <3> QED
        BY <1>2, <2>2, <3>1
    <2> QED
      BY <2>1, <2>2
  \* Who waits in it.
  <1>11. ASSUME NEW v, NEW d, Waiting(v, d), <<v, d>> # <<node, n>>
         PROVE  Waits(v, d)
    <2>1. PICK i \in 1 .. l : queue[i] = <<v, d>>
      BY <1>1, <1>11 DEF Waiting
    <2>2. i # 1
      BY <1>1, <1>11, <2>1
    <2>3. i - 1 \in 1 .. l - 1 /\ (i - 1) + 1 = i /\ i - 1 \in DOMAIN queue'
      BY <1>1, <1>2, <2>2
    <2>4. queue'[i - 1] = <<v, d>>
      BY <1>2, <2>1, <2>3
    <2> QED
      BY <2>3, <2>4
  <1>12. \A v \in FirstSeen : Waits(v, n + 1)
    <2> SUFFICES ASSUME NEW v \in FirstSeen PROVE Waits(v, n + 1)
      OBVIOUS
    <2>1. PICK i \in 1 .. m : queue'[(l - 1) + i] = <<v, n + 1>>
      BY <1>2
    <2>2. (l - 1) + i \in DOMAIN queue'
      BY <1>1, <1>2
    <2> QED
      BY <2>1, <2>2
  <1>13. WaitingInOrder'
    <2>1. ASSUME NEW i \in DOMAIN queue', NEW j \in DOMAIN queue', i < j
          PROVE  queue'[i][2] <= queue'[j][2] /\ queue'[j][2] <= queue'[i][2] + 1
      <3>1. CASE i \in 1 .. l - 1 /\ j \in 1 .. l - 1
        <4>1. i + 1 \in 1 .. l /\ j + 1 \in 1 .. l /\ i + 1 < j + 1
          BY <1>1, <2>1, <3>1
        <4> QED
          BY <1>2, <1>7, <3>1, <4>1
      <3>2. CASE i \in 1 .. l - 1 /\ j \notin 1 .. l - 1
        <4>1. i + 1 \in 1 .. l /\ queue'[i] = queue[i + 1] /\ queue'[j][2] = n + 1
          BY <1>10, <3>2
        <4> QED
          BY <1>1, <1>4, <1>8, <4>1
      <3>3. CASE i \notin 1 .. l - 1 /\ j \notin 1 .. l - 1
        <4>1. queue'[i][2] = n + 1 /\ queue'[j][2] = n + 1
          BY <1>10, <3>3
        <4> QED
          BY <1>1, <4>1
      <3>4. ~(i \notin 1 .. l - 1 /\ j \in 1 .. l - 1)
        BY <1>1, <1>2, <2>1
      <3> QED
        BY <3>1, <3>2, <3>3, <3>4
    <2>2. ASSUME NEW i \in DOMAIN queue'
          PROVE  queue'[i][1] \in HopReach(queue'[i][2])
      <3>1. CASE i + 1 \in 1 .. l /\ queue'[i] = queue[i + 1]
        BY <1>7, <3>1
      <3>2. CASE \E v \in FirstSeen : queue'[i] = <<v, n + 1>>
        <4>1. PICK v \in FirstSeen : queue'[i] = <<v, n + 1>>
          BY <3>2
        <4>2. v \in K!Adjacent(node)
          BY <1>3
        <4>3. n \in Nat
          BY <1>1
        <4>4. v \in HopReach(n + 1)
          BY <1>5, <1>9, <4>2, <4>3
        <4> QED
          BY <4>1, <4>4
      <3> QED
        BY <1>10, <3>1, <3>2
    <2> QED
      BY <1>5, <2>1, <2>2 DEF WaitingInOrder
  <1>14. s \in seen' /\ seen' \subseteq HopReach(hops)
    <2>1. n # hops => K!Adjacent(node) \subseteq HopReach(hops)
      <3> SUFFICES ASSUME n # hops, NEW v \in K!Adjacent(node)
                   PROVE  v \in HopReach(hops)
        OBVIOUS
      <3>1. n \in Nat /\ n + 1 \in Nat /\ n + 1 <= hops
        BY <1>1, <1>4
      <3>2. v \in HopReach(n + 1)
        BY <1>5, <1>9, <3>1
      <3> QED
        BY <1>4, <1>5, <3>1, <3>2
    <2> QED
      BY <1>1, <1>3, <1>7, <2>1
  \* Nothing waits farther than n + 1, or farther than hops.
  <1>15. \A v \in seen' : v \in HopReach(n) \/ Waits(v, n + 1)
    <2> SUFFICES ASSUME NEW v \in seen', v \notin HopReach(n)
                 PROVE  Waits(v, n + 1)
      OBVIOUS
    <2>1. CASE v \in FirstSeen
      BY <1>12, <2>1
    <2>2. CASE v \notin FirstSeen
      <3>1. Waiting(v, n + 1)
        BY <1>1, <1>7, <2>2
      <3>2. n + 1 # n
        BY <1>1
      <3> QED
        BY <1>11, <3>1, <3>2
    <2> QED
      BY <2>1, <2>2
  <1>16. n < hops => \A v \in HopReach(n) : K!Adjacent(v) \subseteq seen' \/ Waits(v, n)
    <2> SUFFICES ASSUME n < hops, NEW v \in HopReach(n), ~Waits(v, n)
                 PROVE  K!Adjacent(v) \subseteq seen'
      OBVIOUS
    <2>1. CASE v = node
      BY <1>1, <1>3, <1>4, <2>1
    <2>2. CASE v # node
      <3>1. ~Waiting(v, n)
        BY <1>11, <2>2
      <3> QED
        BY <1>1, <1>7, <3>1
    <2> QED
      BY <2>1, <2>2
  <1>17. queue' # <<>> => DepthIsComplete(queue[1][2])'
    <2> SUFFICES ASSUME queue' # <<>>
                 PROVE  /\ HopReach(queue'[1][2]) \subseteq seen'
                        /\ \A v \in seen' :
                             v \in HopReach(queue'[1][2]) \/ Waits(v, queue'[1][2] + 1)
                        /\ queue'[1][2] < hops =>
                             \A v \in HopReach(queue'[1][2]) :
                               K!Adjacent(v) \subseteq seen' \/ Waits(v, queue'[1][2])
      BY <1>1, <1>5, <1>6 DEF DepthIsComplete, Waiting
    <2>1. 1 \in DOMAIN queue' /\ queue'[1][2] \in 0 .. hops
      <3>1. queue' \in Seq(seen' \X (0 .. hops)) /\ queue' # <<>>
        BY <1>1 DEF K!TypeOK
      <3>2. queue'[1] \in seen' \X (0 .. hops) /\ 1 \in DOMAIN queue'
        BY <3>1
      <3> QED
        BY <3>2
    <2>2. queue'[1][2] \in {n, n + 1}
      <3>1. CASE queue'[1] = queue[2] /\ 2 \in 1 .. l
        BY <1>1, <1>4, <1>8, <3>1
      <3>2. CASE \E v \in FirstSeen : queue'[1] = <<v, n + 1>>
        BY <3>2
      <3> QED
        BY <1>10, <2>1, <3>1, <3>2
    <2>3. CASE queue'[1][2] = n
      BY <1>1, <1>7, <1>15, <1>16, <2>3
    <2>4. CASE queue'[1][2] = n + 1
      <3>1. n < hops /\ n \in Nat /\ n + 1 \in Nat /\ n <= n + 1
        BY <1>1, <1>4, <2>1, <2>4
      <3>2. \A v : ~Waits(v, n)
        <4> SUFFICES ASSUME NEW v, NEW i \in DOMAIN queue', queue'[i] = <<v, n>>
                     PROVE  FALSE
          OBVIOUS
        <4>1. CASE i = 1
          BY <2>4, <3>1, <4>1
        <4>2. CASE i # 1
          <5>1. 1 < i
            BY <1>1, <1>2, <4>2
          <5>2. queue'[1][2] <= queue'[i][2]
            BY <1>13, <2>1, <5>1 DEF WaitingInOrder
          <5> QED
            BY <2>4, <3>1, <5>2
        <4> QED
          BY <4>1, <4>2
      <3>3. \A v \in HopReach(n) : K!Adjacent(v) \subseteq seen'
        BY <1>16, <3>1, <3>2
      <3>4. HopReach(n + 1) \subseteq seen'
        BY <1>1, <1>5, <1>7, <3>1, <3>3
      <3>5. \A i \in DOMAIN queue' : queue'[i][1] \in HopReach(queue'[i][2])
        BY <1>5, <1>13 DEF WaitingInOrder
      <3>6. \A v : Waits(v, n + 1) => v \in HopReach(n + 1)
        <4> SUFFICES ASSUME NEW v, NEW i \in DOMAIN queue', queue'[i] = <<v, n + 1>>
                     PROVE  v \in HopReach(n + 1)
          OBVIOUS
        <4> QED
          BY <3>5
      <3>7. \A v \in seen' : v \in HopReach(n + 1)
        BY <1>5, <1>15, <3>1, <3>6
      <3>8. \A v \in HopReach(n + 1) :
              K!Adjacent(v) \subseteq seen' \/ Waits(v, n + 1)
        BY <1>15, <3>3, <3>4
      <3> QED
        BY <2>4, <3>4, <3>7, <3>8
    <2> QED
      BY <2>2, <2>3, <2>4
  <1>18. queue' = <<>> => HopReach(hops) \subseteq seen'
    <2> SUFFICES ASSUME queue' = <<>>
                 PROVE  HopReach(hops) \subseteq seen'
      OBVIOUS
    <2>1. \A v, d : ~Waits(v, d)
      OBVIOUS
    <2>2. seen' \subseteq HopReach(n) /\ HopReach(n) \subseteq seen'
      BY <1>1, <1>7, <1>15, <2>1
    <2>3. CASE n = hops
      BY <2>2, <2>3
    <2>4. CASE n < hops
      <3>1. \A v \in seen' : Out(data, v) \subseteq seen'
        BY <1>16, <2>1, <2>2, <2>4, HopNodes
      <3> QED
        BY <1>4, <1>14, <3>1, ReachStays DEF HopReach, s
    <2> QED
      BY <1>1, <1>4, <2>3, <2>4
  <1>19. (sources[turn] \in seen)' /\ (seen \subseteq HopReach(hops))'
    BY <1>1, <1>5, <1>14 DEF s
  <1>20. (queue = <<>> => HopReach(hops) \subseteq seen)'
    BY <1>1, <1>5, <1>18
  <1>21. (queue # <<>> => DepthIsComplete(queue[1][2]))'
    BY <1>17
  <1> QED
    BY <1>13, <1>19, <1>20, <1>21 DEF SearchInv

\* The search of a source ends with what `hops` edges reach from it.
LEMMA FinishInv ==
  ASSUME SearchesInv, K!FinishSource
  PROVE  SearchesInv'
PROOF
  <1> DEFINE s == sources[turn]
  <1>1. /\ K!TypeOK /\ EntriesAreExact /\ turn <= Len(sources) /\ queue = <<>>
        /\ turn' = turn + 1 /\ UNCHANGED <<data, sources, hops>>
        /\ SearchInv
    BY DEF SearchesInv, K!FinishSource
  <1>2. /\ sources \in Seq(Nodes) /\ hops \in Nat /\ turn \in Nat \ {0}
        /\ Len(sources) \in Nat /\ s \in Nodes
    BY <1>1, HopNodes DEF K!TypeOK
  <1>3. seen = Reach(data, s, hops)
    BY <1>1 DEF SearchInv, HopReach
  <1>4. /\ DOMAIN neighborhoods' = DOMAIN neighborhoods \cup {s}
        /\ \A v \in DOMAIN neighborhoods' :
             neighborhoods'[v] = IF v = s THEN seen \ {s} ELSE neighborhoods[v]
    BY DEF K!FinishSource, K!With
  <1>5. EntriesAreExact'
    <2>1. {sources[i] : i \in 1 .. turn' - 1} = {sources[i] : i \in 1 .. turn - 1} \cup {s}
      <3>1. 1 .. turn' - 1 = (1 .. turn - 1) \cup {turn}
        BY <1>1, <1>2
      <3> QED
        BY <3>1
    <2>2. ASSUME NEW v \in DOMAIN neighborhoods'
          PROVE  neighborhoods'[v] = Reach(data, v, hops) \ {v}
      <3>1. CASE v = s
        BY <1>3, <1>4, <3>1
      <3>2. CASE v # s
        BY <1>1, <1>4, <3>2 DEF EntriesAreExact
      <3> QED
        BY <3>1, <3>2
    <2>3. DOMAIN neighborhoods' = {sources[i] : i \in 1 .. turn' - 1}
      <3>1. DOMAIN neighborhoods = {sources[i] : i \in 1 .. turn - 1}
        BY <1>1 DEF EntriesAreExact
      <3> HIDE DEF s
      <3> QED
        BY <1>4, <2>1, <3>1
    <2>4. sources' = sources /\ data' = data /\ hops' = hops
      BY <1>1
    <2> QED
      BY <2>2, <2>3, <2>4 DEF EntriesAreExact
  <1>6. /\ DOMAIN neighborhoods' \subseteq Nodes
        /\ \A v \in DOMAIN neighborhoods' : neighborhoods'[v] \subseteq Nodes
    <2>1. /\ DOMAIN neighborhoods \subseteq Nodes /\ seen \subseteq Nodes
          /\ \A v \in DOMAIN neighborhoods : neighborhoods[v] \subseteq Nodes
      BY <1>1 DEF K!TypeOK
    <2>2. s \in Nodes
      BY <1>2
    <2> HIDE DEF s
    <2>3. DOMAIN neighborhoods' \subseteq Nodes
      BY <1>4, <2>1, <2>2
    <2>4. ASSUME NEW v \in DOMAIN neighborhoods'
          PROVE  neighborhoods'[v] \subseteq Nodes
      <3>1. CASE v = s
        BY <1>4, <2>1, <3>1
      <3>2. CASE v # s
        BY <1>4, <2>1, <3>2
      <3> QED
        BY <3>1, <3>2
    <2> QED
      BY <2>3, <2>4
  <1>7. CASE turn' <= Len(sources)
    <2>1. /\ seen' = {sources[turn']} /\ queue' = <<<<sources[turn'], 0>>>>
          /\ sources[turn'] \in Nodes
      BY <1>1, <1>2, <1>7 DEF K!FinishSource
    <2>2. queue' \in Seq(seen' \X (0 .. hops))
      BY <1>2, <2>1
    <2>3. K!TypeOK'
      BY <1>1, <1>2, <1>6, <1>7, <2>1, <2>2 DEF K!TypeOK
    <2>4. (turn <= Len(sources))'
      BY <1>1, <1>7
    <2>5. SearchInv'
      <3>1. SearchIsNew'
        BY <1>1, <2>1, <2>3, <2>4 DEF SearchIsNew
      <3> QED
        BY <3>1, NextSearchBegins
    <2> QED
      BY <1>5, <2>3, <2>4, <2>5 DEF SearchesInv
  <1>8. CASE ~(turn' <= Len(sources))
    <2>1. seen' = seen /\ queue' = <<>>
      BY <1>8 DEF K!FinishSource
    <2>2. K!TypeOK'
      BY <1>1, <1>2, <1>6, <2>1 DEF K!TypeOK
    <2>3. ~(turn <= Len(sources))'
      BY <1>1, <1>8
    <2> QED
      BY <1>5, <2>1, <2>2, <2>3 DEF SearchesInv
  <1> QED
    BY <1>7, <1>8

SearchesRun == plugin = "k_hop" => SearchesInv

\* The invariant holds for every finite graph, all sources and every bound.
THEOREM SearchesInvariance == Spec => []SearchesRun
PROOF
  <1>1. Init => SearchesRun
    BY PluginBegins, SearchesInitInv DEF SearchesRun
  <1>2. SearchesRun /\ [Next]_vars => SearchesRun'
    <2> SUFFICES ASSUME SearchesInv, [K!Next]_(K!vars)
                 PROVE  SearchesInv'
      BY PluginRuns DEF SearchesRun
    <2>1. CASE UNCHANGED K!vars
      <3>1. UNCHANGED <<data, sources, hops, turn, seen, queue, neighborhoods>>
        BY <2>1 DEF K!vars
      <3> QED
        BY <3>1 DEF SearchesInv, K!TypeOK, EntriesAreExact, SearchInv, WaitingInOrder,
             DepthIsComplete, Waiting, HopReach, K!Adjacent
    <2>2. CASE K!Visit
      <3>1. queue # <<>> /\ UNCHANGED <<data, sources, hops, turn, neighborhoods>>
        BY <2>2 DEF K!Visit
      <3>2. turn <= Len(sources) /\ SearchInv /\ K!TypeOK /\ EntriesAreExact
        BY <3>1 DEF SearchesInv
      <3>3. K!TypeOK'
        BY <2>2, <3>2, VisitEffect
      <3>4. SearchInv'
        BY <2>2, <3>2, PassInv
      <3>5. EntriesAreExact'
        BY <3>1, <3>2 DEF EntriesAreExact
      <3> QED
        BY <3>1, <3>2, <3>3, <3>4, <3>5 DEF SearchesInv
    <2>3. CASE K!FinishSource
      BY <2>3, FinishInv
    <2> QED
      BY <2>1, <2>2, <2>3 DEF K!Next
  <1> QED
    BY <1>1, <1>2, PTL DEF Spec

\* The entry of every source of k_hop is exactly what `hops` edges reach: no
\* vertex is hidden by one that was queued at the full depth.
THEOREM SearchesAreExact == Spec => []NeighborhoodsAreExact
PROOF
  <1>1. SearchesRun => NeighborhoodsAreExact
    <2> SUFFICES ASSUME SearchesInv PROVE K!NeighborhoodsAreExact
      BY DEF SearchesRun, NeighborhoodsAreExact
    <2>1. K!TypeOK /\ EntriesAreExact /\ hops \in Nat
      BY HopNodes DEF SearchesInv
    <2>2. \A v \in DOMAIN neighborhoods : K!Within(v, hops) = Reach(data, v, hops)
      BY <2>1, HopWithin DEF K!TypeOK
    <2> QED
      BY <2>1, <2>2 DEF EntriesAreExact, K!NeighborhoodsAreExact
  <1> QED
    BY <1>1, SearchesInvariance, PTL

-----------------------------------------------------------------------------
(* triangle_count                                                          *)

Joined(a, b) == <<a, b>> \in data \/ <<b, a>> \in data

\* Three vertices that are neighbours of each other.
Triangle(X) ==
  /\ X \subseteq Nodes /\ Cardinality(X) = 3
  /\ \A a, b \in X : a # b => Joined(a, b)

\* The triangles the outermost loop has come to, each at its least vertex.
Counted == {X \in SUBSET Nodes : Triangle(X) /\ T!Min(X) \notin todo}

\* The inductive invariant behind TrianglesAreCountedOnce.
CountInv ==
  /\ T!TypeOK
  /\ IsFiniteSet(Counted)
  /\ count = Cardinality(Counted)

LEMMA TriangleNodes ==
  ASSUME T!TypeOK
  PROVE  /\ data \subseteq Nodes \X Nodes /\ Nodes \subseteq Int
         /\ IsFiniteSet(T!Present) /\ T!Present \subseteq Nodes
         /\ \A a : T!Adjacency(a) \subseteq T!Present
         /\ \A a, b \in Nodes : b \in T!Adjacency(a) <=> a # b /\ Joined(a, b)
PROOF
  <1>1. data \subseteq Nodes \X Nodes /\ IsFiniteSet(data) /\ Nodes \subseteq Int
    BY TriangleParameters, FS_Subset DEF T!TypeOK
  <1>2. IsFiniteSet({e[1] : e \in data}) /\ IsFiniteSet({e[2] : e \in data})
    <2>1. [e \in data |-> e[1]] \in Surjection(data, {e[1] : e \in data})
      BY DEF Surjection
    <2>2. [e \in data |-> e[2]] \in Surjection(data, {e[2] : e \in data})
      BY DEF Surjection
    <2> QED
      BY <1>1, <2>1, <2>2, FS_Surjection
  <1>3. IsFiniteSet({e[1] : e \in data} \cup {e[2] : e \in data})
    BY <1>2, FS_Union
  <1>4. T!Present \subseteq {e[1] : e \in data} \cup {e[2] : e \in data}
    <2> SUFFICES ASSUME NEW a \in T!Present
                 PROVE  a \in {e[1] : e \in data} \cup {e[2] : e \in data}
      OBVIOUS
    <2>1. PICK b : <<a, b>> \in data \/ <<b, a>> \in data
      BY DEF T!Present, T!Adjacency
    <2>2. <<a, b>>[1] = a /\ <<b, a>>[2] = a
      OBVIOUS
    <2> QED
      BY <2>1, <2>2
  <1>5. IsFiniteSet(T!Present)
    BY <1>3, <1>4, FS_Subset
  <1>6. ASSUME NEW a, NEW b \in T!Adjacency(a)
        PROVE  b \in T!Present
    <2>1. a \in Nodes /\ b \in Nodes /\ a # b /\ (<<a, b>> \in data \/ <<b, a>> \in data)
      BY <1>1 DEF T!Adjacency
    <2>2. a \in T!Adjacency(b)
      BY <2>1 DEF T!Adjacency
    <2> QED
      BY <2>1, <2>2 DEF T!Present
  <1> QED
    BY <1>1, <1>5, <1>6 DEF T!Present, T!Adjacency, Joined

\* A set of three numbers in ascending order.
LEMMA ThreeNumbers ==
  ASSUME NEW x \in Int, NEW y \in Int, NEW z \in Int, x < y, y < z
  PROVE  /\ Cardinality({x, y, z}) = 3
         /\ T!Min({x, y, z}) = x
PROOF
  <1>1. IsFiniteSet({x}) /\ Cardinality({x}) = 1
    BY FS_Singleton
  <1>2. IsFiniteSet({x} \cup {y}) /\ Cardinality({x} \cup {y}) = 2
    BY <1>1, FS_AddElement
  <1>3. Cardinality(({x} \cup {y}) \cup {z}) = 3
    BY <1>2, FS_AddElement
  <1>4. ({x} \cup {y}) \cup {z} = {x, y, z}
    OBVIOUS
  <1>5. T!Min({x, y, z}) = CHOOSE a \in {x, y, z} : \A b \in {x, y, z} : a <= b
    BY Zenon DEF T!Min
  <1>6. \A a \in {x, y, z} : (\A b \in {x, y, z} : a <= b) <=> a = x
    OBVIOUS
  <1> QED
    BY <1>3, <1>4, <1>5, <1>6

\* A triangle is such a set; that it is finite follows from its edges.
LEMMA TriangleInOrder ==
  ASSUME T!TypeOK, NEW X, Triangle(X)
  PROVE  \E x, y, z \in Nodes : X = {x, y, z} /\ x < y /\ y < z
PROOF
  <1>1. X \subseteq Int
    BY TriangleNodes DEF Triangle
  <1>2. IsFiniteSet(X)
    <2>1. CASE X \subseteq T!Present
      BY <2>1, TriangleNodes, FS_Subset
    <2>2. CASE ~(X \subseteq T!Present)
      <3>1. PICK a \in X : a \notin T!Present
        BY <2>2
      <3>2. \A b \in X : b = a
        <4> SUFFICES ASSUME NEW b \in X, b # a PROVE FALSE
          OBVIOUS
        <4>1. Joined(b, a) /\ a \in Nodes /\ b \in Nodes
          BY <3>1 DEF Triangle
        <4> QED
          BY <3>1, <4>1, TriangleNodes
      <3>3. X = {a}
        BY <3>2
      <3> QED
        BY <3>3, FS_Singleton
    <2> QED
      BY <2>1, <2>2
  <1>3. Cardinality(X) = 3 /\ X # {}
    BY FS_EmptySet DEF Triangle
  <1>4. PICK a \in X : TRUE
    BY <1>3
  <1>5. IsFiniteSet(X \ {a}) /\ Cardinality(X \ {a}) = 2
    BY <1>2, <1>3, FS_RemoveElement
  <1>6. PICK b \in X \ {a} : TRUE
    BY <1>5, FS_EmptySet
  <1>7. IsFiniteSet((X \ {a}) \ {b}) /\ Cardinality((X \ {a}) \ {b}) = 1
    BY <1>5, FS_RemoveElement
  <1>8. PICK c : (X \ {a}) \ {b} = {c}
    BY <1>7, FS_Singleton
  <1>9. X = {a, b, c} /\ a # b /\ b # c /\ a # c
    BY <1>8
  <1>10. a \in Nodes /\ b \in Nodes /\ c \in Nodes
    BY <1>9 DEF Triangle
  <1>11. a \in Int /\ b \in Int /\ c \in Int
    BY <1>1, <1>9
  <1>12. \E x, y, z \in {a, b, c} : {a, b, c} = {x, y, z} /\ x < y /\ y < z
    <2>1. CASE a < b /\ b < c
      BY <2>1
    <2>2. CASE a < c /\ c < b
      <3>1. {a, b, c} = {a, c, b}
        OBVIOUS
      <3> QED
        BY <2>2, <3>1
    <2>3. CASE b < a /\ a < c
      <3>1. {a, b, c} = {b, a, c}
        OBVIOUS
      <3> QED
        BY <2>3, <3>1
    <2>4. CASE b < c /\ c < a
      <3>1. {a, b, c} = {b, c, a}
        OBVIOUS
      <3> QED
        BY <2>4, <3>1
    <2>5. CASE c < a /\ a < b
      <3>1. {a, b, c} = {c, a, b}
        OBVIOUS
      <3> QED
        BY <2>5, <3>1
    <2>6. CASE c < b /\ b < a
      <3>1. {a, b, c} = {c, b, a}
        OBVIOUS
      <3> QED
        BY <2>6, <3>1
    <2> QED
      BY <1>9, <1>11, <2>1, <2>2, <2>3, <2>4, <2>5, <2>6
  <1> QED
    BY <1>9, <1>10, <1>12

\* The triangles whose least vertex is a.
TrianglesOf(a) == {X \in SUBSET Nodes : Triangle(X) /\ T!Min(X) = a}

\* The inner loops meet each of them once.
LEMMA LoopsMeetThemOnce ==
  ASSUME T!TypeOK, NEW a \in Nodes
  PROVE  /\ IsFiniteSet(TrianglesOf(a))
         /\ Cardinality(TrianglesOf(a)) = Cardinality(T!TrianglesFrom(a))
PROOF
  <1> DEFINE S == T!TrianglesFrom(a)
             f == [p \in S |-> {a, p[1], p[2]}]
  <1>1. IsFiniteSet(S)
    <2>1. IsFiniteSet(T!Adjacency(a))
      BY TriangleNodes, FS_Subset
    <2>2. IsFiniteSet(T!Adjacency(a) \X T!Adjacency(a))
      BY <2>1, FS_Product
    <2>3. S \subseteq T!Adjacency(a) \X T!Adjacency(a)
      BY DEF T!TrianglesFrom
    <2> QED
      BY <2>2, <2>3, FS_Subset
  <1>2. ASSUME NEW b, NEW c
        PROVE  <<b, c>> \in S <=>
                 /\ b \in Nodes /\ c \in Nodes /\ a < b /\ b < c
                 /\ Joined(a, b) /\ Joined(a, c) /\ Joined(b, c)
    <2>1. <<b, c>> \in S <=>
            /\ b \in T!Adjacency(a) /\ c \in T!Adjacency(a)
            /\ b > a /\ c > b /\ c \in T!Adjacency(b)
      BY DEF T!TrianglesFrom
    <2>2. b \in T!Adjacency(a) <=> b \in Nodes /\ a # b /\ Joined(a, b)
      BY TriangleNodes
    <2>3. c \in T!Adjacency(a) <=> c \in Nodes /\ a # c /\ Joined(a, c)
      BY TriangleNodes
    <2>4. b \in Nodes => (c \in T!Adjacency(b) <=> c \in Nodes /\ b # c /\ Joined(b, c))
      BY TriangleNodes
    <2>5. Nodes \subseteq Int
      BY TriangleNodes
    <2> HIDE DEF S
    <2>6. a \in Int /\ (b \in Nodes => b \in Int) /\ (c \in Nodes => c \in Int)
      BY <2>5
    <2> QED
      BY <2>1, <2>2, <2>3, <2>4, <2>6 DEF Joined
  <1>3. ASSUME NEW p \in S
        PROVE  p = <<p[1], p[2]>>
    BY DEF T!TrianglesFrom
  <1>4. ASSUME NEW p \in S
        PROVE  /\ p[1] \in Int /\ p[2] \in Int /\ a \in Int /\ a < p[1] /\ p[1] < p[2]
               /\ p[1] \in Nodes /\ p[2] \in Nodes
               /\ Joined(a, p[1]) /\ Joined(a, p[2]) /\ Joined(p[1], p[2])
    <2>1. <<p[1], p[2]>> \in S
      BY <1>3, Zenon
    <2>2. /\ p[1] \in Nodes /\ p[2] \in Nodes /\ a < p[1] /\ p[1] < p[2]
          /\ Joined(a, p[1]) /\ Joined(a, p[2]) /\ Joined(p[1], p[2])
      BY <1>2, <2>1, Zenon
    <2> QED
      BY <2>2, TriangleNodes
  <1> HIDE DEF S
  <1>5. ASSUME NEW p \in S
        PROVE  f[p] \in TrianglesOf(a)
    <2> DEFINE b == p[1]
               c == p[2]
    <2>1. /\ b \in Int /\ c \in Int /\ a \in Int /\ a < b /\ b < c
          /\ b \in Nodes /\ c \in Nodes /\ Joined(a, b) /\ Joined(a, c) /\ Joined(b, c)
      BY <1>4
    <2>2. f[p] = {a, b, c}
      OBVIOUS
    <2> HIDE DEF b, c, f
    <2>3. Cardinality({a, b, c}) = 3 /\ T!Min({a, b, c}) = a
      BY <2>1, ThreeNumbers
    <2>4. \A x, y : Joined(x, y) <=> Joined(y, x)
      BY DEF Joined
    <2>5. \A x, y \in {a, b, c} : x # y => Joined(x, y)
      BY <2>1, <2>4
    <2> QED
      BY <2>1, <2>2, <2>3, <2>5 DEF TrianglesOf, Triangle
  <1>6. ASSUME NEW p \in S, NEW r \in S, f[p] = f[r]
        PROVE  p = r
    <2>1. {a, p[1], p[2]} = {a, r[1], r[2]}
      BY <1>6
    <2>2. p[1] = r[1] /\ p[2] = r[2]
      BY <1>4, <2>1
    <2> QED
      BY <1>3, <2>2, Zenon
  <1>7. ASSUME NEW X \in TrianglesOf(a)
        PROVE  \E p \in S : f[p] = X
    <2>1. Triangle(X) /\ T!Min(X) = a
      BY DEF TrianglesOf
    <2>2. PICK x, y, z \in Nodes : X = {x, y, z} /\ x < y /\ y < z
      BY <2>1, TriangleInOrder
    <2>3. x \in Int /\ y \in Int /\ z \in Int
      BY TriangleNodes
    <2>4. x = a
      BY <2>1, <2>2, <2>3, ThreeNumbers
    <2>5. Joined(x, y) /\ Joined(x, z) /\ Joined(y, z)
      BY <2>1, <2>2, <2>3 DEF Triangle
    <2>6. <<y, z>> \in S
      BY <1>2, <2>2, <2>4, <2>5
    <2>7. f[<<y, z>>] = {a, y, z}
      BY <2>6
    <2> QED
      BY <2>2, <2>4, <2>6, <2>7
  <1>8. f \in Bijection(S, TrianglesOf(a))
    <2>1. f \in [S -> TrianglesOf(a)]
      BY <1>5
    <2> HIDE DEF f
    <2>2. f \in Injection(S, TrianglesOf(a))
      BY <1>6, <2>1 DEF Injection, IsInjective
    <2>3. f \in Surjection(S, TrianglesOf(a))
      BY <1>7, <2>1 DEF Surjection
    <2> QED
      BY <2>2, <2>3 DEF Bijection
  <1> QED
    BY <1>1, <1>8, FS_Bijection DEF ExistsBijection, S

LEMMA CountedIsTheSet ==
  Counted = {X \in T!kSubset(3, Nodes) :
               /\ \A a, b \in X : a # b => <<a, b>> \in data \/ <<b, a>> \in data
               /\ T!Min(X) \notin todo}
PROOF
  <1>1. T!kSubset(3, Nodes) = {X \in SUBSET Nodes : Cardinality(X) = 3}
    BY Zenon DEF T!kSubset, T!Cardinality, Cardinality
  <1> QED
    BY <1>1 DEF Counted, Triangle, Joined

LEMMA CountInitInv == T!Init => CountInv
PROOF
  <1> SUFFICES ASSUME T!Init PROVE CountInv
    OBVIOUS
  <1>1. T!TypeOK /\ count = 0
    BY DEF T!Init, T!TypeOK
  <1>2. Counted = {}
    <2> SUFFICES ASSUME NEW X, Triangle(X) PROVE T!Min(X) \in todo
      BY DEF Counted
    <2>1. PICK x, y, z \in Nodes : X = {x, y, z} /\ x < y /\ y < z
      BY <1>1, TriangleInOrder
    <2>2. x \in Int /\ y \in Int /\ z \in Int
      BY <1>1, TriangleNodes
    <2>3. T!Min(X) = x /\ Joined(y, x) /\ x # y
      BY <2>1, <2>2, ThreeNumbers DEF Triangle
    <2>4. x \in T!Present
      BY <1>1, <2>3, TriangleNodes
    <2> QED
      BY <2>3, <2>4 DEF T!Init
  <1> QED
    BY <1>1, <1>2, FS_EmptySet DEF CountInv

LEMMA CountVisitInv ==
  ASSUME CountInv, NEW a \in Nodes, T!Visit(a)
  PROVE  CountInv'
PROOF
  <1>1. /\ T!TypeOK /\ IsFiniteSet(Counted) /\ count = Cardinality(Counted)
        /\ a \in todo /\ todo' = todo \ {a} /\ data' = data
        /\ count' = count + T!Cardinality(T!TrianglesFrom(a))
    BY DEF CountInv, T!Visit
  <1>2. T!Cardinality(T!TrianglesFrom(a)) = Cardinality(T!TrianglesFrom(a))
    BY Zenon DEF T!Cardinality, Cardinality
  <1>3. \A X : Triangle(X)' = Triangle(X)
    BY <1>1 DEF Triangle, Joined
  <1>4. Counted' = Counted \cup TrianglesOf(a) /\ Counted \cap TrianglesOf(a) = {}
    <2>1. Counted' = {X \in SUBSET Nodes : Triangle(X) /\ T!Min(X) \notin todo'}
      BY <1>3 DEF Counted
    <2> QED
      BY <1>1, <2>1 DEF Counted, TrianglesOf
  <1>5. /\ IsFiniteSet(TrianglesOf(a))
        /\ Cardinality(TrianglesOf(a)) = Cardinality(T!TrianglesFrom(a))
    BY <1>1, LoopsMeetThemOnce
  <1>6. /\ IsFiniteSet(Counted')
        /\ Cardinality(Counted') = Cardinality(Counted) + Cardinality(TrianglesOf(a))
    <2>1. /\ IsFiniteSet(Counted \cup TrianglesOf(a))
          /\ Cardinality(Counted \cup TrianglesOf(a)) =
               Cardinality(Counted) + Cardinality(TrianglesOf(a))
                 - Cardinality(Counted \cap TrianglesOf(a))
      BY <1>1, <1>5, FS_Union
    <2>2. Cardinality(Counted) \in Nat /\ Cardinality(TrianglesOf(a)) \in Nat
      BY <1>1, <1>5, FS_CardinalityType
    <2> QED
      BY <1>4, <2>1, <2>2, FS_EmptySet
  <1>7. count' = Cardinality(Counted') /\ count' \in Nat
    BY <1>1, <1>2, <1>5, <1>6, FS_CardinalityType
  <1>8. T!TypeOK'
    <2>1. T!Present' = T!Present
      BY <1>1 DEF T!Present, T!Adjacency
    <2> QED
      BY <1>1, <1>7, <2>1 DEF T!TypeOK
  <1> QED
    BY <1>6, <1>7, <1>8 DEF CountInv

CountRun == plugin = "triangle_count" => CountInv

\* The invariant holds for every finite graph.
THEOREM CountInvariance == Spec => []CountRun
PROOF
  <1>1. Init => CountRun
    BY PluginBegins, CountInitInv DEF CountRun
  <1>2. CountRun /\ [Next]_vars => CountRun'
    <2> SUFFICES ASSUME CountInv, [T!Next]_(T!vars)
                 PROVE  CountInv'
      BY PluginRuns DEF CountRun
    <2>1. CASE UNCHANGED T!vars
      <3>1. UNCHANGED <<data, todo, count>>
        BY <2>1 DEF T!vars
      <3> QED
        BY <3>1 DEF CountInv, T!TypeOK, T!Present, T!Adjacency, Counted, Triangle, Joined
    <2>2. CASE T!Next
      BY <2>2, CountVisitInv DEF T!Next
    <2> QED
      BY <2>1, <2>2
  <1> QED
    BY <1>1, <1>2, PTL DEF Spec

\* Every triangle is counted once, however its edges are directed or repeated.
THEOREM EveryTriangleOnce == Spec => []TrianglesAreCountedOnce
PROOF
  <1>1. CountRun => TrianglesAreCountedOnce
    <2> SUFFICES ASSUME CountInv PROVE T!TrianglesAreCountedOnce
      BY DEF CountRun, TrianglesAreCountedOnce
    <2>1. count = Cardinality(Counted)
      BY DEF CountInv
    <2>2. T!Cardinality(Counted) = Cardinality(Counted)
      BY Zenon DEF T!Cardinality, Cardinality
    <2> QED
      BY <2>1, <2>2, CountedIsTheSet, Zenon DEF T!TrianglesAreCountedOnce
  <1> QED
    BY <1>1, CountInvariance, PTL

-----------------------------------------------------------------------------
(* Sums.  SumFunction adds up the values of a function in an order that is *)
(* not said; here is what may be known of it.                              *)

\* Induction over finite sets: of a family of them that is not empty, some
\* member loses its membership with any element it loses.
LEMMA SmallestSet ==
  ASSUME NEW Family, Family # {}, \A s \in Family : IsFiniteSet(s)
  PROVE  \E s \in Family : \A x \in s : s \ {x} \notin Family
PROOF
  <1> DEFINE sizes == {Cardinality(s) : s \in Family}
  <1>1. sizes \subseteq Nat /\ sizes # {}
    BY FS_CardinalityType
  <1>2. PICK m \in sizes : \A n \in sizes : m <= n
    BY <1>1, LeastNatural
  <1>3. PICK s \in Family : Cardinality(s) = m
    BY <1>2
  <1>4. ASSUME NEW x \in s, s \ {x} \in Family
        PROVE  FALSE
    <2>1. Cardinality(s \ {x}) = m - 1
      BY <1>3, FS_RemoveElement
    <2>2. m <= Cardinality(s \ {x}) /\ m \in Nat
      BY <1>1, <1>2, <1>4
    <2> QED
      BY <2>1, <2>2
  <1> QED
    BY <1>3, <1>4

\* What SumFunction chooses: g has the sums of f over all subsets of S.
Pick(s) == CHOOSE x \in s : TRUE

Adds(f, S, g) ==
  g = [s \in SUBSET S |-> IF s = {} THEN 0 ELSE f[Pick(s)] + g[s \ {Pick(s)}]]

LEMMA SumIsChosen == \A f, S : SumFunctionOnSet(f, S) = (CHOOSE g : Adds(f, S, g))[S]
BY Zenon DEF SumFunctionOnSet, FoldFunctionOnSet, MapThenFoldSet, Adds, Pick

LEMMA AddsValue ==
  ASSUME NEW f, NEW S, NEW g, Adds(f, S, g), NEW s \in SUBSET S
  PROVE  g[s] = IF s = {} THEN 0 ELSE f[Pick(s)] + g[s \ {Pick(s)}]
BY Zenon DEF Adds

LEMMA PickIsIn == \A s : s # {} => Pick(s) \in s
BY DEF Pick

LEMMA AddsAgree ==
  ASSUME NEW f, NEW S, NEW g, Adds(f, S, g), NEW U, NEW h, Adds(f, U, h),
         NEW s \in SUBSET (S \cap U), IsFiniteSet(s)
  PROVE  g[s] = h[s]
PROOF
  <1> DEFINE Family == {t \in SUBSET s : g[t] # h[t]}
  <1>1. SUFFICES ASSUME Family # {} PROVE FALSE
    OBVIOUS
  <1>2. \A t \in Family : IsFiniteSet(t)
    BY FS_Subset
  <1>3. PICK t \in Family : \A x \in t : t \ {x} \notin Family
    <2> HIDE DEF Family
    <2> QED
      BY <1>1, <1>2, SmallestSet
  <1>4. t \in SUBSET S /\ t \in SUBSET U
    OBVIOUS
  <1>5. CASE t = {}
    BY <1>3, <1>4, <1>5, AddsValue
  <1>6. CASE t # {}
    <2> DEFINE r == t \ {Pick(t)}
    <2>1. Pick(t) \in t
      BY <1>6, PickIsIn
    <2>2. g[r] = h[r]
      BY <1>3, <2>1
    <2>3. g[t] = f[Pick(t)] + g[r] /\ h[t] = f[Pick(t)] + h[r]
      BY <1>4, <1>6, AddsValue
    <2> QED
      BY <1>3, <2>2, <2>3
  <1> QED
    BY <1>5, <1>6

\* Sums over the subsets of a smaller set are sums.
LEMMA AddsWithin ==
  ASSUME NEW f, NEW S, NEW g, Adds(f, S, g), NEW U \in SUBSET S
  PROVE  Adds(f, U, [s \in SUBSET U |-> g[s]])
PROOF
  <1> DEFINE h == [s \in SUBSET U |-> g[s]]
  <1>1. ASSUME NEW s \in SUBSET U
        PROVE  h[s] = IF s = {} THEN 0 ELSE f[Pick(s)] + h[s \ {Pick(s)}]
    <2>1. s \in SUBSET S /\ s \ {Pick(s)} \in SUBSET U
      OBVIOUS
    <2>2. g[s] = IF s = {} THEN 0 ELSE f[Pick(s)] + g[s \ {Pick(s)}]
      BY <2>1, AddsValue
    <2> QED
      BY <2>1, <2>2
  <1>2. h = [s \in SUBSET U |-> IF s = {} THEN 0 ELSE f[Pick(s)] + h[s \ {Pick(s)}]]
    BY <1>1
  <1> QED
    BY <1>2 DEF Adds

LEMMA AddsExists ==
  ASSUME NEW f, NEW S, IsFiniteSet(S)
  PROVE  \E g : Adds(f, S, g)
PROOF
  <1> DEFINE Family == {s \in SUBSET S : ~ \E g : Adds(f, s, g)}
  <1>1. SUFFICES ASSUME Family # {} PROVE FALSE
    OBVIOUS
  <1>2. \A s \in Family : IsFiniteSet(s)
    BY FS_Subset
  <1>3. PICK s \in Family : \A x \in s : s \ {x} \notin Family
    <2> HIDE DEF Family
    <2> QED
      BY <1>1, <1>2, SmallestSet
  <1>4. \A x \in s : \E g : Adds(f, s \ {x}, g)
    BY <1>3
  <1> DEFINE G(r) == CHOOSE g : Adds(f, r, g)
             whole == IF s = {} THEN 0 ELSE f[Pick(s)] + G(s \ {Pick(s)})[s \ {Pick(s)}]
             h == [r \in SUBSET s |-> IF r = s THEN whole ELSE G(r)[r]]
  <1>5. ASSUME NEW r \in SUBSET s, r # s
        PROVE  Adds(f, r, G(r)) /\ IsFiniteSet(r)
    <2>1. PICK x \in s : r \subseteq s \ {x}
      BY <1>5
    <2>2. PICK g : Adds(f, s \ {x}, g)
      BY <1>4
    <2>3. \E e : Adds(f, r, e)
      BY <2>1, <2>2, AddsWithin
    <2>4. Adds(f, r, G(r))
      BY <2>3
    <2> QED
      BY <2>4, FS_Subset
  <1>6. ASSUME NEW r \in SUBSET s
        PROVE  h[r] = IF r = {} THEN 0 ELSE f[Pick(r)] + h[r \ {Pick(r)}]
    <2>1. CASE r = s
      <3>1. CASE s = {}
        BY <2>1, <3>1
      <3>2. CASE s # {}
        <4>1. s \ {Pick(s)} # s /\ s \ {Pick(s)} \in SUBSET s
          BY <3>2, PickIsIn
        <4> QED
          BY <2>1, <3>2, <4>1
      <3> QED
        BY <3>1, <3>2
    <2>2. CASE r # s
      <3> DEFINE q == r \ {Pick(r)}
      <3>1. q \in SUBSET s /\ q # s /\ q \in SUBSET r /\ r \in SUBSET r
        BY <2>2
      <3>2. Adds(f, r, G(r)) /\ Adds(f, q, G(q)) /\ IsFiniteSet(q)
        BY <1>5, <2>2, <3>1
      <3> HIDE DEF G
      <3>3. G(r)[r] = IF r = {} THEN 0 ELSE f[Pick(r)] + G(r)[q]
        BY <3>1, <3>2, AddsValue
      <3>4. G(r)[q] = G(q)[q]
        BY <3>1, <3>2, AddsAgree
      <3> QED
        BY <2>2, <3>1, <3>3, <3>4
    <2> QED
      BY <2>1, <2>2
  <1>7. h = [r \in SUBSET s |-> IF r = {} THEN 0 ELSE f[Pick(r)] + h[r \ {Pick(r)}]]
    <2> HIDE DEF whole, G
    <2>1. h = [r \in SUBSET s |-> h[r]]
      OBVIOUS
    <2> HIDE DEF h
    <2> QED
      BY <1>6, <2>1
  <1>8. Adds(f, s, h)
    BY <1>7 DEF Adds
  <1> QED
    BY <1>3, <1>8

\* The two equations of a sum.
LEMMA SumEmpty == \A f : SumFunctionOnSet(f, {}) = 0
PROOF
  <1> SUFFICES ASSUME NEW f PROVE SumFunctionOnSet(f, {}) = 0
    OBVIOUS
  <1> DEFINE g == CHOOSE g : Adds(f, {}, g)
  <1>1. Adds(f, {}, g)
    BY AddsExists, FS_EmptySet
  <1>2. SumFunctionOnSet(f, {}) = g[{}]
    BY SumIsChosen
  <1> HIDE DEF g
  <1> QED
    BY <1>1, <1>2, AddsValue

LEMMA SumPick ==
  ASSUME NEW f, NEW S, IsFiniteSet(S), S # {}
  PROVE  SumFunctionOnSet(f, S) = f[Pick(S)] + SumFunctionOnSet(f, S \ {Pick(S)})
PROOF
  <1> DEFINE r == S \ {Pick(S)}
             g == CHOOSE g : Adds(f, S, g)
             h == CHOOSE h : Adds(f, r, h)
  <1>1. Pick(S) \in S
    BY PickIsIn
  <1>2. IsFiniteSet(r) /\ r \in SUBSET S /\ r \in SUBSET r
    BY FS_Subset
  <1>3. Adds(f, S, g) /\ Adds(f, r, h)
    BY <1>2, AddsExists
  <1>4. SumFunctionOnSet(f, S) = g[S] /\ SumFunctionOnSet(f, r) = h[r]
    BY SumIsChosen
  <1> HIDE DEF g, h
  <1>5. g[S] = f[Pick(S)] + g[r]
    BY <1>3, AddsValue
  <1>6. g[r] = h[r]
    BY <1>2, <1>3, AddsAgree
  <1> QED
    BY <1>4, <1>5, <1>6

\* A sum of integers is one.
LEMMA SumInt ==
  ASSUME NEW f, NEW S, IsFiniteSet(S), \A x \in S : f[x] \in Int
  PROVE  SumFunctionOnSet(f, S) \in Int
PROOF
  <1> DEFINE Family == {s \in SUBSET S : SumFunctionOnSet(f, s) \notin Int}
  <1>1. SUFFICES ASSUME Family # {} PROVE FALSE
    OBVIOUS
  <1>2. \A s \in Family : IsFiniteSet(s)
    BY FS_Subset
  <1>3. PICK s \in Family : \A x \in s : s \ {x} \notin Family
    <2> HIDE DEF Family
    <2> QED
      BY <1>1, <1>2, SmallestSet
  <1>4. s # {}
    BY <1>3, SumEmpty
  <1>5. Pick(s) \in s /\ f[Pick(s)] \in Int
    BY <1>4, PickIsIn
  <1>6. SumFunctionOnSet(f, s \ {Pick(s)}) \in Int
    BY <1>3, <1>5
  <1>7. SumFunctionOnSet(f, s) = f[Pick(s)] + SumFunctionOnSet(f, s \ {Pick(s)})
    BY <1>2, <1>4, SumPick
  <1> QED
    BY <1>3, <1>5, <1>6, <1>7

\* Any of the numbers may come first.
LEMMA SumRemove ==
  ASSUME NEW f, NEW S, IsFiniteSet(S), \A x \in S : f[x] \in Int, NEW x \in S
  PROVE  SumFunctionOnSet(f, S) = f[x] + SumFunctionOnSet(f, S \ {x})
PROOF
  <1> DEFINE Family == {s \in SUBSET S : \E y \in s :
                          SumFunctionOnSet(f, s) # f[y] + SumFunctionOnSet(f, s \ {y})}
  <1>1. SUFFICES ASSUME Family # {} PROVE FALSE
    OBVIOUS
  <1>2. \A s \in Family : IsFiniteSet(s)
    BY FS_Subset
  <1>3. PICK s \in Family : \A y \in s : s \ {y} \notin Family
    <2> HIDE DEF Family
    <2> QED
      BY <1>1, <1>2, SmallestSet
  <1>4. PICK y \in s : SumFunctionOnSet(f, s) # f[y] + SumFunctionOnSet(f, s \ {y})
    BY <1>3
  <1>5. s # {} /\ s \in SUBSET S /\ IsFiniteSet(s)
    BY <1>2, <1>4
  <1> DEFINE p == Pick(s)
  <1>6. p \in s
    BY <1>5, PickIsIn
  <1>7. SumFunctionOnSet(f, s) = f[p] + SumFunctionOnSet(f, s \ {p})
    BY <1>5, SumPick
  <1>8. p # y
    BY <1>4, <1>7
  <1> HIDE DEF p
  <1>9. SumFunctionOnSet(f, s \ {p}) = f[y] + SumFunctionOnSet(f, (s \ {p}) \ {y})
    BY <1>3, <1>6, <1>8
  <1>10. SumFunctionOnSet(f, s \ {y}) = f[p] + SumFunctionOnSet(f, (s \ {y}) \ {p})
    BY <1>3, <1>4, <1>6, <1>8
  <1>11. (s \ {p}) \ {y} = (s \ {y}) \ {p}
    OBVIOUS
  <1> DEFINE rest == SumFunctionOnSet(f, (s \ {y}) \ {p})
  <1>12. rest \in Int /\ f[p] \in Int /\ f[y] \in Int
    <2>1. IsFiniteSet((s \ {y}) \ {p}) /\ \A z \in (s \ {y}) \ {p} : f[z] \in Int
      BY <1>5, FS_Subset
    <2> QED
      BY <1>5, <1>6, <2>1, SumInt
  <1>13. /\ SumFunctionOnSet(f, s \ {p}) = f[y] + rest
         /\ SumFunctionOnSet(f, s \ {y}) = f[p] + rest
    BY <1>9, <1>10, <1>11
  <1> HIDE DEF rest
  <1> QED
    BY <1>4, <1>7, <1>12, <1>13

LEMMA SumOfInt ==
  ASSUME NEW f, NEW S, IsFiniteSet(S), \A x \in S : f[x] \in Int,
         NEW s \in SUBSET S, s # {}
  PROVE  /\ Pick(s) \in s /\ f[Pick(s)] \in Int /\ IsFiniteSet(s) /\ IsFiniteSet(s \ {Pick(s)})
         /\ SumFunctionOnSet(f, s \ {Pick(s)}) \in Int
         /\ SumFunctionOnSet(f, s) = f[Pick(s)] + SumFunctionOnSet(f, s \ {Pick(s)})
PROOF
  <1>1. Pick(s) \in s /\ f[Pick(s)] \in Int /\ IsFiniteSet(s) /\ IsFiniteSet(s \ {Pick(s)})
    BY PickIsIn, FS_Subset
  <1>2. SumFunctionOnSet(f, s) = f[Pick(s)] + SumFunctionOnSet(f, s \ {Pick(s)})
    BY <1>1, SumPick
  <1>3. SumFunctionOnSet(f, s \ {Pick(s)}) \in Int
    BY <1>1, SumInt
  <1> QED
    BY <1>1, <1>2, <1>3

\* What f is outside of S does not matter.
LEMMA SumSame ==
  ASSUME NEW f, NEW g, NEW S, IsFiniteSet(S), \A x \in S : f[x] = g[x]
  PROVE  SumFunctionOnSet(f, S) = SumFunctionOnSet(g, S)
PROOF
  <1> DEFINE Family == {s \in SUBSET S : ~ (SumFunctionOnSet(f, s) = SumFunctionOnSet(g, s))}
  <1>1. SUFFICES ASSUME Family # {} PROVE FALSE
    OBVIOUS
  <1>2. \A s \in Family : IsFiniteSet(s)
    BY FS_Subset
  <1>3. PICK s \in Family : \A x \in s : s \ {x} \notin Family
    <2> HIDE DEF Family
    <2> QED
      BY <1>1, <1>2, SmallestSet
  <1> DEFINE x == Pick(s)
             r == s \ {x}
  <1>4. s # {}
    BY <1>3, SumEmpty
  <1>5. x \in s /\ f[x] = g[x] /\ IsFiniteSet(s)
    BY <1>2, <1>4, PickIsIn
  <1>6. SumFunctionOnSet(f, r) = SumFunctionOnSet(g, r)
    BY <1>3, <1>5
  <1>7. /\ SumFunctionOnSet(f, s) = f[x] + SumFunctionOnSet(f, r)
        /\ SumFunctionOnSet(g, s) = g[x] + SumFunctionOnSet(g, r)
    BY <1>4, <1>5, SumPick
  <1> QED
    BY <1>3, <1>5, <1>6, <1>7

\* Sums are linear.
LEMMA SumAdd ==
  ASSUME NEW f, NEW g, NEW h, NEW S, IsFiniteSet(S),
         \A x \in S : f[x] \in Int /\ g[x] \in Int /\ h[x] = f[x] + g[x]
  PROVE  SumFunctionOnSet(h, S) = SumFunctionOnSet(f, S) + SumFunctionOnSet(g, S)
PROOF
  <1> DEFINE Family == {s \in SUBSET S : ~ (SumFunctionOnSet(h, s) = SumFunctionOnSet(f, s) + SumFunctionOnSet(g, s))}
  <1>1. SUFFICES ASSUME Family # {} PROVE FALSE
    OBVIOUS
  <1>2. \A s \in Family : IsFiniteSet(s)
    BY FS_Subset
  <1>3. PICK s \in Family : \A x \in s : s \ {x} \notin Family
    <2> HIDE DEF Family
    <2> QED
      BY <1>1, <1>2, SmallestSet
  <1> DEFINE x == Pick(s)
             r == s \ {x}
  <1>4. s # {}
    <2> SUFFICES ASSUME s = {} PROVE FALSE
      OBVIOUS
    <2>1. SumFunctionOnSet(h, s) # SumFunctionOnSet(f, s) + SumFunctionOnSet(g, s)
      BY <1>3
    <2>2. /\ SumFunctionOnSet(h, s) = 0 /\ SumFunctionOnSet(f, s) = 0
          /\ SumFunctionOnSet(g, s) = 0
      BY SumEmpty
    <2> QED
      BY <2>1, <2>2
  <1>5. x \in s
    BY <1>4, PickIsIn
  <1>6. SumFunctionOnSet(h, r) = SumFunctionOnSet(f, r) + SumFunctionOnSet(g, r)
    BY <1>3, <1>5
  <1>7. /\ f[x] \in Int /\ SumFunctionOnSet(f, r) \in Int
        /\ SumFunctionOnSet(f, s) = f[x] + SumFunctionOnSet(f, r)
    BY <1>4, SumOfInt
  <1>8. /\ g[x] \in Int /\ SumFunctionOnSet(g, r) \in Int
        /\ SumFunctionOnSet(g, s) = g[x] + SumFunctionOnSet(g, r)
    BY <1>4, SumOfInt
  <1>9. SumFunctionOnSet(h, s) = h[x] + SumFunctionOnSet(h, r)
    BY <1>2, <1>4, SumPick
  <1>10. h[x] = f[x] + g[x]
    BY <1>5
  <1>11. SumFunctionOnSet(h, s) # SumFunctionOnSet(f, s) + SumFunctionOnSet(g, s)
    BY <1>3
  <1> HIDE DEF x, r
  <1> QED
    BY <1>6, <1>7, <1>8, <1>9, <1>10, <1>11

\* A common factor.
LEMMA SumTimes ==
  ASSUME NEW f, NEW h, NEW c \in Int, NEW S, IsFiniteSet(S),
         \A x \in S : f[x] \in Int /\ h[x] = c * f[x]
  PROVE  SumFunctionOnSet(h, S) = c * SumFunctionOnSet(f, S)
PROOF
  <1> DEFINE Family == {s \in SUBSET S : ~ (SumFunctionOnSet(h, s) = c * SumFunctionOnSet(f, s))}
  <1>1. SUFFICES ASSUME Family # {} PROVE FALSE
    OBVIOUS
  <1>2. \A s \in Family : IsFiniteSet(s)
    BY FS_Subset
  <1>3. PICK s \in Family : \A x \in s : s \ {x} \notin Family
    <2> HIDE DEF Family
    <2> QED
      BY <1>1, <1>2, SmallestSet
  <1> DEFINE x == Pick(s)
             r == s \ {x}
  <1>4. s # {}
    <2>1. c * 0 = 0
      OBVIOUS
    <2> QED
      BY <1>3, <2>1, SumEmpty
  <1>5. x \in s
    BY <1>4, PickIsIn
  <1>6. SumFunctionOnSet(h, r) = c * SumFunctionOnSet(f, r)
    BY <1>3, <1>5
  <1>7. /\ f[x] \in Int /\ SumFunctionOnSet(f, r) \in Int
        /\ SumFunctionOnSet(f, s) = f[x] + SumFunctionOnSet(f, r)
    BY <1>4, SumOfInt
  <1>8. SumFunctionOnSet(h, s) = h[x] + SumFunctionOnSet(h, r)
    BY <1>2, <1>4, SumPick
  <1>9. h[x] = c * f[x]
    BY <1>5
  <1>10. SumFunctionOnSet(h, s) # c * SumFunctionOnSet(f, s)
    BY <1>3
  <1> HIDE DEF x, r
  <1>11. \A a, b \in Int : c * (a + b) = c * a + c * b
    OBVIOUS
  <1> QED
    BY <1>6, <1>7, <1>8, <1>9, <1>10, <1>11

\* Equal numbers.
LEMMA SumConstant ==
  ASSUME NEW f, NEW c \in Int, NEW S, IsFiniteSet(S), \A x \in S : f[x] = c
  PROVE  SumFunctionOnSet(f, S) = Cardinality(S) * c
PROOF
  <1> DEFINE Family == {s \in SUBSET S : ~ (SumFunctionOnSet(f, s) = Cardinality(s) * c)}
  <1>1. SUFFICES ASSUME Family # {} PROVE FALSE
    OBVIOUS
  <1>2. \A s \in Family : IsFiniteSet(s)
    BY FS_Subset
  <1>3. PICK s \in Family : \A x \in s : s \ {x} \notin Family
    <2> HIDE DEF Family
    <2> QED
      BY <1>1, <1>2, SmallestSet
  <1> DEFINE x == Pick(s)
             r == s \ {x}
  <1>4. s # {}
    <2>1. 0 * c = 0
      OBVIOUS
    <2> QED
      BY <1>3, <2>1, SumEmpty, FS_EmptySet
  <1>5. x \in s /\ IsFiniteSet(s)
    BY <1>2, <1>4, PickIsIn
  <1>6. SumFunctionOnSet(f, r) = Cardinality(r) * c
    BY <1>3, <1>5
  <1>7. SumFunctionOnSet(f, s) = c + SumFunctionOnSet(f, r)
    BY <1>4, <1>5, SumPick
  <1>8. Cardinality(s) \in Nat /\ Cardinality(r) = Cardinality(s) - 1
    BY <1>5, FS_CardinalityType, FS_RemoveElement
  <1>9. SumFunctionOnSet(f, s) # Cardinality(s) * c
    BY <1>3
  <1> HIDE DEF x, r
  <1>10. \A n \in Nat : c + (n - 1) * c = n * c
    OBVIOUS
  <1> QED
    BY <1>6, <1>7, <1>8, <1>9, <1>10

\* Larger numbers have a larger sum.
LEMMA SumAtMost ==
  ASSUME NEW f, NEW g, NEW S, IsFiniteSet(S),
         \A x \in S : f[x] \in Int /\ g[x] \in Int /\ f[x] <= g[x]
  PROVE  SumFunctionOnSet(f, S) <= SumFunctionOnSet(g, S)
PROOF
  <1> DEFINE Family == {s \in SUBSET S : ~ (SumFunctionOnSet(f, s) <= SumFunctionOnSet(g, s))}
  <1>1. SUFFICES ASSUME Family # {} PROVE FALSE
    OBVIOUS
  <1>2. \A s \in Family : IsFiniteSet(s)
    BY FS_Subset
  <1>3. PICK s \in Family : \A x \in s : s \ {x} \notin Family
    <2> HIDE DEF Family
    <2> QED
      BY <1>1, <1>2, SmallestSet
  <1> DEFINE x == Pick(s)
             r == s \ {x}
  <1>4. s # {}
    BY <1>3, SumEmpty
  <1>5. x \in s
    BY <1>4, PickIsIn
  <1>6. SumFunctionOnSet(f, r) <= SumFunctionOnSet(g, r)
    BY <1>3, <1>5
  <1>7. /\ f[x] \in Int /\ SumFunctionOnSet(f, r) \in Int
        /\ SumFunctionOnSet(f, s) = f[x] + SumFunctionOnSet(f, r)
    BY <1>4, SumOfInt
  <1>8. /\ g[x] \in Int /\ SumFunctionOnSet(g, r) \in Int
        /\ SumFunctionOnSet(g, s) = g[x] + SumFunctionOnSet(g, r)
    BY <1>4, SumOfInt
  <1>9. f[x] <= g[x]
    BY <1>5
  <1>10. ~ (SumFunctionOnSet(f, s) <= SumFunctionOnSet(g, s))
    BY <1>3
  <1> HIDE DEF x, r
  <1> QED
    BY <1>6, <1>7, <1>8, <1>9, <1>10

LEMMA SumNat ==
  ASSUME NEW f, NEW S, IsFiniteSet(S), \A x \in S : f[x] \in Nat
  PROVE  SumFunctionOnSet(f, S) \in Nat
PROOF
  <1> DEFINE zero == [x \in S |-> 0]
  <1>1. SumFunctionOnSet(zero, S) = Cardinality(S) * 0 /\ Cardinality(S) \in Nat
    <2>1. \A x \in S : zero[x] = 0
      OBVIOUS
    <2> HIDE DEF zero
    <2> QED
      BY <2>1, SumConstant, FS_CardinalityType
  <1>2. SumFunctionOnSet(zero, S) <= SumFunctionOnSet(f, S)
    <2>1. \A x \in S : zero[x] \in Int /\ f[x] \in Int /\ zero[x] <= f[x]
      OBVIOUS
    <2> HIDE DEF zero
    <2> QED
      BY <2>1, SumAtMost
  <1>3. SumFunctionOnSet(f, S) \in Int
    BY SumInt
  <1> HIDE DEF zero
  <1>4. Cardinality(S) * 0 = 0
    BY <1>1
  <1> QED
    BY <1>1, <1>2, <1>3, <1>4

\* The sum over two sets without a common member.
LEMMA SumUnion ==
  ASSUME NEW f, NEW S, IsFiniteSet(S), NEW U, IsFiniteSet(U), S \cap U = {},
         \A x \in S \cup U : f[x] \in Int
  PROVE  SumFunctionOnSet(f, S \cup U) = SumFunctionOnSet(f, S) + SumFunctionOnSet(f, U)
PROOF
  <1> DEFINE Family == {s \in SUBSET S : ~ (SumFunctionOnSet(f, s \cup U) = SumFunctionOnSet(f, s) + SumFunctionOnSet(f, U))}
  <1>1. SUFFICES ASSUME Family # {} PROVE FALSE
    OBVIOUS
  <1>2. \A s \in Family : IsFiniteSet(s)
    BY FS_Subset
  <1>3. PICK s \in Family : \A x \in s : s \ {x} \notin Family
    <2> HIDE DEF Family
    <2> QED
      BY <1>1, <1>2, SmallestSet
  <1> DEFINE x == Pick(s)
             r == s \ {x}
  <1>4. SumFunctionOnSet(f, U) \in Int
    BY SumInt
  <1>5. s # {}
    <2>1. {} \cup U = U
      OBVIOUS
    <2> QED
      BY <1>3, <1>4, <2>1, SumEmpty
  <1>6. x \in s /\ x \notin U
    BY <1>5, PickIsIn
  <1>7. SumFunctionOnSet(f, r \cup U) = SumFunctionOnSet(f, r) + SumFunctionOnSet(f, U)
    BY <1>3, <1>6
  <1>8. /\ f[x] \in Int /\ SumFunctionOnSet(f, r) \in Int
        /\ SumFunctionOnSet(f, s) = f[x] + SumFunctionOnSet(f, r)
    BY <1>5, SumOfInt
  <1>9. SumFunctionOnSet(f, s \cup U) = f[x] + SumFunctionOnSet(f, (s \cup U) \ {x})
    <2>1. IsFiniteSet(s \cup U) /\ x \in s \cup U /\ \A y \in s \cup U : f[y] \in Int
      BY <1>2, <1>6, FS_Union
    <2> HIDE DEF x
    <2> QED
      BY <2>1, SumRemove
  <1>10. (s \cup U) \ {x} = r \cup U
    BY <1>6
  <1>11. SumFunctionOnSet(f, s \cup U) # SumFunctionOnSet(f, s) + SumFunctionOnSet(f, U)
    BY <1>3
  <1>12. SumFunctionOnSet(f, s \cup U) = f[x] + SumFunctionOnSet(f, r \cup U)
    BY <1>9, <1>10
  <1> HIDE DEF x, r
  <1> QED
    BY <1>4, <1>7, <1>8, <1>11, <1>12

\* The sum over what different members are mapped to.
LEMMA SumMap ==
  ASSUME NEW f, NEW g, NEW h, NEW S, IsFiniteSet(S),
         \A x, y \in S : h[x] = h[y] => x = y,
         \A x \in S : f[x] \in Int /\ g[h[x]] = f[x]
  PROVE  SumFunctionOnSet(g, {h[x] : x \in S}) = SumFunctionOnSet(f, S)
PROOF
  <1> DEFINE image(s) == {h[x] : x \in s}
             Family == {s \in SUBSET S : ~ (SumFunctionOnSet(g, image(s)) = SumFunctionOnSet(f, s))}
  <1>1. SUFFICES ASSUME Family # {} PROVE FALSE
    OBVIOUS
  <1>2. \A s \in Family : IsFiniteSet(s)
    BY FS_Subset
  <1>3. PICK s \in Family : \A x \in s : s \ {x} \notin Family
    <2> HIDE DEF Family
    <2> QED
      BY <1>1, <1>2, SmallestSet
  <1> DEFINE x == Pick(s)
             r == s \ {x}
  <1>4. s # {}
    <2>1. image({}) = {}
      OBVIOUS
    <2> QED
      BY <1>3, <2>1, SumEmpty
  <1>5. x \in s /\ s \subseteq S
    BY <1>3, <1>4, PickIsIn
  <1>6. SumFunctionOnSet(g, image(r)) = SumFunctionOnSet(f, r)
    BY <1>3, <1>5
  <1>7. SumFunctionOnSet(f, s) = f[x] + SumFunctionOnSet(f, r)
    BY <1>4, <1>5, SumOfInt
  <1>8. IsFiniteSet(image(s)) /\ h[x] \in image(s) /\ \A y \in image(s) : g[y] \in Int
    <2>1. [y \in s |-> h[y]] \in Surjection(s, image(s))
      BY DEF Surjection
    <2>2. IsFiniteSet(image(s))
      BY <1>2, <2>1, FS_Surjection DEF ExistsSurjection
    <2> QED
      BY <1>5, <2>2
  <1>9. image(s) \ {h[x]} = image(r)
    <2> HIDE DEF x
    <2> QED
      BY <1>5
  <1>10. SumFunctionOnSet(g, image(s)) = g[h[x]] + SumFunctionOnSet(g, image(s) \ {h[x]})
    <2> HIDE DEF image, x
    <2> QED
      BY <1>8, SumRemove
  <1>11. g[h[x]] = f[x]
    BY <1>5
  <1>12. ~ (SumFunctionOnSet(g, image(s)) = SumFunctionOnSet(f, s))
    BY <1>3
  <1> HIDE DEF x, r, image
  <1> QED
    BY <1>6, <1>7, <1>9, <1>10, <1>11, <1>12

\* Rows first or columns first.
LEMMA SumSwap ==
  ASSUME NEW S, NEW U, IsFiniteSet(S), IsFiniteSet(U), NEW m \in [S -> [U -> Int]]
  PROVE  SumFunctionOnSet([a \in S |-> SumFunctionOnSet(m[a], U)], S)
           = SumFunctionOnSet([b \in U |-> SumFunctionOnSet([a \in S |-> m[a][b]], S)], U)
PROOF
  <1> DEFINE Family == {s \in SUBSET S : ~ (SumFunctionOnSet([a \in S |-> SumFunctionOnSet(m[a], U)], s)
                = SumFunctionOnSet([b \in U |-> SumFunctionOnSet([a \in S |-> m[a][b]], s)], U))}
  <1>1. SUFFICES ASSUME Family # {} PROVE FALSE
    OBVIOUS
  <1>2. \A s \in Family : IsFiniteSet(s)
    BY FS_Subset
  <1>3. PICK s \in Family : \A x \in s : s \ {x} \notin Family
    <2> HIDE DEF Family
    <2> QED
      BY <1>1, <1>2, SmallestSet
  <1> DEFINE x == Pick(s)
             r == s \ {x}
             rows == [a \in S |-> SumFunctionOnSet(m[a], U)]
             columns(q) == [b \in U |-> SumFunctionOnSet([a \in S |-> m[a][b]], q)]
  <1>4. \A q \in SUBSET S : \A b \in U : columns(q)[b] \in Int
    <2> SUFFICES ASSUME NEW q \in SUBSET S, NEW b \in U PROVE columns(q)[b] \in Int
      OBVIOUS
    <2> DEFINE column == [a \in S |-> m[a][b]]
    <2>1. IsFiniteSet(q) /\ \A a \in q : column[a] \in Int
      BY FS_Subset
    <2>2. SumFunctionOnSet(column, q) \in Int
      <3> HIDE DEF column
      <3> QED
        BY <2>1, SumInt
    <2> QED
      BY <2>2
  <1>5. \A a \in S : rows[a] \in Int
    <2> SUFFICES ASSUME NEW a \in S PROVE rows[a] \in Int
      OBVIOUS
    <2>1. \A b \in U : m[a][b] \in Int
      OBVIOUS
    <2> QED
      BY <2>1, SumInt
  <1>6. s # {}
    <2>1. \A b \in U : columns({})[b] = 0
      BY SumEmpty
    <2>2. SumFunctionOnSet(columns({}), U) = Cardinality(U) * 0 /\ Cardinality(U) \in Nat
      <3> DEFINE c == columns({})
      <3>1. \A b \in U : c[b] = 0
        BY <2>1
      <3> HIDE DEF c
      <3>2. SumFunctionOnSet(c, U) = Cardinality(U) * 0 /\ Cardinality(U) \in Nat
        BY <3>1, SumConstant, FS_CardinalityType
      <3> QED
        BY <3>2 DEF c
    <2>3. Cardinality(U) * 0 = 0
      BY <2>2
    <2>4. SumFunctionOnSet(rows, {}) = 0
      BY SumEmpty
    <2>5. SumFunctionOnSet(rows, s) # SumFunctionOnSet(columns(s), U)
      BY <1>3
    <2> QED
      BY <2>2, <2>3, <2>4, <2>5
  <1>7. x \in s /\ x \in S
    BY <1>6, PickIsIn
  <1>8. SumFunctionOnSet(rows, r) = SumFunctionOnSet(columns(r), U)
    BY <1>3, <1>7
  <1>9. SumFunctionOnSet(rows, s) = rows[x] + SumFunctionOnSet(rows, r)
    <2> HIDE DEF rows
    <2> QED
      BY <1>5, <1>6, SumOfInt
  <1>10. \A b \in U : columns(s)[b] = m[x][b] + columns(r)[b]
    <2> SUFFICES ASSUME NEW b \in U PROVE columns(s)[b] = m[x][b] + columns(r)[b]
      OBVIOUS
    <2> DEFINE column == [a \in S |-> m[a][b]]
    <2>1. (\A a \in S : column[a] \in Int) /\ column[x] = m[x][b]
      BY <1>7
    <2>2. SumFunctionOnSet(column, s) = column[x] + SumFunctionOnSet(column, r)
      <3> HIDE DEF column
      <3> QED
        BY <1>6, <2>1, SumOfInt
    <2> QED
      BY <2>1, <2>2
  <1>11. SumFunctionOnSet(columns(s), U) = SumFunctionOnSet(m[x], U) + SumFunctionOnSet(columns(r), U)
    <2> DEFINE whole == columns(s)
               rest == columns(r)
    <2>1. r \in SUBSET S
      OBVIOUS
    <2>2. \A b \in U : m[x][b] \in Int /\ rest[b] \in Int /\ whole[b] = m[x][b] + rest[b]
      BY <1>4, <1>7, <1>10, <2>1
    <2> HIDE DEF whole, rest
    <2>3. SumFunctionOnSet(whole, U) = SumFunctionOnSet(m[x], U) + SumFunctionOnSet(rest, U)
      BY <2>2, SumAdd
    <2> QED
      BY <2>3 DEF whole, rest
  <1>12. rows[x] = SumFunctionOnSet(m[x], U)
    BY <1>7
  <1>13. SumFunctionOnSet(rows, s) # SumFunctionOnSet(columns(s), U)
    BY <1>3
  <1> HIDE DEF x, r, rows, columns
  <1> QED
    BY <1>8, <1>9, <1>11, <1>12, <1>13

\* What numbers become that are passed on along the rows of m.
Passed(S, m, x) == [v \in S |-> SumFunctionOnSet([u \in S |-> x[u] * m[u][v]], S)]

Magnitude(x) == IF x < 0 THEN -x ELSE x

\* Every row of m sums up to c.
RowsAre(S, m, c) == \A u \in S : SumFunctionOnSet(m[u], S) = c

\* How far the numbers are from 0 on the whole.
Norm(S, x) == SumFunctionOnSet([v \in S |-> Magnitude(x[v])], S)

Combines(S, x, y, c, z) == \A u \in S : x[u] = y[u] + c * z[u]

Multiplies(S, x, c, y) == \A u \in S : x[u] = c * y[u] /\ y[u] \in Int

LEMMA PassedTerms ==
  ASSUME NEW S, NEW m \in [S -> [S -> Int]], NEW x \in [S -> Int], NEW v \in S
  PROVE  \A u \in S : [t \in S |-> x[t] * m[t][v]][u] = x[u] * m[u][v] /\ x[u] * m[u][v] \in Int
PROOF
  <1> SUFFICES ASSUME NEW u \in S PROVE x[u] * m[u][v] \in Int
    OBVIOUS
  <1>1. x[u] \in Int /\ m[u][v] \in Int
    OBVIOUS
  <1> QED
    BY <1>1

LEMMA PassedInt ==
  ASSUME NEW S, IsFiniteSet(S), NEW m \in [S -> [S -> Int]], NEW x \in [S -> Int]
  PROVE  Passed(S, m, x) \in [S -> Int]
PROOF
  <1>1. ASSUME NEW v \in S
        PROVE  SumFunctionOnSet([u \in S |-> x[u] * m[u][v]], S) \in Int
    <2> DEFINE f == [u \in S |-> x[u] * m[u][v]]
    <2>1. \A u \in S : f[u] \in Int
      BY PassedTerms
    <2> HIDE DEF f
    <2>2. SumFunctionOnSet(f, S) \in Int
      BY <2>1, SumInt
    <2> QED
      BY <2>2 DEF f
  <1> QED
    BY <1>1 DEF Passed

\* Where every row sums up to c, so do the numbers passed on, c times.
LEMMA PassedSum ==
  ASSUME NEW S, IsFiniteSet(S), NEW m \in [S -> [S -> Int]], NEW x \in [S -> Int],
         NEW c \in Int, RowsAre(S, m, c)
  PROVE  SumFunctionOnSet(Passed(S, m, x), S) = c * SumFunctionOnSet(x, S)
PROOF
  <1> DEFINE w == [u \in S |-> [v \in S |-> x[u] * m[u][v]]]
             rows == [u \in S |-> SumFunctionOnSet(w[u], S)]
  <1>1. w \in [S -> [S -> Int]]
    <2>1. \A u \in S : \A v \in S : x[u] * m[u][v] \in Int
      BY PassedTerms
    <2> QED
      BY <2>1
  <1>2. Passed(S, m, x) = [v \in S |-> SumFunctionOnSet([u \in S |-> w[u][v]], S)]
    <2>1. \A v \in S : [u \in S |-> x[u] * m[u][v]] = [u \in S |-> w[u][v]]
      OBVIOUS
    <2> HIDE DEF w
    <2> QED
      BY <2>1 DEF Passed
  <1>3. ASSUME NEW u \in S
        PROVE  rows[u] = c * x[u]
    <2> DEFINE f == m[u]
               h == w[u]
    <2>1. \A v \in S : f[v] \in Int /\ h[v] = x[u] * f[v]
      OBVIOUS
    <2>2. x[u] \in Int /\ rows[u] = SumFunctionOnSet(h, S) /\ SumFunctionOnSet(f, S) = c
      BY DEF RowsAre
    <2> HIDE DEF f, h, rows, w
    <2>3. SumFunctionOnSet(h, S) = x[u] * SumFunctionOnSet(f, S)
      BY <2>1, <2>2, SumTimes
    <2>4. x[u] * c = c * x[u]
      BY <2>2
    <2> QED
      BY <2>2, <2>3, <2>4
  <1> HIDE DEF w
  <1>4. SumFunctionOnSet(rows, S) = SumFunctionOnSet(Passed(S, m, x), S)
    <2>1. SumFunctionOnSet([u \in S |-> SumFunctionOnSet(w[u], S)], S)
            = SumFunctionOnSet([v \in S |-> SumFunctionOnSet([u \in S |-> w[u][v]], S)], S)
      BY <1>1, SumSwap, Zenon
    <2> QED
      BY <1>2, <2>1
  <1>5. \A u \in S : x[u] \in Int /\ rows[u] = c * x[u]
    BY <1>3
  <1> HIDE DEF rows
  <1>6. SumFunctionOnSet(rows, S) = c * SumFunctionOnSet(x, S)
    BY <1>5, SumTimes
  <1> QED
    BY <1>4, <1>6

\* Passing on is linear.
LEMMA PassedLinear ==
  ASSUME NEW S, IsFiniteSet(S), NEW m \in [S -> [S -> Int]], NEW x \in [S -> Int],
         NEW y \in [S -> Int], NEW z \in [S -> Int], NEW c \in Int,
         Combines(S, x, y, c, z)
  PROVE  Combines(S, Passed(S, m, x), Passed(S, m, y), c, Passed(S, m, z))
PROOF
  <1> SUFFICES ASSUME NEW v \in S
               PROVE  Passed(S, m, x)[v] = Passed(S, m, y)[v] + c * Passed(S, m, z)[v]
    BY DEF Combines
  <1> DEFINE fx == [u \in S |-> x[u] * m[u][v]]
             fy == [u \in S |-> y[u] * m[u][v]]
             fz == [u \in S |-> z[u] * m[u][v]]
             fc == [u \in S |-> c * fz[u]]
  <1>1. ASSUME NEW u \in S
        PROVE  fy[u] \in Int /\ fz[u] \in Int /\ fc[u] = c * fz[u] /\ fc[u] \in Int /\ fx[u] = fy[u] + fc[u]
    <2> DEFINE p == y[u]
               q == z[u]
               r == m[u][v]
    <2>1. p \in Int /\ q \in Int /\ r \in Int /\ x[u] = p + c * q
      BY DEF Combines
    <2>2. fy[u] = p * r /\ fz[u] = q * r /\ fc[u] = c * (q * r) /\ fx[u] = x[u] * r
      OBVIOUS
    <2> HIDE DEF p, q, r, fx, fy, fz, fc
    <2>3. (p + c * q) * r = p * r + c * (q * r)
      BY <2>1
    <2>4. p * r \in Int /\ q * r \in Int /\ c * (q * r) \in Int
      BY <2>1
    <2> QED
      BY <2>1, <2>2, <2>3, <2>4
  <1>2. /\ Passed(S, m, x)[v] = SumFunctionOnSet(fx, S)
        /\ Passed(S, m, y)[v] = SumFunctionOnSet(fy, S)
        /\ Passed(S, m, z)[v] = SumFunctionOnSet(fz, S)
    BY DEF Passed
  <1> HIDE DEF fx, fy, fz, fc
  <1>3. SumFunctionOnSet(fc, S) = c * SumFunctionOnSet(fz, S)
    BY <1>1, SumTimes
  <1>4. SumFunctionOnSet(fx, S) = SumFunctionOnSet(fy, S) + SumFunctionOnSet(fc, S)
    BY <1>1, SumAdd
  <1> QED
    BY <1>2, <1>3, <1>4

\* With rows of natural numbers, numbers do not get larger on the whole.
LEMMA PassedContracts ==
  ASSUME NEW S, IsFiniteSet(S), NEW m \in [S -> [S -> Nat]], NEW x \in [S -> Int],
         NEW c \in Int, RowsAre(S, m, c)
  PROVE  Norm(S, Passed(S, m, x)) <= c * Norm(S, x)
PROOF
  <1> DEFINE a == [u \in S |-> Magnitude(x[u])]
             from == [v \in S |-> Magnitude(Passed(S, m, x)[v])]
             to == Passed(S, m, a)
  <1>1. m \in [S -> [S -> Int]] /\ a \in [S -> Int]
    BY DEF Magnitude
  <1>2. to \in [S -> Int] /\ Passed(S, m, x) \in [S -> Int]
    BY <1>1, PassedInt
  <1>3. ASSUME NEW v \in S
        PROVE  from[v] \in Int /\ to[v] \in Int /\ from[v] <= to[v]
    <2> DEFINE f == [u \in S |-> x[u] * m[u][v]]
               g == [u \in S |-> a[u] * m[u][v]]
               minus == -1
               e == [u \in S |-> minus * f[u]]
    <2>1. ASSUME NEW u \in S
          PROVE  /\ f[u] \in Int /\ g[u] \in Int /\ e[u] = minus * f[u] /\ e[u] \in Int
                 /\ f[u] <= g[u] /\ e[u] <= g[u]
      <3> DEFINE p == x[u]
                 q == m[u][v]
      <3>1. p \in Int /\ q \in Nat /\ f[u] = p * q /\ e[u] = (-1) * (p * q)
        OBVIOUS
      <3>2. g[u] = Magnitude(p) * q
        OBVIOUS
      <3> HIDE DEF p, q, f, g, e
      <3>3. CASE p < 0
        <4>1. g[u] = (-p) * q
          BY <3>2, <3>3 DEF Magnitude
        <4>2. p * q \in Int /\ (-p) * q = (-1) * (p * q) /\ p * q <= 0
          BY <3>1, <3>3
        <4> QED
          BY <3>1, <4>1, <4>2
      <3>4. CASE ~ (p < 0)
        <4>1. g[u] = p * q
          BY <3>2, <3>4 DEF Magnitude
        <4>2. p * q \in Int /\ p * q >= 0
          BY <3>1, <3>4
        <4> QED
          BY <3>1, <4>1, <4>2
      <3> QED
        BY <3>3, <3>4
    <2>2. /\ Passed(S, m, x)[v] = SumFunctionOnSet(f, S)
          /\ to[v] = SumFunctionOnSet(g, S)
          /\ from[v] = Magnitude(Passed(S, m, x)[v])
      BY DEF Passed
    <2> HIDE DEF f, g, e, from, to, a, minus
    <2>3. SumFunctionOnSet(f, S) <= SumFunctionOnSet(g, S)
      BY <2>1, SumAtMost
    <2>4. SumFunctionOnSet(e, S) <= SumFunctionOnSet(g, S)
      BY <2>1, SumAtMost
    <2>5. SumFunctionOnSet(e, S) = minus * SumFunctionOnSet(f, S)
      <3>1. minus \in Int
        BY DEF minus
      <3>2. \A u \in S : f[u] \in Int /\ e[u] = minus * f[u]
        BY <2>1
      <3> QED
        BY <3>1, <3>2, SumTimes
    <2>6. SumFunctionOnSet(f, S) \in Int /\ SumFunctionOnSet(g, S) \in Int
      BY <2>1, SumInt
    <2> QED
      BY <2>2, <2>3, <2>4, <2>5, <2>6 DEF Magnitude, minus
  <1>4. SumFunctionOnSet(to, S) = c * SumFunctionOnSet(a, S)
    <2>1. m \in [S -> [S -> Int]] /\ a \in [S -> Int] /\ c \in Int
      BY <1>1
    <2> HIDE DEF a
    <2> QED
      BY <2>1, PassedSum
  <1> HIDE DEF from, to
  <1>5. SumFunctionOnSet(from, S) <= SumFunctionOnSet(to, S)
    BY <1>3, SumAtMost
  <1> QED
    BY <1>4, <1>5 DEF from, Norm

LEMMA NormNat ==
  ASSUME NEW S, IsFiniteSet(S), NEW x, \A v \in S : x[v] \in Int
  PROVE  Norm(S, x) \in Nat
PROOF
  <1> DEFINE f == [v \in S |-> Magnitude(x[v])]
  <1>1. \A v \in S : f[v] \in Nat
    BY DEF Magnitude
  <1> HIDE DEF f
  <1>2. SumFunctionOnSet(f, S) \in Nat
    BY <1>1, SumNat
  <1> QED
    BY <1>2 DEF Norm, f

LEMMA NormTimes ==
  ASSUME NEW S, IsFiniteSet(S), NEW a \in Nat, NEW x, NEW y,
         Multiplies(S, y, a, x)
  PROVE  Norm(S, y) = a * Norm(S, x) /\ Norm(S, x) \in Nat
PROOF
  <1> DEFINE f == [v \in S |-> Magnitude(x[v])]
             g == [v \in S |-> Magnitude(y[v])]
  <1>1. \A v \in S : f[v] \in Int /\ g[v] = a * f[v]
    <2> SUFFICES ASSUME NEW v \in S
                 PROVE  Magnitude(x[v]) \in Int /\ Magnitude(y[v]) = a * Magnitude(x[v])
      OBVIOUS
    <2> DEFINE n == x[v]
    <2>1. n \in Int /\ y[v] = a * n
      BY DEF Multiplies
    <2> HIDE DEF n
    <2>2. CASE n < 0
      <3>1. a * n \in Int /\ a * n <= 0 /\ a * (-n) = -(a * n)
        BY <2>1, <2>2
      <3> QED
        BY <2>1, <2>2, <3>1 DEF Magnitude, n
    <2>3. CASE ~ (n < 0)
      <3>1. a * n \in Int /\ a * n >= 0
        BY <2>1, <2>3
      <3> QED
        BY <2>1, <2>3, <3>1 DEF Magnitude, n
    <2> QED
      BY <2>2, <2>3
  <1> HIDE DEF f, g
  <1>2. SumFunctionOnSet(g, S) = a * SumFunctionOnSet(f, S)
    BY <1>1, SumTimes
  <1>3. Norm(S, x) \in Nat
    BY NormNat DEF Multiplies
  <1> QED
    BY <1>2, <1>3 DEF Norm, f, g

\* A function on a finite set has a largest value, and such a set of integers
\* a least element.
LEMMA LargestValue ==
  ASSUME NEW S, IsFiniteSet(S), S # {}, NEW f, \A x \in S : f[x] \in Int
  PROVE  \E x \in S : \A y \in S : f[y] <= f[x]
PROOF
  <1> DEFINE Family == {s \in SUBSET S : s # {} /\ ~ \E x \in s : \A y \in s : f[y] <= f[x]}
  <1>1. SUFFICES ASSUME Family # {} PROVE FALSE
    OBVIOUS
  <1>2. \A s \in Family : IsFiniteSet(s)
    BY FS_Subset
  <1> HIDE DEF Family
  <1>3. PICK s \in Family : \A x \in s : s \ {x} \notin Family
    BY <1>1, <1>2, SmallestSet
  <1>4. s \in SUBSET S /\ s # {} /\ ~ \E x \in s : \A y \in s : f[y] <= f[x]
    BY DEF Family
  <1>5. PICK x \in s : TRUE
    BY <1>4
  <1>6. f[x] \in Int
    BY <1>4
  <1>7. CASE s \ {x} = {}
    <2>1. \A y \in s : y = x
      BY <1>7
    <2> QED
      BY <1>4, <1>6, <2>1
  <1>8. CASE s \ {x} # {}
    <2>1. PICK z \in s \ {x} : \A y \in s \ {x} : f[y] <= f[z]
      BY <1>3, <1>4, <1>8 DEF Family
    <2>2. f[z] \in Int /\ \A y \in s : f[y] \in Int
      BY <1>4
    <2>3. CASE f[z] <= f[x]
      <3>1. \A y \in s : f[y] <= f[x]
        BY <1>6, <2>1, <2>2, <2>3
      <3> QED
        BY <1>4, <3>1
    <2>4. CASE ~ (f[z] <= f[x])
      <3>1. \A y \in s : f[y] <= f[z]
        BY <1>6, <2>1, <2>2, <2>4
      <3> QED
        BY <1>4, <3>1
    <2> QED
      BY <2>3, <2>4
  <1> QED
    BY <1>7, <1>8

LEMMA LeastElement ==
  ASSUME NEW S, IsFiniteSet(S), S # {}, S \subseteq Int
  PROVE  \E x \in S : \A y \in S : x <= y
PROOF
  <1> DEFINE f == [x \in S |-> -x]
  <1>1. \A x \in S : f[x] \in Int /\ f[x] = -x
    OBVIOUS
  <1> HIDE DEF f
  <1>2. PICK x \in S : \A y \in S : f[y] <= f[x]
    BY <1>1, LargestValue
  <1>3. ASSUME NEW y \in S
        PROVE  x <= y
    <2>1. -y <= -x /\ x \in Int /\ y \in Int
      BY <1>1, <1>2
    <2> QED
      BY <2>1
  <1> QED
    BY <1>3

\* A number that gets smaller makes the sum smaller.
LEMMA SumShrinks ==
  ASSUME NEW S, IsFiniteSet(S), NEW f, NEW g,
         \A x \in S : f[x] \in Int, \A x \in S : g[x] \in Int,
         NEW y \in S, g[y] < f[y], \A x \in S \ {y} : g[x] = f[x]
  PROVE  SumFunctionOnSet(g, S) < SumFunctionOnSet(f, S)
PROOF
  <1>1. SumFunctionOnSet(f, S) = f[y] + SumFunctionOnSet(f, S \ {y})
    BY SumRemove
  <1>2. SumFunctionOnSet(g, S) = g[y] + SumFunctionOnSet(g, S \ {y})
    BY SumRemove
  <1> DEFINE rest == S \ {y}
  <1>3. IsFiniteSet(rest) /\ (\A x \in rest : g[x] = f[x]) /\ (\A x \in rest : f[x] \in Int)
    BY FS_Subset
  <1> HIDE DEF rest
  <1>4. SumFunctionOnSet(g, rest) = SumFunctionOnSet(f, rest)
    BY <1>3, SumSame
  <1>5. SumFunctionOnSet(f, rest) \in Int
    BY <1>3, SumInt
  <1> DEFINE a == SumFunctionOnSet(f, S)
             b == SumFunctionOnSet(g, S)
             c == SumFunctionOnSet(f, rest)
  <1>6. a = f[y] + c /\ b = g[y] + c /\ c \in Int
    BY <1>1, <1>2, <1>4, <1>5, Zenon DEF rest
  <1> HIDE DEF a, b, c
  <1>7. b < a
    BY <1>6
  <1> QED
    BY <1>7 DEF a, b

-----------------------------------------------------------------------------
(* pagerank                                                                *)

\* The numbers of times that a kernel counts an edge, and a vertex's edges.
Copies(d, t, kind, u, v) ==
  IF <<u, v>> \notin d THEN 0 ELSE IF kind = "arrays" /\ <<u, v>> \in t THEN 2 ELSE 1

Leaving(d, t, kind, u) ==
  SumFunctionOnSet([v \in P!Vertices(d) |-> Copies(d, t, kind, u, v)], P!Vertices(d))

\* What each vertex passes on to each, in units of its score: to all the same
\* when no edge leaves it.
Share(d, t, kind) ==
  [u \in P!Vertices(d) |->
     [v \in P!Vertices(d) |->
        IF Leaving(d, t, kind, u) = 0 THEN Unit \div Cardinality(P!Vertices(d))
        ELSE (Unit \div Leaving(d, t, kind, u)) * Copies(d, t, kind, u, v)]]

Base(d, n) == (Damping[2] - Damping[1]) * (Unit \div Cardinality(P!Vertices(d))) * n

\* A superstep: what every vertex gets, and damping times what it is passed.
RankNext(d, t, kind, s, n) ==
  [v \in P!Vertices(d) |->
     Base(d, n) + Damping[1] * Passed(P!Vertices(d), Share(d, t, kind), s)[v]]

\* How much it moves the scores.
RankMoved(d, t, kind, s, n) ==
  Norm(P!Vertices(d),
       [v \in P!Vertices(d) |-> RankNext(d, t, kind, s, n)[v] - Damping[2] * Unit * s[v]])

Kernels == {"sets", "arrays"}

LEMMA RankOperators ==
  /\ \A f : P!SumFunction(f) = SumFunctionOnSet(f, DOMAIN f)
  /\ \A S : P!Cardinality(S) = Cardinality(S)
PROOF
  <1>1. \A f : P!SumFunction(f) = SumFunctionOnSet(f, DOMAIN f)
    BY Zenon DEF P!SumFunction, P!SumFunctionOnSet, P!FoldFunctionOnSet, P!MapThenFoldSet,
       SumFunctionOnSet, FoldFunctionOnSet, MapThenFoldSet
  <1>2. \A S : P!Cardinality(S) = Cardinality(S)
    BY Zenon DEF P!Cardinality, Cardinality
  <1> QED
    BY <1>1, <1>2

LEMMA RankVertices ==
  ASSUME NEW d, d \subseteq EdgesOf["pagerank"]
  PROVE  /\ IsFiniteSet(P!Vertices(d)) /\ IsFiniteSet(d)
         /\ P!Vertices(d) \subseteq P!Vertices(EdgesOf["pagerank"])
         /\ d # {} => P!Vertices(d) # {}
         /\ \A u, v : <<u, v>> \in d => u \in P!Vertices(d) /\ v \in P!Vertices(d)
PROOF
  <1>1. IsFiniteSet(d)
    BY RankParameters, FS_Subset
  <1>2. [e \in d |-> e[1]] \in Surjection(d, {e[1] : e \in d})
    BY DEF Surjection
  <1>3. [e \in d |-> e[2]] \in Surjection(d, {e[2] : e \in d})
    BY DEF Surjection
  <1>4. IsFiniteSet({e[1] : e \in d}) /\ IsFiniteSet({e[2] : e \in d})
    BY <1>1, <1>2, <1>3, FS_Surjection DEF ExistsSurjection
  <1>5. IsFiniteSet(P!Vertices(d))
    BY <1>4, FS_Union DEF P!Vertices
  <1>6. ASSUME NEW u, NEW v, <<u, v>> \in d
        PROVE  u \in P!Vertices(d) /\ v \in P!Vertices(d)
    BY <1>6 DEF P!Vertices
  <1>7. d # {} => P!Vertices(d) # {}
    BY DEF P!Vertices
  <1>8. P!Vertices(d) \subseteq P!Vertices(EdgesOf["pagerank"])
    BY DEF P!Vertices
  <1> QED
    BY <1>1, <1>5, <1>6, <1>7, <1>8

\* Divisions leave no remainder.
LEMMA SizeDivides ==
  ASSUME NEW d, d \subseteq EdgesOf["pagerank"], d # {}
  PROVE  /\ Cardinality(P!Vertices(d)) \in Nat
         /\ Unit \div Cardinality(P!Vertices(d)) \in Nat
         /\ Cardinality(P!Vertices(d)) * (Unit \div Cardinality(P!Vertices(d))) = Unit
PROOF
  <1> DEFINE edges == EdgesOf["pagerank"]
             n == Cardinality(P!Vertices(d))
             all == UNION {{e[1], e[2]} : e \in edges}
  <1>1. P!Vertices(edges) = all
    BY DEF P!Vertices
  <1>2. IsFiniteSet(all) /\ P!Vertices(d) \subseteq all
    BY <1>1, RankVertices
  <1>3. n \in Nat /\ n <= Cardinality(all) /\ n # 0 /\ Cardinality(all) \in Nat
    BY <1>2, RankVertices, FS_Subset, FS_CardinalityType, FS_EmptySet
  <1> HIDE DEF n
  <1>4. n \in 1 .. Cardinality(all)
    BY <1>3
  <1>5. Unit % n = 0
    BY <1>4, ExactnessAssumption
  <1>6. Unit \div n \in Nat /\ n * (Unit \div n) = Unit
    BY <1>3, <1>5, RankParameters
  <1> QED
    BY <1>3, <1>6 DEF n

LEMMA CopiesType ==
  \A d, t, kind, u, v :
    Copies(d, t, kind, u, v) \in Nat /\ Copies(d, t, kind, u, v) <= 2
BY DEF Copies

\* Edges are counted at the vertices they lead to.
LEMMA LeavingCounts ==
  ASSUME NEW d, d \subseteq EdgesOf["pagerank"], NEW t, NEW kind, NEW u
  PROVE  LET to == {v \in P!Vertices(d) : <<u, v>> \in d} IN
         /\ IsFiniteSet(to)
         /\ Leaving(d, t, kind, u)
              = SumFunctionOnSet([v \in P!Vertices(d) |-> Copies(d, t, kind, u, v)], to)
         /\ Leaving(d, t, kind, u) = 0 => to = {}
         /\ to = {} => Leaving(d, t, kind, u) = 0
PROOF
  <1> DEFINE S == P!Vertices(d)
             g == [v \in S |-> Copies(d, t, kind, u, v)]
             to == {v \in S : <<u, v>> \in d}
             rest == S \ to
  <1>1. IsFiniteSet(S) /\ IsFiniteSet(to) /\ IsFiniteSet(rest)
    BY RankVertices, FS_Subset
  <1>2. \A v \in S : g[v] \in Nat
    BY CopiesType
  <1>3. \A v \in rest : g[v] = 0
    BY DEF Copies
  <1>4. \A v \in to : g[v] > 0
    BY DEF Copies
  <1>5. Leaving(d, t, kind, u) = SumFunctionOnSet(g, S)
    BY DEF Leaving
  <1>6. S = to \cup rest /\ to \cap rest = {} /\ to \subseteq S
    OBVIOUS
  <1> HIDE DEF g, S, to, rest
  <1>7. SumFunctionOnSet(g, S) = SumFunctionOnSet(g, to) + SumFunctionOnSet(g, rest)
    <2>1. \A v \in to \cup rest : g[v] \in Int
      BY <1>2, <1>6
    <2> QED
      BY <1>1, <1>6, <2>1, SumUnion
  <1>8. SumFunctionOnSet(g, rest) = 0
    <2>1. SumFunctionOnSet(g, rest) = Cardinality(rest) * 0 /\ Cardinality(rest) \in Nat
      BY <1>1, <1>3, SumConstant, FS_CardinalityType
    <2> QED
      BY <2>1
  <1>9. SumFunctionOnSet(g, to) \in Int
    BY <1>1, <1>2, <1>6, SumInt
  <1>10. Leaving(d, t, kind, u) = SumFunctionOnSet(g, to)
    BY <1>5, <1>7, <1>8, <1>9
  <1>11. ASSUME to # {}
         PROVE  SumFunctionOnSet(g, to) > 0
    <2>1. PICK v \in to : TRUE
      BY <1>11
    <2>2. \A w \in to : g[w] \in Int
      BY <1>2, <1>6
    <2>3. SumFunctionOnSet(g, to) = g[v] + SumFunctionOnSet(g, to \ {v})
      BY <1>1, <2>2, SumRemove
    <2>4. SumFunctionOnSet(g, to \ {v}) \in Nat
      <3>1. IsFiniteSet(to \ {v}) /\ \A w \in to \ {v} : g[w] \in Nat
        BY <1>1, <1>2, <1>6, FS_Subset
      <3> QED
        BY <3>1, SumNat
    <2> QED
      BY <1>2, <1>4, <1>6, <2>3, <2>4
  <1>12. to = {} => SumFunctionOnSet(g, to) = 0
    BY SumEmpty
  <1>13. Leaving(d, t, kind, u) = 0 => to = {}
    BY <1>9, <1>10, <1>11
  <1> QED
    BY <1>1, <1>10, <1>12, <1>13 DEF g, S, to

LEMMA LeavingType ==
  ASSUME NEW d, d \subseteq EdgesOf["pagerank"], NEW t, NEW kind, NEW u
  PROVE  /\ Leaving(d, t, kind, u) \in Nat
         /\ Leaving(d, t, kind, u) # 0 =>
              \E e \in EdgesOf["pagerank"] :
                Leaving(d, t, kind, u) \in
                  1 .. 2 * Cardinality({f \in EdgesOf["pagerank"] : f[1] = e[1]})
PROOF
  <1> DEFINE S == P!Vertices(d)
             g == [v \in S |-> Copies(d, t, kind, u, v)]
             to == {v \in S : <<u, v>> \in d}
             from == {f \in EdgesOf["pagerank"] : f[1] = u}
  <1>1. /\ IsFiniteSet(to) /\ Leaving(d, t, kind, u) = SumFunctionOnSet(g, to)
        /\ to = {} => Leaving(d, t, kind, u) = 0
    BY LeavingCounts
  <1>2. \A v \in to : g[v] \in Nat /\ g[v] <= 2
    BY CopiesType
  <1>3. IsFiniteSet(from) /\ Cardinality(to) <= Cardinality(from)
    <2>1. IsFiniteSet(from)
      BY RankParameters, FS_Subset
    <2>2. [v \in to |-> <<u, v>>] \in Injection(to, from)
      <3>1. \A v \in to : <<u, v>> \in from
        OBVIOUS
      <3> HIDE DEF to, from
      <3> QED
        BY <3>1 DEF Injection, IsInjective
    <2> QED
      BY <2>1, <2>2, FS_Injection
  <1>4. to # {} => \E e \in EdgesOf["pagerank"] : e[1] = u
    <2>1. ASSUME NEW v \in to
          PROVE  <<u, v>> \in EdgesOf["pagerank"] /\ <<u, v>>[1] = u
      OBVIOUS
    <2> QED
      BY <2>1
  <1> HIDE DEF g, S, to
  <1>5. SumFunctionOnSet(g, to) <= Cardinality(to) * 2 /\ SumFunctionOnSet(g, to) \in Nat
    <2> DEFINE two == [v \in to |-> 2]
    <2>1. \A v \in to : g[v] \in Int /\ two[v] \in Int /\ g[v] <= two[v] /\ g[v] \in Nat /\ two[v] = 2
      BY <1>2
    <2> HIDE DEF two
    <2>2. SumFunctionOnSet(g, to) <= SumFunctionOnSet(two, to)
      BY <1>1, <2>1, SumAtMost
    <2>3. SumFunctionOnSet(two, to) = Cardinality(to) * 2
      BY <1>1, <2>1, SumConstant
    <2>4. SumFunctionOnSet(g, to) \in Nat
      BY <1>1, <2>1, SumNat
    <2> QED
      BY <2>2, <2>3, <2>4
  <1>6. Cardinality(to) \in Nat /\ Cardinality(from) \in Nat
    BY <1>1, <1>3, FS_CardinalityType
  <1>7. Leaving(d, t, kind, u) \in Nat /\ Leaving(d, t, kind, u) <= 2 * Cardinality(from)
    BY <1>1, <1>3, <1>5, <1>6
  <1>8. ASSUME Leaving(d, t, kind, u) # 0
        PROVE  \E e \in EdgesOf["pagerank"] :
                 Leaving(d, t, kind, u) \in
                   1 .. 2 * Cardinality({f \in EdgesOf["pagerank"] : f[1] = e[1]})
    <2>1. PICK e \in EdgesOf["pagerank"] : e[1] = u
      BY <1>1, <1>4, <1>8
    <2>2. Leaving(d, t, kind, u) \in 1 .. 2 * Cardinality(from)
      BY <1>6, <1>7, <1>8
    <2> QED
      BY <2>1, <2>2
  <1> QED
    BY <1>7, <1>8

LEMMA LeavingDivides ==
  ASSUME NEW d, d \subseteq EdgesOf["pagerank"], NEW t, NEW kind, NEW u,
         Leaving(d, t, kind, u) # 0
  PROVE  /\ Unit \div Leaving(d, t, kind, u) \in Nat
         /\ (Unit \div Leaving(d, t, kind, u)) * Leaving(d, t, kind, u) = Unit
PROOF
  <1> DEFINE n == Leaving(d, t, kind, u)
  <1>1. n \in Nat /\ n # 0
    BY LeavingType
  <1>2. \E e \in EdgesOf["pagerank"] :
          n \in 1 .. 2 * Cardinality({f \in EdgesOf["pagerank"] : f[1] = e[1]})
    BY LeavingType
  <1> HIDE DEF n
  <1>3. Unit % n = 0
    BY <1>2, ExactnessAssumption
  <1>4. Unit \div n \in Nat /\ (Unit \div n) * n = Unit
    BY <1>1, <1>3, RankParameters
  <1> QED
    BY <1>4 DEF n

\* Nothing gets lost on the way.
LEMMA ShareRows ==
  ASSUME NEW d, d \subseteq EdgesOf["pagerank"], d # {}, NEW t, NEW kind
  PROVE  /\ Share(d, t, kind) \in [P!Vertices(d) -> [P!Vertices(d) -> Nat]]
         /\ RowsAre(P!Vertices(d), Share(d, t, kind), Unit)
PROOF
  <1> DEFINE S == P!Vertices(d)
             m == Share(d, t, kind)
  <1>1. ASSUME NEW u \in S
        PROVE  m[u] \in [S -> Nat] /\ SumFunctionOnSet(m[u], S) = Unit
    <2> DEFINE q == Unit \div Cardinality(S)
               l == Leaving(d, t, kind, u)
               g == [v \in S |-> Copies(d, t, kind, u, v)]
               row == m[u]
    <2>1. CASE l = 0
      <3>1. row = [v \in S |-> q]
        BY <2>1 DEF Share
      <3>2. q \in Nat /\ Cardinality(S) * q = Unit
        BY SizeDivides
      <3>3. IsFiniteSet(S)
        BY RankVertices
      <3>4. \A v \in S : row[v] = q
        BY <3>1
      <3> HIDE DEF row, q, S, m
      <3>5. SumFunctionOnSet(row, S) = Cardinality(S) * q
        BY <3>2, <3>3, <3>4, SumConstant
      <3> QED
        BY <3>1, <3>2, <3>5 DEF row
    <2>2. CASE l # 0
      <3> DEFINE p == Unit \div l
      <3>1. row = [v \in S |-> p * g[v]]
        BY <2>2 DEF Share
      <3>2. p \in Nat /\ p * l = Unit
        BY <2>2, LeavingDivides
      <3>3. IsFiniteSet(S)
        BY RankVertices
      <3>4. l = SumFunctionOnSet(g, S)
        BY DEF Leaving
      <3>5. \A v \in S : g[v] \in Nat
        BY CopiesType
      <3>6. \A v \in S : row[v] = p * g[v]
        BY <3>1
      <3> HIDE DEF row, g, p, l, S, m
      <3>7. \A v \in S : g[v] \in Int /\ row[v] = p * g[v] /\ p * g[v] \in Nat
        BY <3>2, <3>5, <3>6
      <3>8. SumFunctionOnSet(row, S) = p * SumFunctionOnSet(g, S)
        BY <3>2, <3>3, <3>7, SumTimes
      <3> QED
        BY <3>1, <3>2, <3>4, <3>7, <3>8 DEF row
    <2> QED
      BY <2>1, <2>2
  <1>2. m = [u \in S |-> m[u]]
    BY DEF Share
  <1> HIDE DEF m
  <1> QED
    BY <1>1, <1>2 DEF RowsAre, m

\* A superstep keeps the sum of the scores.
LEMMA NextKeepsMass ==
  ASSUME NEW d, d \subseteq EdgesOf["pagerank"], d # {}, NEW t, NEW kind,
         NEW s \in [P!Vertices(d) -> Nat], NEW n \in Nat,
         SumFunctionOnSet(s, P!Vertices(d)) = n
  PROVE  /\ RankNext(d, t, kind, s, n) \in [P!Vertices(d) -> Nat]
         /\ SumFunctionOnSet(RankNext(d, t, kind, s, n), P!Vertices(d)) = Damping[2] * Unit * n
PROOF
  <1> DEFINE S == P!Vertices(d)
             m == Share(d, t, kind)
             base == Base(d, n)
             passed == Passed(S, m, s)
             damped == [v \in S |-> Damping[1] * passed[v]]
             even == [v \in S |-> base]
             next == RankNext(d, t, kind, s, n)
             size == Cardinality(S)
             part == Unit \div size
  <1>1. IsFiniteSet(S) /\ m \in [S -> [S -> Nat]] /\ RowsAre(S, m, Unit)
    BY RankVertices, ShareRows
  <1>2. size \in Nat /\ part \in Nat /\ size * part = Unit
    BY SizeDivides
  <1>3. next = [v \in S |-> base + Damping[1] * passed[v]]
    BY DEF RankNext
  <1>4. base = (Damping[2] - Damping[1]) * part * n
    BY DEF Base
  <1>5. passed \in [S -> Nat]
    <2>1. ASSUME NEW v \in S
          PROVE  SumFunctionOnSet([u \in S |-> s[u] * m[u][v]], S) \in Nat
      <3> DEFINE f == [u \in S |-> s[u] * m[u][v]]
      <3>1. \A u \in S : f[u] \in Nat
        <4> SUFFICES ASSUME NEW u \in S PROVE s[u] * m[u][v] \in Nat
          OBVIOUS
        <4>1. s[u] \in Nat /\ m[u][v] \in Nat
          BY <1>1
        <4> HIDE DEF m, S
        <4> QED
          BY <4>1
      <3> HIDE DEF f, S, m
      <3>2. SumFunctionOnSet(f, S) \in Nat
        BY <1>1, <3>1, SumNat
      <3> QED
        BY <3>2 DEF f
    <2> QED
      BY <2>1 DEF Passed
  <1>6. Damping[1] \in Nat /\ Damping[2] \in Nat /\ Damping[2] - Damping[1] \in Nat /\ Unit \in Nat
    BY RankParameters
  <1>7. SumFunctionOnSet(s, S) = n
    OBVIOUS
  <1>8. s \in [S -> Int]
    OBVIOUS
  <1> HIDE DEF S, m, base, passed, next, size, part
  <1>9. base \in Nat
    BY <1>2, <1>4, <1>6
  <1>10. next \in [S -> Nat]
    BY <1>3, <1>5, <1>6, <1>9
  <1>11. SumFunctionOnSet(passed, S) = Unit * n
    <2>1. m \in [S -> [S -> Int]] /\ Unit \in Int
      BY <1>1, <1>6
    <2> QED
      BY <1>1, <1>7, <1>8, <2>1, PassedSum DEF passed
  <1>12. \A v \in S : /\ even[v] = base /\ passed[v] \in Int /\ damped[v] = Damping[1] * passed[v]
                      /\ damped[v] \in Int /\ next[v] = even[v] + damped[v]
    BY <1>3, <1>5, <1>6
  <1> HIDE DEF even, damped
  <1>13. SumFunctionOnSet(even, S) = size * base
    BY <1>1, <1>9, <1>12, SumConstant DEF size
  <1>14. SumFunctionOnSet(damped, S) = Damping[1] * SumFunctionOnSet(passed, S)
    BY <1>1, <1>6, <1>12, SumTimes
  <1>15. SumFunctionOnSet(next, S) = SumFunctionOnSet(even, S) + SumFunctionOnSet(damped, S)
    BY <1>1, <1>9, <1>12, SumAdd
  <1>16. size * base = (Damping[2] - Damping[1]) * Unit * n
    <2> DEFINE c == Damping[2] - Damping[1]
    <2>1. c \in Nat
      BY <1>6
    <2> HIDE DEF c
    <2>2. size * (c * part * n) = c * (size * part) * n
      BY <1>2, <2>1
    <2> QED
      BY <1>2, <1>4, <2>2 DEF c
  <1>17. (Damping[2] - Damping[1]) * Unit * n + Damping[1] * (Unit * n) = Damping[2] * Unit * n
    BY <1>6
  <1> QED
    BY <1>10, <1>11, <1>13, <1>14, <1>15, <1>16, <1>17 DEF next, S

\* The next superstep moves the scores by damping times what this one did.
LEMMA NextContracts ==
  ASSUME NEW d, d \subseteq EdgesOf["pagerank"], d # {}, NEW t, NEW kind,
         NEW s \in [P!Vertices(d) -> Nat], NEW n \in Nat,
         NEW next \in [P!Vertices(d) -> Nat], next = RankNext(d, t, kind, s, n)
  PROVE  /\ RankMoved(d, t, kind, s, n) \in Nat
         /\ RankMoved(d, t, kind, next, Damping[2] * Unit * n)
              <= Damping[1] * Unit * RankMoved(d, t, kind, s, n)
PROOF
  <1> DEFINE S == P!Vertices(d)
             m == Share(d, t, kind)
             c == Damping[2] * Unit
             a == Damping[1]
             minus == -c
             after == RankNext(d, t, kind, next, c * n)
             diff == [v \in S |-> next[v] + minus * s[v]]
             passed == Passed(S, m, diff)
             shifted == [v \in S |-> after[v] - c * next[v]]
  <1>1. IsFiniteSet(S) /\ m \in [S -> [S -> Nat]] /\ RowsAre(S, m, Unit)
    BY RankVertices, ShareRows
  <1>2. a \in Nat /\ c \in Nat /\ minus \in Int /\ Unit \in Nat /\ Damping[2] - a \in Nat
    BY RankParameters
  <1>3. m \in [S -> [S -> Int]] /\ s \in [S -> Int] /\ next \in [S -> Int]
    BY <1>1
  <1>4. \A v \in S : s[v] \in Int /\ next[v] \in Int
    BY <1>3
  <1>5. diff \in [S -> Int]
    <2> HIDE DEF S, m, c, minus
    <2>1. \A v \in S : next[v] + minus * s[v] \in Int
      BY <1>2, <1>4
    <2> QED
      BY <2>1
  <1>6. \A v \in S : diff[v] = next[v] + minus * s[v] /\ diff[v] = next[v] - c * s[v]
    <2> HIDE DEF S, m
    <2> SUFFICES ASSUME NEW v \in S PROVE next[v] + minus * s[v] = next[v] - c * s[v]
      OBVIOUS
    <2> DEFINE q == s[v]
    <2>1. q \in Int
      BY <1>4
    <2> HIDE DEF q, c
    <2>2. (-c) * q = -(c * q) /\ c * q \in Int
      BY <1>2, <2>1
    <2>3. next[v] + minus * q = next[v] - c * q
      BY <1>4, <2>2
    <2> QED
      BY <2>3 DEF q
  <1>7. RankMoved(d, t, kind, s, n) = Norm(S, diff)
    <2>1. \A v \in S : RankNext(d, t, kind, s, n)[v] - Damping[2] * Unit * s[v] = diff[v]
      BY <1>6
    <2>2. [v \in S |-> RankNext(d, t, kind, s, n)[v] - Damping[2] * Unit * s[v]] = diff
      BY <2>1
    <2> HIDE DEF diff, S
    <2> QED
      BY <2>2 DEF RankMoved, S
  <1>8. RankMoved(d, t, kind, next, c * n) = Norm(S, shifted)
    BY DEF RankMoved
  <1>9. \A v \in S : /\ after[v] = Base(d, c * n) + a * Passed(S, m, next)[v]
                     /\ next[v] = Base(d, n) + a * Passed(S, m, s)[v]
    BY DEF RankNext
  <1>10. Base(d, c * n) = c * Base(d, n) /\ Base(d, n) \in Nat
    <2> DEFINE e == Damping[2] - Damping[1]
               q == Unit \div Cardinality(P!Vertices(d))
    <2>1. e \in Nat /\ q \in Nat
      BY <1>2, SizeDivides
    <2>2. Base(d, c * n) = e * q * (c * n) /\ Base(d, n) = e * q * n
      BY DEF Base
    <2> HIDE DEF e, q, c
    <2>3. e * q * (c * n) = c * (e * q * n)
      BY <1>2, <2>1
    <2>4. e * q * n \in Nat
      BY <2>1
    <2> QED
      BY <2>2, <2>3, <2>4
  <1>11. \A v \in S : /\ Passed(S, m, next)[v] \in Int /\ Passed(S, m, s)[v] \in Int
                      /\ Passed(S, m, diff)[v] \in Int
    <2> HIDE DEF diff, S, m
    <2>1. /\ Passed(S, m, next) \in [S -> Int] /\ Passed(S, m, s) \in [S -> Int]
          /\ Passed(S, m, diff) \in [S -> Int]
      BY <1>1, <1>3, <1>5, PassedInt
    <2> QED
      BY <2>1
  <1>12. Combines(S, passed, Passed(S, m, next), minus, Passed(S, m, s))
    <2>1. Combines(S, diff, next, minus, s)
      BY <1>6 DEF Combines
    <2> HIDE DEF diff, S, m, minus
    <2> QED
      BY <1>1, <1>2, <1>3, <1>5, <2>1, PassedLinear
  <1>13. \A v \in S : passed[v] \in Int /\ shifted[v] = a * passed[v]
    <2> SUFFICES ASSUME NEW v \in S
                 PROVE  passed[v] \in Int /\ shifted[v] = a * passed[v]
      OBVIOUS
    <2> DEFINE b == Base(d, n)
               x == Passed(S, m, next)[v]
               y == Passed(S, m, s)[v]
               z == passed[v]
    <2>1. after[v] = c * b + a * x /\ next[v] = b + a * y
      BY <1>9, <1>10
    <2>2. z = x + (-c) * y
      BY <1>12 DEF Combines
    <2>3. x \in Int /\ y \in Int /\ z \in Int
      BY <1>11
    <2>4. b \in Int
      BY <1>10
    <2>5. shifted[v] = after[v] - c * next[v]
      OBVIOUS
    <2> HIDE DEF b, x, y, z, a, c, after, passed, shifted, m, S
    <2>6. c * (b + a * y) = c * b + c * (a * y)
      BY <1>2, <2>3, <2>4
    <2>7. a * (x + (-c) * y) = a * x - c * (a * y)
      BY <1>2, <2>3
    <2>8. c * b \in Int /\ a * x \in Int /\ c * (a * y) \in Int
      BY <1>2, <2>3, <2>4
    <2>9. shifted[v] = a * z
      <3> DEFINE cb == c * b
                 ax == a * x
                 cay == c * (a * y)
      <3>1. shifted[v] = (cb + ax) - (cb + cay) /\ a * z = ax - cay
        BY <2>1, <2>2, <2>5, <2>6, <2>7
      <3>2. cb \in Int /\ ax \in Int /\ cay \in Int
        BY <2>8
      <3> HIDE DEF cb, ax, cay
      <3> QED
        BY <3>1, <3>2
    <2> QED
      BY <2>3, <2>9 DEF z
  <1> HIDE DEF S, m, passed, shifted, after, diff, c
  <1>14. Norm(S, shifted) = a * Norm(S, passed) /\ Norm(S, passed) \in Nat
    <2> HIDE DEF a
    <2>1. Multiplies(S, shifted, a, passed)
      BY <1>13 DEF Multiplies
    <2> QED
      BY <1>1, <1>2, <2>1, NormTimes
  <1>15. Norm(S, passed) <= Unit * Norm(S, diff)
    <2>1. Unit \in Int
      BY <1>2
    <2>2. Norm(S, Passed(S, m, diff)) <= Unit * Norm(S, diff)
      BY <1>1, <1>5, <2>1, PassedContracts, Zenon
    <2> QED
      BY <2>2 DEF passed
  <1>16. Norm(S, diff) \in Nat
    BY <1>1, <1>5, NormNat
  <1> DEFINE p == Norm(S, passed)
             q == Norm(S, diff)
  <1> HIDE DEF a, p, q
  <1>17. p \in Nat /\ q \in Nat /\ p <= Unit * q /\ Unit * q \in Nat
    BY <1>2, <1>14, <1>15, <1>16 DEF p, q
  <1>18. a * p <= a * (Unit * q) /\ a * (Unit * q) = a * Unit * q
    BY <1>2, <1>17
  <1> QED
    BY <1>7, <1>8, <1>14, <1>16, <1>18 DEF a, c, p, q

\* The vertices that no edge leaves, those with an edge into v, and what those
\* pass on to v.
Ends(d, t, kind) == {u \in P!Vertices(d) : Leaving(d, t, kind, u) = 0}

Senders(d, v) == {u \in P!Vertices(d) : <<u, v>> \in d}

Sent(d, t, kind, s, v) ==
  [u \in Senders(d, v) |->
     s[u] * Copies(d, t, kind, u, v) * (Unit \div Leaving(d, t, kind, u))]

\* What v is passed comes from the ends and from the senders.
LEMMA PassedParts ==
  ASSUME NEW d, d \subseteq EdgesOf["pagerank"], d # {}, NEW t, NEW kind,
         NEW s \in [P!Vertices(d) -> Int], NEW v \in P!Vertices(d)
  PROVE  LET part == Unit \div Cardinality(P!Vertices(d))
             spread == SumFunctionOnSet([u \in Ends(d, t, kind) |-> s[u]], Ends(d, t, kind)) * part
             received == SumFunctionOnSet(Sent(d, t, kind, s, v), Senders(d, v))
         IN  /\ spread \in Int /\ received \in Int
             /\ Passed(P!Vertices(d), Share(d, t, kind), s)[v] = spread + received
PROOF
  <1> DEFINE S == P!Vertices(d)
             m == Share(d, t, kind)
             l(u) == Leaving(d, t, kind, u)
             part == Unit \div Cardinality(S)
             ends == Ends(d, t, kind)
             from == Senders(d, v)
             rest == (S \ ends) \ from
             mass == [u \in ends |-> s[u]]
             g == Sent(d, t, kind, s, v)
             f == [u \in S |-> s[u] * m[u][v]]
  <1>1. m \in [S -> [S -> Nat]] /\ part \in Nat
    BY ShareRows, SizeDivides
  <1>2. /\ ends \subseteq S /\ from \subseteq S /\ S = ends \cup (from \cup rest)
        /\ ends \cap (from \cup rest) = {} /\ from \cap rest = {}
    <2>1. ASSUME NEW u \in from
          PROVE  u \notin ends
      BY LeavingCounts DEF Ends, Senders
    <2>2. ends \subseteq S /\ from \subseteq S
      BY DEF Ends, Senders
    <2> HIDE DEF ends, from, S
    <2> QED
      BY <2>1, <2>2
  <1>3. /\ IsFiniteSet(S) /\ IsFiniteSet(ends) /\ IsFiniteSet(from) /\ IsFiniteSet(rest)
        /\ IsFiniteSet(from \cup rest)
    <2>1. IsFiniteSet(S)
      BY RankVertices
    <2> HIDE DEF ends, from, S
    <2> QED
      BY <1>2, <2>1, FS_Subset
  <1>4. \A u \in S : f[u] \in Int
    <2>1. m \in [S -> [S -> Int]] /\ s \in [S -> Int]
      BY <1>1
    <2> HIDE DEF S, m
    <2> QED
      BY <2>1, PassedTerms DEF f
  <1>5. \A u \in ends : f[u] = part * mass[u] /\ mass[u] \in Int
    <2> SUFFICES ASSUME NEW u \in ends
                 PROVE  f[u] = part * mass[u] /\ mass[u] \in Int
      OBVIOUS
    <2>1. m[u][v] = part /\ f[u] = s[u] * m[u][v] /\ mass[u] = s[u] /\ s[u] \in Int
      BY DEF Share, Ends
    <2> HIDE DEF m, part, f, mass
    <2> QED
      BY <1>1, <2>1
  <1>6. \A u \in from : f[u] = g[u]
    <2> SUFFICES ASSUME NEW u \in from
                 PROVE  f[u] = g[u]
      OBVIOUS
    <2> DEFINE a == s[u]
               b == Copies(d, t, kind, u, v)
               q == Unit \div l(u)
    <2>1. u \in S /\ l(u) # 0
      <3>1. u \in S /\ u \notin ends
        BY <1>2
      <3> QED
        BY <3>1 DEF Ends
    <2>2. a \in Int /\ b \in Nat /\ q \in Nat
      BY <2>1, CopiesType, LeavingDivides
    <2>3. m[u][v] = q * b /\ f[u] = a * m[u][v]
      BY <2>1 DEF Share
    <2>4. g[u] = a * b * q
      BY DEF Sent
    <2> HIDE DEF a, b, q, m, f, g
    <2>5. a * (q * b) = a * b * q
      BY <2>2
    <2> QED
      BY <2>3, <2>4, <2>5
  <1>7. \A u \in rest : f[u] = 0
    <2> SUFFICES ASSUME NEW u \in rest
                 PROVE  f[u] = 0
      OBVIOUS
    <2> DEFINE q == Unit \div l(u)
    <2>1. u \in S /\ l(u) # 0 /\ <<u, v>> \notin d
      BY DEF Ends, Senders
    <2>2. m[u][v] = q * 0 /\ f[u] = s[u] * m[u][v]
      BY <2>1 DEF Share, Copies
    <2>3. q \in Nat /\ s[u] \in Int
      BY <2>1, LeavingDivides
    <2> HIDE DEF q, m, f
    <2> QED
      BY <2>2, <2>3
  <1>8. Passed(S, m, s)[v] = SumFunctionOnSet(f, S)
    BY DEF Passed
  <1> HIDE DEF f, g, S, ends, from, rest, m, mass, part
  <1>9. SumFunctionOnSet(f, S) = SumFunctionOnSet(f, ends) + SumFunctionOnSet(f, from \cup rest)
    <2>1. \A u \in ends \cup (from \cup rest) : f[u] \in Int
      BY <1>2, <1>4
    <2> QED
      BY <1>2, <1>3, <2>1, SumUnion
  <1>10. SumFunctionOnSet(f, from \cup rest) = SumFunctionOnSet(f, from) + SumFunctionOnSet(f, rest)
    <2>1. \A u \in from \cup rest : f[u] \in Int
      BY <1>2, <1>4
    <2> QED
      BY <1>2, <1>3, <2>1, SumUnion
  <1>11. SumFunctionOnSet(f, rest) = 0
    <2>1. SumFunctionOnSet(f, rest) = Cardinality(rest) * 0 /\ Cardinality(rest) \in Nat
      BY <1>3, <1>7, SumConstant, FS_CardinalityType
    <2> QED
      BY <2>1
  <1>12. SumFunctionOnSet(f, ends) = part * SumFunctionOnSet(mass, ends)
    <2>1. part \in Int /\ IsFiniteSet(ends)
      BY <1>1, <1>3
    <2> QED
      BY <1>5, <2>1, SumTimes
  <1>13. SumFunctionOnSet(mass, ends) \in Int
    BY <1>3, <1>5, SumInt
  <1>14. SumFunctionOnSet(f, from) = SumFunctionOnSet(g, from)
    BY <1>3, <1>6, SumSame
  <1>15. SumFunctionOnSet(f, from) \in Int
    BY <1>2, <1>3, <1>4, SumInt
  <1>16. /\ part * SumFunctionOnSet(mass, ends) = SumFunctionOnSet(mass, ends) * part
         /\ SumFunctionOnSet(mass, ends) * part \in Int
    BY <1>1, <1>13
  <1>17. Passed(S, m, s)[v] = SumFunctionOnSet(mass, ends) * part + SumFunctionOnSet(g, from)
    BY <1>8, <1>9, <1>10, <1>11, <1>12, <1>14, <1>15, <1>16
  <1> QED
    BY <1>14, <1>15, <1>16, <1>17 DEF S, ends, from, m, mass, part, g

LEMMA BaseInt ==
  ASSUME NEW d, d \subseteq EdgesOf["pagerank"], d # {}, NEW n \in Int
  PROVE  Base(d, n) \in Int
PROOF
  <1> DEFINE e == Damping[2] - Damping[1]
             part == Unit \div Cardinality(P!Vertices(d))
  <1>1. e \in Int /\ part \in Int
    BY RankParameters, SizeDivides
  <1>2. Base(d, n) = e * part * n
    BY DEF Base
  <1> HIDE DEF e, part
  <1> QED
    BY <1>1, <1>2

LEMMA TakenOut ==
  ASSUME NEW b \in Int, NEW a \in Int, NEW x \in Int, NEW y \in Int
  PROVE  b + a * x + a * y = b + a * (x + y)
OBVIOUS

\* The kernel with sets.
LEMMA SetScoresAreNext ==
  ASSUME data \subseteq EdgesOf["pagerank"], data # {},
         NEW s \in [P!Vertices(data) -> Int], NEW n \in Int
  PROVE  P!SetScores(s, n) = RankNext(data, twice, "sets", s, n)
PROOF
  <1> DEFINE S == P!Vertices(data)
             l(u) == Leaving(data, twice, "sets", u)
             part == Unit \div Cardinality(S)
             ends == Ends(data, twice, "sets")
             mass == [u \in ends |-> s[u]]
  <1>1. ASSUME NEW u
        PROVE  /\ Cardinality(P!Outgoing(u)) = l(u)
               /\ P!Outgoing(u) = {} <=> l(u) = 0
    <2> DEFINE to == {v \in S : <<u, v>> \in data}
               g == [v \in S |-> Copies(data, twice, "sets", u, v)]
    <2>1. /\ IsFiniteSet(to) /\ l(u) = SumFunctionOnSet(g, to)
          /\ l(u) = 0 <=> to = {}
      BY LeavingCounts
    <2>2. P!Outgoing(u) = to
      BY DEF P!Outgoing
    <2>3. \A v \in to : g[v] = 1
      BY DEF Copies
    <2> HIDE DEF to, g, l
    <2>4. l(u) = Cardinality(to) * 1 /\ Cardinality(to) \in Nat
      BY <2>1, <2>3, SumConstant, FS_CardinalityType
    <2> QED
      BY <2>1, <2>2, <2>4
  <1>2. {u \in S : P!Outgoing(u) = {}} = ends
    BY <1>1, Zenon DEF Ends
  <1>3. P!Size = Cardinality(S)
    BY RankOperators DEF P!Size
  <1>4. P!Spread(s, ends) = SumFunctionOnSet(mass, ends) * part
    <2>1. P!Spread(s, ends) = P!SumFunction(mass) * part
      BY <1>3 DEF P!Spread
    <2>2. DOMAIN mass = ends
      OBVIOUS
    <2> HIDE DEF mass, ends, part
    <2> QED
      BY <2>1, <2>2, RankOperators
  <1>5. ASSUME NEW v \in S
        PROVE  P!Received(s, v) = SumFunctionOnSet(Sent(data, twice, "sets", s, v), Senders(data, v))
    <2> DEFINE from == Senders(data, v)
               into == {w \in P!Incoming(v) : P!Outgoing(w) # {}}
               f == [u \in into |-> s[u] * (Unit \div P!Cardinality(P!Outgoing(u)))]
               g == Sent(data, twice, "sets", s, v)
    <2>1. into = from
      <3>1. P!Incoming(v) = from
        BY DEF P!Incoming, Senders
      <3>2. \A w \in from : P!Outgoing(w) # {}
        BY DEF P!Outgoing, Senders
      <3> QED
        BY <3>1, <3>2
    <2>2. ASSUME NEW u \in from
          PROVE  f[u] = g[u]
      <3> DEFINE a == s[u]
                 q == Unit \div l(u)
      <3>1. f[u] = a * q
        <4>1. P!Cardinality(P!Outgoing(u)) = l(u)
          BY <1>1, RankOperators
        <4> HIDE DEF into
        <4> QED
          BY <2>1, <4>1, Zenon
      <3>2. g[u] = a * Copies(data, twice, "sets", u, v) * q /\ Copies(data, twice, "sets", u, v) = 1
        BY DEF Sent, Senders, Copies
      <3>3. a \in Int
        BY DEF Senders
      <3> HIDE DEF a, q, f, g
      <3>4. a * 1 = a
        BY <3>3
      <3> QED
        BY <3>1, <3>2, <3>4
    <2>3. DOMAIN f = from /\ P!Received(s, v) = P!SumFunction(f)
      BY <2>1 DEF P!Received
    <2>4. IsFiniteSet(from)
      BY RankVertices, FS_Subset DEF Senders
    <2> HIDE DEF f, g, from, into
    <2>5. P!Received(s, v) = SumFunctionOnSet(f, from)
      BY <2>3, RankOperators
    <2>6. SumFunctionOnSet(f, from) = SumFunctionOnSet(g, from)
      BY <2>2, <2>4, SumSame
    <2> QED
      BY <2>5, <2>6 DEF g, from
  <1>6. ASSUME NEW v \in S
        PROVE  P!Base(n) + Damping[1] * P!Spread(s, ends) + Damping[1] * P!Received(s, v)
                 = Base(data, n) + Damping[1] * Passed(S, Share(data, twice, "sets"), s)[v]
    <2>1. /\ P!Spread(s, ends) \in Int /\ P!Received(s, v) \in Int
          /\ Passed(S, Share(data, twice, "sets"), s)[v] = P!Spread(s, ends) + P!Received(s, v)
      <3> DEFINE spread == SumFunctionOnSet(mass, ends) * part
                 received == SumFunctionOnSet(Sent(data, twice, "sets", s, v), Senders(data, v))
      <3>1. /\ spread \in Int /\ received \in Int
            /\ Passed(S, Share(data, twice, "sets"), s)[v] = spread + received
        BY PassedParts
      <3>2. P!Spread(s, ends) = spread /\ P!Received(s, v) = received
        BY <1>4, <1>5
      <3> HIDE DEF spread, received
      <3> QED
        BY <3>1, <3>2
    <2>2. P!Base(n) = Base(data, n)
      BY <1>3 DEF P!Base, Base
    <2> DEFINE x == P!Spread(s, ends)
               y == P!Received(s, v)
               b == Base(data, n)
    <2>3. b + Damping[1] * x + Damping[1] * y = b + Damping[1] * (x + y)
      <3>1. x \in Int /\ y \in Int
        BY <2>1
      <3>2. b \in Int /\ Damping[1] \in Int
        BY BaseInt, RankParameters
      <3> HIDE DEF x, y, b
      <3> QED
        BY <3>1, <3>2, TakenOut
    <2> QED
      BY <2>1, <2>2, <2>3, Zenon
  <1>7. P!SetScores(s, n) = [v \in S |->
          P!Base(n) + Damping[1] * P!Spread(s, ends) + Damping[1] * P!Received(s, v)]
    BY <1>2, Zenon DEF P!SetScores
  <1> QED
    BY <1>6, <1>7, Zenon DEF RankNext

\* The kernel with arrays.
LEMMA ArrayScoresAreNext ==
  ASSUME data \subseteq EdgesOf["pagerank"], data # {},
         NEW s \in [P!Vertices(data) -> Int], NEW n \in Int
  PROVE  P!ArrayScores(s, n) = RankNext(data, twice, "arrays", s, n)
PROOF
  <1> DEFINE S == P!Vertices(data)
             l(u) == Leaving(data, twice, "arrays", u)
             part == Unit \div Cardinality(S)
             ends == Ends(data, twice, "arrays")
             mass == [u \in ends |-> s[u]]
  <1>1. /\ IsFiniteSet(data)
        /\ \A e \in data : e = <<e[1], e[2]>> /\ e[1] \in S /\ e[2] \in S
        /\ \A e \in data : P!Copies(e) = Copies(data, twice, "arrays", e[1], e[2])
    <2>1. \A e \in data : e = <<e[1], e[2]>>
      BY RankParameters
    <2> QED
      BY <2>1, RankVertices DEF P!Copies, Copies
  <1>2. ASSUME NEW u
        PROVE  P!OutDegree(u) = l(u)
    <2> DEFINE to == {v \in S : <<u, v>> \in data}
               g == [v \in S |-> Copies(data, twice, "arrays", u, v)]
               leaving == {f \in data : f[1] = u}
               c == [e \in leaving |-> P!Copies(e)]
               target == [e \in leaving |-> e[2]]
    <2>1. l(u) = SumFunctionOnSet(g, to)
      BY LeavingCounts
    <2>2. IsFiniteSet(leaving)
      BY <1>1, FS_Subset
    <2>3. \A e, f \in leaving : target[e] = target[f] => e = f
      BY <1>1
    <2>4. \A e \in leaving : c[e] \in Int /\ g[target[e]] = c[e]
      BY <1>1, CopiesType
    <2>5. {target[e] : e \in leaving} = to
      <3>1. \A e \in leaving : target[e] \in to
        BY <1>1
      <3>2. ASSUME NEW v \in to
            PROVE  <<u, v>> \in leaving /\ target[<<u, v>>] = v
        OBVIOUS
      <3> HIDE DEF leaving, target, to
      <3> QED
        BY <3>1, <3>2
    <2>6. DOMAIN c = leaving /\ P!OutDegree(u) = P!SumFunction(c)
      BY DEF P!OutDegree
    <2> HIDE DEF to, g, leaving, c, target
    <2>7. SumFunctionOnSet(g, {target[e] : e \in leaving}) = SumFunctionOnSet(c, leaving)
      BY <2>2, <2>3, <2>4, SumMap
    <2> QED
      BY <2>1, <2>5, <2>6, <2>7, RankOperators
  <1>3. {u \in S : P!OutDegree(u) = 0} = ends
    BY <1>2, Zenon DEF Ends
  <1>4. P!Size = Cardinality(S)
    BY RankOperators DEF P!Size
  <1>5. P!Spread(s, ends) = SumFunctionOnSet(mass, ends) * part
    <2>1. P!Spread(s, ends) = P!SumFunction(mass) * part
      BY <1>4 DEF P!Spread
    <2>2. DOMAIN mass = ends
      OBVIOUS
    <2> HIDE DEF mass, ends, part
    <2> QED
      BY <2>1, <2>2, RankOperators
  <1>6. ASSUME NEW v \in S
        PROVE  P!Added(s, v) = SumFunctionOnSet(Sent(data, twice, "arrays", s, v), Senders(data, v))
    <2> DEFINE from == Senders(data, v)
               into == {f \in data : f[2] = v}
               f == [e \in into |-> P!Copies(e) * P!Contribution(s, e)]
               g == Sent(data, twice, "arrays", s, v)
               origin == [e \in into |-> e[1]]
    <2>1. IsFiniteSet(into)
      BY <1>1, FS_Subset
    <2>2. \A e, h \in into : origin[e] = origin[h] => e = h
      BY <1>1
    <2>3. {origin[e] : e \in into} = from
      <3>1. \A e \in into : origin[e] \in from
        BY <1>1 DEF Senders
      <3>2. ASSUME NEW u \in from
            PROVE  <<u, v>> \in into /\ origin[<<u, v>>] = u
        BY DEF Senders
      <3> HIDE DEF into, origin, from
      <3> QED
        BY <3>1, <3>2
    <2>4. ASSUME NEW e \in into
          PROVE  f[e] \in Int /\ g[origin[e]] = f[e]
      <3> DEFINE u == e[1]
                 a == s[u]
                 b == Copies(data, twice, "arrays", u, v)
                 q == Unit \div l(u)
      <3>1. u \in from /\ e = <<u, v>> /\ origin[e] = u
        BY <1>1 DEF Senders
      <3>2. P!Copies(e) = b
        BY <1>1
      <3>3. P!Contribution(s, e) = a * q
        BY <1>2, Zenon DEF P!Contribution
      <3>4. f[e] = b * (a * q)
        BY <3>2, <3>3
      <3>5. g[u] = a * b * q
        BY <3>1 DEF Sent
      <3>6. u \in S /\ l(u) # 0
        BY <3>1, LeavingCounts DEF Senders
      <3>7. a \in Int /\ b \in Int /\ q \in Int
        BY <3>6, CopiesType, LeavingDivides
      <3> HIDE DEF a, b, q, f, g
      <3>8. b * (a * q) = a * b * q /\ b * (a * q) \in Int
        BY <3>7
      <3> QED
        BY <3>1, <3>4, <3>5, <3>8
    <2>5. DOMAIN f = into /\ P!Added(s, v) = P!SumFunction(f)
      BY DEF P!Added
    <2> HIDE DEF f, g, from, into, origin
    <2>6. SumFunctionOnSet(g, {origin[e] : e \in into}) = SumFunctionOnSet(f, into)
      BY <2>1, <2>2, <2>4, SumMap
    <2> QED
      BY <2>3, <2>5, <2>6, RankOperators DEF g, from
  <1>7. ASSUME NEW v \in S
        PROVE  P!Base(n) + Damping[1] * P!Spread(s, ends) + Damping[1] * P!Added(s, v)
                 = Base(data, n) + Damping[1] * Passed(S, Share(data, twice, "arrays"), s)[v]
    <2>1. /\ P!Spread(s, ends) \in Int /\ P!Added(s, v) \in Int
          /\ Passed(S, Share(data, twice, "arrays"), s)[v] = P!Spread(s, ends) + P!Added(s, v)
      <3> DEFINE spread == SumFunctionOnSet(mass, ends) * part
                 received == SumFunctionOnSet(Sent(data, twice, "arrays", s, v), Senders(data, v))
      <3>1. /\ spread \in Int /\ received \in Int
            /\ Passed(S, Share(data, twice, "arrays"), s)[v] = spread + received
        BY PassedParts
      <3>2. P!Spread(s, ends) = spread /\ P!Added(s, v) = received
        BY <1>5, <1>6
      <3> HIDE DEF spread, received
      <3> QED
        BY <3>1, <3>2
    <2>2. P!Base(n) = Base(data, n)
      BY <1>4 DEF P!Base, Base
    <2> DEFINE x == P!Spread(s, ends)
               y == P!Added(s, v)
               b == Base(data, n)
    <2>3. b + Damping[1] * x + Damping[1] * y = b + Damping[1] * (x + y)
      <3>1. x \in Int /\ y \in Int
        BY <2>1
      <3>2. b \in Int /\ Damping[1] \in Int
        BY BaseInt, RankParameters
      <3> HIDE DEF x, y, b
      <3> QED
        BY <3>1, <3>2, TakenOut
    <2> QED
      BY <2>1, <2>2, <2>3, Zenon
  <1>8. P!ArrayScores(s, n) = [v \in S |->
          P!Base(n) + Damping[1] * P!Spread(s, ends) + Damping[1] * P!Added(s, v)]
    BY <1>3, Zenon DEF P!ArrayScores
  <1> QED
    BY <1>7, <1>8, Zenon DEF RankNext

LEMMA NextScoresAreNext ==
  ASSUME data \subseteq EdgesOf["pagerank"], data # {}, kernel \in Kernels,
         NEW s \in [P!Vertices(data) -> Int], NEW n \in Int
  PROVE  P!NextScores(s, n) = RankNext(data, twice, kernel, s, n)
PROOF
  <1>1. P!SetScores(s, n) = RankNext(data, twice, "sets", s, n)
    BY SetScoresAreNext
  <1>2. P!ArrayScores(s, n) = RankNext(data, twice, "arrays", s, n)
    BY ArrayScoresAreNext
  <1> QED
    BY <1>1, <1>2, Zenon DEF P!NextScores, Kernels

\* A vertex that repeats none of its edges, or all, shares alike in both kernels.
LEMMA SharesAgree ==
  ASSUME NEW d, d \subseteq EdgesOf["pagerank"], NEW t,
         \A e, f \in d : e[1] = f[1] => (e \in t <=> f \in t)
  PROVE  Share(d, t, "sets") = Share(d, t, "arrays")
PROOF
  <1> DEFINE S == P!Vertices(d)
             one(u, v) == Copies(d, t, "sets", u, v)
             two(u, v) == Copies(d, t, "arrays", u, v)
             ones(u) == Leaving(d, t, "sets", u)
             twos(u) == Leaving(d, t, "arrays", u)
             row(kind, u) ==
               [v \in S |->
                  IF Leaving(d, t, kind, u) = 0 THEN Unit \div Cardinality(S)
                  ELSE (Unit \div Leaving(d, t, kind, u)) * Copies(d, t, kind, u, v)]
  <1>1. ASSUME NEW u \in S
        PROVE  row("sets", u) = row("arrays", u)
    <2>1. CASE \A v \in S : <<u, v>> \in d => <<u, v>> \notin t
      <3>1. \A v \in S : one(u, v) = two(u, v)
        BY <2>1 DEF Copies
      <3>2. ones(u) = twos(u)
        BY <3>1, Zenon DEF Leaving
      <3> QED
        BY <3>1, <3>2, Zenon
    <2>2. CASE \A v \in S : <<u, v>> \in d => <<u, v>> \in t
      <3> DEFINE f == [v \in S |-> one(u, v)]
                 g == [v \in S |-> two(u, v)]
      <3>1. \A v \in S : f[v] \in Int /\ g[v] = 2 * f[v] /\ f[v] = one(u, v) /\ g[v] = two(u, v)
        BY <2>2 DEF Copies
      <3>2. IsFiniteSet(S)
        BY RankVertices
      <3>3. ones(u) = SumFunctionOnSet(f, S) /\ twos(u) = SumFunctionOnSet(g, S)
        BY DEF Leaving
      <3> HIDE DEF f, g, S, one, two
      <3>4. SumFunctionOnSet(g, S) = 2 * SumFunctionOnSet(f, S)
        BY <3>1, <3>2, SumTimes
      <3>5. ones(u) \in Nat /\ twos(u) = 2 * ones(u)
        BY <3>3, <3>4, LeavingType
      <3>6. CASE ones(u) = 0
        <4>1. twos(u) = 0
          BY <3>5, <3>6
        <4> QED
          BY <3>6, <4>1, Zenon
      <3>7. CASE ones(u) # 0
        <4> DEFINE p == Unit \div ones(u)
                   q == Unit \div twos(u)
        <4>1. twos(u) # 0
          BY <3>5, <3>7
        <4>2. p \in Nat /\ q \in Nat /\ p * ones(u) = Unit /\ q * twos(u) = Unit
          BY <3>7, <4>1, LeavingDivides
        <4> HIDE DEF p, q, ones, twos
        <4>3. p = 2 * q
          <5> DEFINE x == ones(u)
          <5>1. x \in Nat /\ x # 0 /\ p * x = q * (2 * x)
            BY <3>5, <3>7, <4>2
          <5> HIDE DEF x
          <5>2. (p - 2 * q) * x = 0
            BY <4>2, <5>1
          <5> QED
            BY <4>2, <5>1, <5>2
        <4>4. ASSUME NEW v \in S
              PROVE  p * one(u, v) = q * two(u, v)
          <5> DEFINE x == one(u, v)
          <5>1. x \in Int /\ two(u, v) = 2 * x
            BY <3>1
          <5> HIDE DEF x
          <5>2. (2 * q) * x = q * (2 * x)
            BY <4>2, <5>1
          <5> QED
            BY <4>3, <5>1, <5>2 DEF x
        <4> QED
          BY <3>7, <4>1, <4>4, Zenon DEF p, q, ones, twos, one, two
      <3> QED
        BY <3>6, <3>7
    <2>3. \/ \A v \in S : <<u, v>> \in d => <<u, v>> \notin t
          \/ \A v \in S : <<u, v>> \in d => <<u, v>> \in t
      <3>1. \A v, w \in S : <<u, v>> \in d /\ <<u, w>> \in d => (<<u, v>> \in t <=> <<u, w>> \in t)
        OBVIOUS
      <3> QED
        BY <3>1, Zenon
    <2> QED
      BY <2>1, <2>2, <2>3
  <1>2. \A kind : Share(d, t, kind) = [u \in S |-> row(kind, u)]
    BY Zenon DEF Share
  <1> HIDE DEF row, S
  <1> QED
    BY <1>1, <1>2, Zenon

LEMMA DifferenceIsMoved ==
  ASSUME NEW d, NEW t, NEW kind, NEW s, NEW n,
         NEW next, next = RankNext(d, t, kind, s, n)
  PROVE  P!Difference(next, s) = RankMoved(d, t, kind, s, n)
PROOF
  <1> DEFINE S == P!Vertices(d)
             change == [v \in S |-> next[v] - Damping[2] * Unit * s[v]]
             f == [v \in S |-> Magnitude(change[v])]
             g == [v \in DOMAIN next |->
                     IF next[v] - Damping[2] * Unit * s[v] < 0
                     THEN -(next[v] - Damping[2] * Unit * s[v])
                     ELSE next[v] - Damping[2] * Unit * s[v]]
  <1>1. DOMAIN next = S
    BY DEF RankNext
  <1>2. f = g
    BY <1>1 DEF Magnitude
  <1>3. P!Difference(next, s) = P!SumFunction(g)
    BY Zenon DEF P!Difference
  <1>4. RankMoved(d, t, kind, s, n) = SumFunctionOnSet(f, S)
    BY Zenon DEF RankMoved, Norm
  <1>5. DOMAIN f = S
    OBVIOUS
  <1> HIDE DEF f, g, S
  <1> QED
    BY <1>2, <1>3, <1>4, <1>5, RankOperators

\* What always holds of a run: the scores sum up to their denominator, and the
\* superstep to come moves them by no more than damping times delta.
RankInv ==
  /\ P!TypeOK
  /\ ~done => data # {} /\ iterations < MaxIterations["pagerank"]
  /\ iterations > 0 => data # {}
  /\ data # {} => SumFunctionOnSet(scores, P!Vertices(data)) = scale
  /\ iterations > 0 =>
       RankMoved(data, twice, kernel, scores, scale) <= Damping[1] * Unit * delta

LEMMA RankInitInv == P!Init => RankInv
PROOF
  <1> SUFFICES ASSUME P!Init PROVE RankInv
    OBVIOUS
  <1> DEFINE S == P!Vertices(data)
  <1>1. /\ data \subseteq EdgesOf["pagerank"] /\ iterations = 0 /\ delta = 0
        /\ scores = [v \in S |-> 1] /\ scale = P!Size
        /\ done = (data = {} \/ MaxIterations["pagerank"] = 0)
    BY DEF P!Init
  <1>2. IsFiniteSet(S) /\ P!Size = Cardinality(S)
    BY <1>1, RankVertices, RankOperators DEF P!Size
  <1>3. Cardinality(S) \in Nat
    BY <1>2, FS_CardinalityType
  <1>4. SumFunctionOnSet(scores, S) = scale
    <2>1. \A v \in S : scores[v] = 1
      BY <1>1
    <2> HIDE DEF S
    <2>2. SumFunctionOnSet(scores, S) = Cardinality(S) * 1
      BY <1>2, <2>1, SumConstant
    <2> QED
      BY <1>1, <1>2, <1>3, <2>2
  <1>5. P!TypeOK
    <2>1. scores \in [S -> Nat] /\ iterations \in 0 .. MaxIterations["pagerank"]
      BY <1>1, RankParameters
    <2> QED
      BY <1>1, <1>2, <1>3, <2>1 DEF P!Init, P!TypeOK
  <1>6. ~done => data # {} /\ iterations < MaxIterations["pagerank"]
    <2>1. ~done => data # {} /\ MaxIterations["pagerank"] # 0
      BY <1>1, Zenon
    <2> QED
      BY <1>1, <2>1, RankParameters
  <1> QED
    BY <1>1, <1>4, <1>5, <1>6 DEF RankInv

LEMMA RankStepInv ==
  ASSUME RankInv, P!Superstep
  PROVE  RankInv'
PROOF
  <1> DEFINE S == P!Vertices(data)
             next == RankNext(data, twice, kernel, scores, scale)
             shift == RankMoved(data, twice, kernel, scores, scale)
  <1>1. /\ data \subseteq EdgesOf["pagerank"] /\ data # {} /\ scores \in [S -> Nat]
        /\ scale \in Nat /\ SumFunctionOnSet(scores, S) = scale
        /\ iterations \in 0 .. MaxIterations["pagerank"] /\ iterations < MaxIterations["pagerank"]
        /\ twice \in SUBSET data /\ kernel \in {"sets", "arrays"}
    BY DEF RankInv, P!TypeOK, P!Superstep
  <1>2. P!NextScores(scores, scale) = next
    <2>1. scores \in [P!Vertices(data) -> Int] /\ scale \in Int /\ kernel \in Kernels
      BY <1>1 DEF Kernels
    <2> QED
      BY <1>1, <2>1, NextScoresAreNext
  <1>3. P!Difference(next, scores) = shift
    BY DifferenceIsMoved
  <1>4. /\ data' = data /\ twice' = twice /\ kernel' = kernel /\ scores' = next
        /\ scale' = Damping[2] * Unit * scale /\ delta' = shift /\ iterations' = iterations + 1
        /\ converged' = (delta' * Tolerance[2] <= Tolerance[1] * scale')
        /\ done' = (converged' \/ iterations' = MaxIterations["pagerank"])
    BY <1>2, <1>3, Zenon DEF P!Superstep
  <1>5. next \in [S -> Nat] /\ SumFunctionOnSet(next, S) = Damping[2] * Unit * scale
    BY <1>1, NextKeepsMass
  <1>6. shift \in Nat
        /\ RankMoved(data, twice, kernel, next, Damping[2] * Unit * scale) <= Damping[1] * Unit * shift
    <2> HIDE DEF next
    <2>1. next \in [P!Vertices(data) -> Nat] /\ next = RankNext(data, twice, kernel, scores, scale)
      BY <1>5 DEF next
    <2> QED
      BY <1>1, <2>1, NextContracts
  <1> HIDE DEF next, shift
  <1>7. S' = S
    BY <1>4
  <1>8. scale' \in Nat
    BY <1>1, <1>4, RankParameters
  <1>9. iterations' \in 0 .. MaxIterations["pagerank"] /\ iterations' > 0
    BY <1>1, <1>4, RankParameters
  <1>10. P!TypeOK'
    <2>1. converged' \in BOOLEAN /\ done' \in BOOLEAN
      BY <1>4
    <2> QED
      BY <1>1, <1>4, <1>5, <1>6, <1>7, <1>8, <1>9, <2>1 DEF P!TypeOK
  <1>11. ~done' => iterations' < MaxIterations["pagerank"]
    <2>1. ~done' => iterations' # MaxIterations["pagerank"]
      BY <1>4, Zenon
    <2> QED
      BY <1>9, <2>1, RankParameters
  <1>12. SumFunctionOnSet(scores', S) = scale'
    BY <1>4, <1>5
  <1>13. RankMoved(data, twice, kernel, scores', scale') <= Damping[1] * Unit * delta'
    BY <1>4, <1>6
  <1> QED
    BY <1>1, <1>4, <1>7, <1>9, <1>10, <1>11, <1>12, <1>13, Zenon DEF RankInv

RankRun == plugin = "pagerank" => RankInv

\* The invariant holds for every finite dataset, damping and tolerance.
THEOREM RankInvariance == Spec => []RankRun
PROOF
  <1>1. Init => RankRun
    BY PluginBegins, RankInitInv DEF RankRun
  <1>2. RankRun /\ [Next]_vars => RankRun'
    <2> SUFFICES ASSUME RankInv, [P!Next]_(P!vars)
                 PROVE  RankInv'
      BY PluginRuns DEF RankRun
    <2>1. CASE UNCHANGED P!vars
      <3>1. UNCHANGED <<data, twice, kernel, scores, scale, delta, iterations, converged, done>>
        BY <2>1 DEF P!vars
      <3> QED
        BY <3>1 DEF RankInv, P!TypeOK
    <2>2. CASE P!Next
      BY <2>2, RankStepInv DEF P!Next
    <2> QED
      BY <2>1, <2>2
  <1> QED
    BY <1>1, <1>2, PTL DEF Spec

\* No score is lost or made: dangling vertices spread what they have.
THEOREM NoScoreIsLost == Spec => []MassIsPreserved
PROOF
  <1>1. RankRun => MassIsPreserved
    <2> SUFFICES ASSUME RankInv, data # {} PROVE P!SumFunction(scores) = scale
      BY DEF RankRun, MassIsPreserved, P!MassIsPreserved
    <2>1. DOMAIN scores = P!Vertices(data) /\ SumFunctionOnSet(scores, P!Vertices(data)) = scale
      BY DEF RankInv, P!TypeOK
    <2> QED
      BY <2>1, RankOperators
  <1> QED
    BY <1>1, RankInvariance, PTL

\* Small changes stay small: supersteps are contractions with factor damping.
THEOREM DeltaStaysSmall == Spec => []SuperstepsContract
PROOF
  <1>1. RankRun => SuperstepsContract
    <2> SUFFICES ASSUME RankInv, iterations > 0
                 PROVE  P!Difference(P!NextScores(scores, scale), scores)
                          <= Damping[1] * Unit * delta
      BY DEF RankRun, SuperstepsContract, P!SuperstepsContract
    <2>1. /\ data \subseteq EdgesOf["pagerank"] /\ data # {} /\ scale \in Int
          /\ scores \in [P!Vertices(data) -> Int] /\ kernel \in Kernels
      BY DEF RankInv, P!TypeOK, Kernels
    <2>2. P!NextScores(scores, scale) = RankNext(data, twice, kernel, scores, scale)
      BY <2>1, NextScoresAreNext
    <2>3. P!Difference(P!NextScores(scores, scale), scores)
            = RankMoved(data, twice, kernel, scores, scale)
      BY <2>2, DifferenceIsMoved
    <2> QED
      BY <2>3 DEF RankInv
  <1> QED
    BY <1>1, RankInvariance, PTL

\* The kernels, one over sets of neighbours and one over positions of edges,
\* agree on every dataset whose vertices repeat all of their edges or none.
THEOREM KernelsComputeTheSame == Spec => []KernelsAgree
PROOF
  <1>1. RankRun => KernelsAgree
    <2> SUFFICES ASSUME RankInv,
                        \A e, f \in data : e[1] = f[1] => (e \in twice <=> f \in twice)
                 PROVE  P!SetScores(scores, scale) = P!ArrayScores(scores, scale)
      BY DEF RankRun, KernelsAgree, P!KernelsAgree
    <2>1. /\ data \subseteq EdgesOf["pagerank"] /\ scale \in Int
          /\ scores \in [P!Vertices(data) -> Int]
      BY DEF RankInv, P!TypeOK
    <2>2. CASE data = {}
      <3>1. P!Vertices(data) = {}
        BY <2>2 DEF P!Vertices
      <3> QED
        BY <3>1 DEF P!SetScores, P!ArrayScores
    <2>3. CASE data # {}
      <3>1. /\ P!SetScores(scores, scale) = RankNext(data, twice, "sets", scores, scale)
            /\ P!ArrayScores(scores, scale) = RankNext(data, twice, "arrays", scores, scale)
        BY <2>1, <2>3, SetScoresAreNext, ArrayScoresAreNext
      <3>2. Share(data, twice, "sets") = Share(data, twice, "arrays")
        BY <2>1, SharesAgree
      <3>3. RankNext(data, twice, "sets", scores, scale) = RankNext(data, twice, "arrays", scores, scale)
        BY <3>2, Zenon DEF RankNext
      <3> QED
        BY <3>1, <3>3
    <2> QED
      BY <2>2, <2>3
  <1> QED
    BY <1>1, RankInvariance, PTL

-----------------------------------------------------------------------------
(* label_propagation                                                       *)

\* A vertex that wants no other label.
Settled(v) == labels[v] \in L!MostFrequent(v) /\ \A l \in L!MostFrequent(v) : labels[v] <= l

\* As long as nothing has changed in this pass, the vertices it has visited are
\* settled; so are all when the loop ended before its bound.
LabelInv ==
  /\ L!TypeOK
  /\ ~done => iterations < MaxIterations["label_propagation"]
  /\ ~done /\ ~changed => \A v \in L!Vertices(data) \ todo : Settled(v)
  /\ L!Converged => \A v \in L!Vertices(data) : Settled(v)

LEMMA LabelInitInv == L!Init => LabelInv
PROOF
  <1> SUFFICES ASSUME L!Init PROVE LabelInv
    OBVIOUS
  <1> DEFINE last == MaxIterations["label_propagation"]
  <1>1. /\ data \in SUBSET EdgesOf["label_propagation"] /\ iterations = 0 /\ changed = FALSE
        /\ labels = [v \in L!Vertices(data) |-> v] /\ last \in Nat
        /\ done = (last = 0)
        /\ todo = IF done THEN {} ELSE L!Vertices(data)
    BY LabelParameters DEF L!Init
  <1>2. L!TypeOK
    <2>1. done \in BOOLEAN
      BY <1>1, Zenon
    <2>2. todo \subseteq L!Vertices(data)
      BY <1>1, Zenon
    <2>3. iterations \in 0 .. last
      BY <1>1
    <2> QED
      BY <1>1, <2>1, <2>2, <2>3, Zenon DEF L!TypeOK
  <1>3. (~done => last # 0) /\ (done => last = 0)
    BY <1>1, Zenon
  <1>4. L!Converged => FALSE
    <2>1. done /\ iterations < last => FALSE
      BY <1>1, <1>3
    <2> QED
      BY <2>1 DEF L!Converged
  <1> QED
    BY <1>1, <1>2, <1>3, <1>4 DEF LabelInv

LEMMA SettledStays ==
  ASSUME data' = data, labels' = labels, NEW v, Settled(v)
  PROVE  Settled(v)'
PROOF
  <1>1. L!Seen(v)' = L!Seen(v)
    BY DEF L!Seen
  <1>2. \A l : L!Count(v, l)' = L!Count(v, l)
    BY DEF L!Count
  <1>3. L!MostFrequent(v)' = L!MostFrequent(v)
    <2>1. ASSUME NEW l
          PROVE  l \in L!MostFrequent(v)' <=> l \in L!MostFrequent(v)
      BY <1>1, <1>2 DEF L!MostFrequent
    <2> QED
      BY <2>1
  <1> QED
    BY <1>3, Zenon DEF Settled

LEMMA LabelVisitInv ==
  ASSUME LabelInv, NEW v \in Nodes, L!Visit(v)
  PROVE  LabelInv'
PROOF
  <1> DEFINE S == L!Vertices(data)
  <1>1. PICK best \in L!MostFrequent(v) :
          /\ \A l \in L!MostFrequent(v) : best <= l
          /\ labels' = [labels EXCEPT ![v] = best]
          /\ changed' = (changed \/ best # labels[v])
    BY DEF L!Visit
  <1>2. /\ data' = data /\ iterations' = iterations /\ done' = done /\ ~done
        /\ todo' = todo \ {v} /\ v \in todo
    BY DEF L!Visit
  <1>3. labels \in [S -> S] /\ v \in S /\ S' = S
    BY <1>2 DEF LabelInv, L!TypeOK
  <1>4. best \in S
    BY <1>1, <1>3 DEF L!MostFrequent, L!Seen, L!Neighbors
  <1>5. L!TypeOK'
    <2>1. labels' \in [S -> S] /\ todo' \subseteq S /\ changed' \in BOOLEAN
      BY <1>1, <1>2, <1>3, <1>4 DEF LabelInv, L!TypeOK
    <2> QED
      BY <1>2, <1>3, <2>1 DEF LabelInv, L!TypeOK
  <1>6. ASSUME ~changed'
        PROVE  \A u \in S \ todo' : Settled(u)'
    <2>1. ~changed /\ best = labels[v]
      BY <1>1, <1>6, Zenon
    <2>2. labels' = labels
      BY <1>1, <1>3, <2>1
    <2>3. Settled(v)
      BY <1>1, <2>1 DEF Settled
    <2>4. \A u \in S \ todo' : Settled(u)
      BY <1>2, <2>1, <2>3 DEF LabelInv
    <2> QED
      BY <1>2, <2>2, <2>4, SettledStays
  <1>7. ~L!Converged'
    BY <1>2 DEF L!Converged
  <1> HIDE DEF S
  <1>8. L!Vertices(data)' = S
    BY <1>3 DEF S
  <1> QED
    BY <1>2, <1>5, <1>6, <1>7, <1>8 DEF LabelInv

LEMMA LabelEndPassInv ==
  ASSUME LabelInv, L!EndPass
  PROVE  LabelInv'
PROOF
  <1> DEFINE S == L!Vertices(data)
             last == MaxIterations["label_propagation"]
  <1>1. /\ data' = data /\ labels' = labels /\ ~done /\ todo = {}
        /\ iterations' = iterations + 1
        /\ done' = (~changed \/ iterations' = last)
        /\ changed' = IF done' THEN changed ELSE FALSE
        /\ todo' = IF done' THEN {} ELSE S
    BY DEF L!EndPass
  <1>2. /\ iterations \in Nat /\ iterations < last /\ last \in Nat
        /\ data \in SUBSET EdgesOf["label_propagation"] /\ labels \in [S -> S] /\ changed \in BOOLEAN
        /\ ~changed => \A v \in S : Settled(v)
    BY <1>1, LabelParameters DEF LabelInv, L!TypeOK
  <1>3. S' = S
    BY <1>1
  <1>4. L!TypeOK'
    <2>1. done' \in BOOLEAN
      BY <1>1, Zenon
    <2>2. changed' \in BOOLEAN /\ todo' \subseteq S
      BY <1>1, <1>2, Zenon
    <2>3. iterations' \in 0 .. last
      BY <1>1, <1>2
    <2> QED
      BY <1>1, <1>2, <1>3, <2>1, <2>2, <2>3 DEF L!TypeOK
  <1>5. ~done' => iterations' < last
    <2>1. ~done' => iterations' # last
      BY <1>1, Zenon
    <2> QED
      BY <1>1, <1>2, <2>1
  <1>6. ~done' => S \ todo' = {}
    BY <1>1
  <1>7. ASSUME L!Converged'
        PROVE  \A v \in S : Settled(v)'
    <2>1. done' /\ iterations' < last
      BY <1>7 DEF L!Converged
    <2>2. iterations' # last
      BY <1>1, <1>2, <2>1
    <2>3. ~changed
      BY <1>1, <2>1, <2>2, Zenon
    <2> QED
      BY <1>1, <1>2, <2>3, SettledStays
  <1> HIDE DEF S
  <1>8. L!Vertices(data)' = S
    BY <1>3 DEF S
  <1> QED
    BY <1>4, <1>5, <1>6, <1>7, <1>8 DEF LabelInv

LabelRun == plugin = "label_propagation" => LabelInv

\* The invariant holds for every graph and bound.
THEOREM LabelInvariance == Spec => []LabelRun
PROOF
  <1>1. Init => LabelRun
    BY PluginBegins, LabelInitInv DEF LabelRun
  <1>2. LabelRun /\ [Next]_vars => LabelRun'
    <2> SUFFICES ASSUME LabelInv, [L!Next]_(L!vars)
                 PROVE  LabelInv'
      BY PluginRuns DEF LabelRun
    <2>1. CASE UNCHANGED L!vars
      <3>1. UNCHANGED <<data, labels, todo, changed, iterations, done>>
        BY <2>1 DEF L!vars
      <3>2. \A v : Settled(v) => Settled(v)'
        BY <3>1, SettledStays
      <3>3. L!Vertices(data)' = L!Vertices(data)
        BY <3>1
      <3> QED
        BY <3>1, <3>2, <3>3 DEF LabelInv, L!TypeOK, L!Converged
    <2>2. CASE L!Next
      BY <2>2, LabelVisitInv, LabelEndPassInv DEF L!Next
    <2> QED
      BY <2>1, <2>2
  <1> QED
    BY <1>1, <1>2, PTL DEF Spec

\* The pairs of neighbours that agree, those without v, and the neighbours of v
\* that have a label.
Agree(d, c) ==
  {p \in L!Vertices(d) \X L!Vertices(d) :
     p[1] # p[2] /\ p[1] \in L!Neighbors(d, p[2]) /\ c[p[1]] = c[p[2]]}

Others(d, c, v) == {p \in Agree(d, c) : p[1] # v /\ p[2] # v}

With(d, c, v, l) == {w \in L!Neighbors(d, v) : w # v /\ c[w] = l}

LEMMA LabelOperators ==
  /\ \A f : L!SumFunction(f) = SumFunctionOnSet(f, DOMAIN f)
  /\ \A S : L!Cardinality(S) = Cardinality(S)
PROOF
  <1>1. \A f : L!SumFunction(f) = SumFunctionOnSet(f, DOMAIN f)
    BY Zenon DEF L!SumFunction, L!SumFunctionOnSet, L!FoldFunctionOnSet, L!MapThenFoldSet,
       SumFunctionOnSet, FoldFunctionOnSet, MapThenFoldSet
  <1>2. \A S : L!Cardinality(S) = Cardinality(S)
    BY Zenon DEF L!Cardinality, Cardinality
  <1> QED
    BY <1>1, <1>2

LEMMA LabelGraph ==
  ASSUME NEW d, d \subseteq EdgesOf["label_propagation"]
  PROVE  /\ IsFiniteSet(L!Vertices(d)) /\ L!Vertices(d) \subseteq Int
         /\ \A v : L!Neighbors(d, v) \subseteq L!Vertices(d) /\ IsFiniteSet(L!Neighbors(d, v))
         /\ \A v \in L!Vertices(d) : \A w \in L!Vertices(d) :
              w \in L!Neighbors(d, v) <=> v \in L!Neighbors(d, w)
PROOF
  <1>1. IsFiniteSet(d)
    BY LabelParameters, FS_Subset
  <1>2. [e \in d |-> e[1]] \in Surjection(d, {e[1] : e \in d})
    BY DEF Surjection
  <1>3. [e \in d |-> e[2]] \in Surjection(d, {e[2] : e \in d})
    BY DEF Surjection
  <1>4. IsFiniteSet({e[1] : e \in d}) /\ IsFiniteSet({e[2] : e \in d})
    BY <1>1, <1>2, <1>3, FS_Surjection DEF ExistsSurjection
  <1>5. IsFiniteSet(L!Vertices(d))
    BY <1>4, FS_Union DEF L!Vertices
  <1>6. \A v : L!Neighbors(d, v) \subseteq L!Vertices(d)
    BY DEF L!Neighbors
  <1>7. \A v : IsFiniteSet(L!Neighbors(d, v))
    BY <1>5, <1>6, FS_Subset
  <1>8. L!Vertices(d) \subseteq Int
    BY LabelParameters DEF L!Vertices
  <1> QED
    BY <1>5, <1>6, <1>7, <1>8 DEF L!Neighbors

\* A neighbour that agrees with v makes two pairs.
LEMMA AgreeSplit ==
  ASSUME NEW d, d \subseteq EdgesOf["label_propagation"], NEW c, NEW v \in L!Vertices(d)
  PROVE  /\ IsFiniteSet(With(d, c, v, c[v]))
         /\ Cardinality(Others(d, c, v)) \in Nat /\ Cardinality(With(d, c, v, c[v])) \in Nat
         /\ Cardinality(Agree(d, c)) = Cardinality(Others(d, c, v)) + 2 * Cardinality(With(d, c, v, c[v]))
PROOF
  <1> DEFINE S == L!Vertices(d)
             A == Agree(d, c)
             O == Others(d, c, v)
             W == With(d, c, v, c[v])
             from == {p \in A : p[1] = v}
             to == {p \in A : p[2] = v}
  <1>1. IsFiniteSet(S)
    BY LabelGraph
  <1>2. IsFiniteSet(A) /\ IsFiniteSet(O) /\ IsFiniteSet(from) /\ IsFiniteSet(to) /\ IsFiniteSet(W)
    <2>1. IsFiniteSet(S \X S)
      BY <1>1, FS_Product
    <2>2. IsFiniteSet(A)
      BY <2>1, FS_Subset DEF Agree
    <2>3. O \subseteq A /\ from \subseteq A /\ to \subseteq A
      BY DEF Others
    <2>4. IsFiniteSet(W)
      BY LabelGraph, FS_Subset DEF With
    <2> HIDE DEF A, O, from, to
    <2> QED
      BY <2>2, <2>3, <2>4, FS_Subset
  <1>3. A = O \cup (from \cup to) /\ O \cap (from \cup to) = {} /\ from \cap to = {}
    <2>1. \A p \in A : p[1] # p[2]
      BY DEF Agree
    <2> QED
      BY <2>1 DEF Others
  <1>4. \A w : w \in W => w \in S /\ w # v /\ w \in L!Neighbors(d, v) /\ v \in L!Neighbors(d, w) /\ c[w] = c[v]
    BY LabelGraph DEF With
  <1>5. Cardinality(from) = Cardinality(W)
    <2> DEFINE f == [w \in W |-> <<v, w>>]
    <2>1. \A w \in W : <<v, w>> \in from
      BY <1>4 DEF Agree
    <2>2. \A p \in from : \E w \in W : p = <<v, w>>
      <3> SUFFICES ASSUME NEW p \in from PROVE \E w \in W : p = <<v, w>>
        OBVIOUS
      <3>1. /\ p \in S \X S /\ p[1] = v /\ p[2] # v /\ v \in L!Neighbors(d, p[2])
            /\ c[p[2]] = c[v] /\ p = <<v, p[2]>>
        BY DEF Agree
      <3>2. p[2] \in W
        BY <3>1, LabelGraph DEF With
      <3> QED
        BY <3>1, <3>2
    <2> HIDE DEF W, from
    <2>3. f \in Bijection(W, from)
      BY <2>1, <2>2 DEF Bijection, Injection, Surjection, IsInjective
    <2> QED
      BY <1>2, <2>3, FS_Bijection DEF ExistsBijection
  <1>6. Cardinality(to) = Cardinality(W)
    <2> DEFINE f == [w \in W |-> <<w, v>>]
    <2>1. \A w \in W : <<w, v>> \in to
      BY <1>4 DEF Agree
    <2>2. \A p \in to : \E w \in W : p = <<w, v>>
      <3> SUFFICES ASSUME NEW p \in to PROVE \E w \in W : p = <<w, v>>
        OBVIOUS
      <3>1. /\ p \in S \X S /\ p[2] = v /\ p[1] # v /\ p[1] \in L!Neighbors(d, v)
            /\ c[p[1]] = c[v] /\ p = <<p[1], v>>
        BY DEF Agree
      <3>2. p[1] \in W
        BY <3>1 DEF With
      <3> QED
        BY <3>1, <3>2
    <2> HIDE DEF W, to
    <2>3. f \in Bijection(W, to)
      BY <2>1, <2>2 DEF Bijection, Injection, Surjection, IsInjective
    <2> QED
      BY <1>2, <2>3, FS_Bijection DEF ExistsBijection
  <1> HIDE DEF A, O, W, from, to
  <1>7. /\ IsFiniteSet(from \cup to)
        /\ Cardinality(from \cup to) = Cardinality(from) + Cardinality(to) - Cardinality(from \cap to)
    BY <1>2, FS_Union
  <1>8. Cardinality(O \cup (from \cup to)) =
          Cardinality(O) + Cardinality(from \cup to) - Cardinality(O \cap (from \cup to))
    BY <1>2, <1>7, FS_Union
  <1>9. Cardinality(O) \in Nat /\ Cardinality(W) \in Nat /\ Cardinality({}) = 0
    BY <1>2, FS_CardinalityType, FS_EmptySet
  <1>10. Cardinality(A) = Cardinality(O) + 2 * Cardinality(W)
    <2>1. Cardinality(from \cap to) = 0 /\ Cardinality(O \cap (from \cup to)) = 0
      BY <1>3, <1>9, Zenon
    <2> DEFINE n == Cardinality(O)
               m == Cardinality(W)
               b == Cardinality(from \cup to)
    <2>2. n \in Nat /\ m \in Nat /\ b = m + m - 0 /\ Cardinality(A) = n + b - 0
      BY <1>3, <1>5, <1>6, <1>7, <1>8, <1>9, <2>1, Zenon
    <2> HIDE DEF n, m, b
    <2>3. Cardinality(A) = n + 2 * m
      BY <2>2
    <2> QED
      BY <2>3 DEF n, m
  <1> QED
    BY <1>2, <1>9, <1>10 DEF A, O, W

Near(v, l) == {w \in L!Neighbors(data, v) : labels[w] = l}

LEMMA CountIs ==
  ASSUME NEW v, NEW l
  PROVE  L!Count(v, l) = Cardinality(Near(v, l))
BY LabelOperators, Zenon DEF L!Count, Near

\* A vertex that takes another label agrees with more neighbours than before, or
\* with as many and the label is a smaller one.
LEMMA VisitHelps ==
  ASSUME LabelInv, NEW v \in Nodes, L!Visit(v), labels' # labels
  PROVE  \/ L!Agreeing' > L!Agreeing
         \/ L!Agreeing' = L!Agreeing /\ L!Total' < L!Total
PROOF
  <1> DEFINE S == L!Vertices(data)
             old == labels[v]
  <1>1. /\ data \subseteq EdgesOf["label_propagation"] /\ labels \in [S -> S] /\ v \in S
        /\ data' = data
    BY DEF LabelInv, L!TypeOK, L!Visit
  <1>2. PICK best \in L!MostFrequent(v) :
          /\ \A l \in L!MostFrequent(v) : best <= l
          /\ labels' = [labels EXCEPT ![v] = best]
    BY DEF L!Visit
  <1>3. best # old
    BY <1>1, <1>2
  <1>4. \A l : IsFiniteSet(Near(v, l)) /\ Cardinality(Near(v, l)) \in Nat
    <2>1. \A l : IsFiniteSet(Near(v, l))
      BY <1>1, LabelGraph, FS_Subset DEF Near
    <2> QED
      BY <2>1, FS_CardinalityType
  <1>5. best \in L!Seen(v) /\ \A l \in L!Seen(v) : Cardinality(Near(v, l)) <= Cardinality(Near(v, best))
    BY <1>2, CountIs DEF L!MostFrequent
  <1>6. \A l : l \notin L!Seen(v) => Near(v, l) = {}
    BY DEF L!Seen, Near
  <1>7. \A l : Cardinality(Near(v, l)) <= Cardinality(Near(v, best))
    <2>1. \A l : l \notin L!Seen(v) => Cardinality(Near(v, l)) = 0
      BY <1>6, FS_EmptySet, Zenon
    <2> QED
      BY <1>4, <1>5, <2>1
  <1>8. With(data, labels, v, best) = Near(v, best) /\ With(data, labels, v, old) \subseteq Near(v, old)
    BY <1>3 DEF With, Near
  <1>9. Cardinality(With(data, labels, v, old)) <= Cardinality(Near(v, old)) /\ Cardinality(With(data, labels, v, best)) = Cardinality(Near(v, best))
    BY <1>4, <1>8, FS_Subset
  <1>10. labels'[v] = best /\ \A w \in S : w # v => labels'[w] = labels[w]
    BY <1>1, <1>2
  <1>11. With(data, labels', v, best) = With(data, labels, v, best) /\ Others(data, labels', v) = Others(data, labels, v)
    <2>1. L!Neighbors(data, v) \subseteq S
      BY <1>1, LabelGraph
    <2>2. With(data, labels', v, best) = With(data, labels, v, best)
      BY <1>10, <2>1 DEF With
    <2>3. Others(data, labels', v) = Others(data, labels, v)
      BY <1>10 DEF Others, Agree
    <2> QED
      BY <2>2, <2>3
  <1>12. /\ L!Agreeing = Cardinality(Others(data, labels, v)) + 2 * Cardinality(With(data, labels, v, old))
         /\ L!Agreeing' = Cardinality(Others(data, labels, v)) + 2 * Cardinality(Near(v, best))
         /\ Cardinality(Others(data, labels, v)) \in Nat /\ Cardinality(With(data, labels, v, old)) \in Nat
    <2>1. L!Agreeing = Cardinality(Agree(data, labels))
      BY LabelOperators, Zenon DEF L!Agreeing, Agree
    <2>2. L!Agreeing' = Cardinality(Agree(data, labels'))
      <3>1. L!Agreeing' = Cardinality(Agree(data', labels'))
        BY LabelOperators, Zenon DEF L!Agreeing, Agree
      <3> QED
        BY <1>1, <3>1
    <2> HIDE DEF S
    <2>3. /\ Cardinality(Agree(data, labels)) =
               Cardinality(Others(data, labels, v)) + 2 * Cardinality(With(data, labels, v, labels[v]))
          /\ Cardinality(Others(data, labels, v)) \in Nat
          /\ Cardinality(With(data, labels, v, labels[v])) \in Nat
      BY <1>1, AgreeSplit DEF S
    <2>4. Cardinality(Agree(data, labels')) =
            Cardinality(Others(data, labels', v)) + 2 * Cardinality(With(data, labels', v, labels'[v]))
      BY <1>1, AgreeSplit DEF S
    <2>5. Cardinality(Agree(data, labels')) = Cardinality(Others(data, labels, v)) + 2 * Cardinality(Near(v, best))
      BY <1>9, <1>10, <1>11, <2>4, Zenon
    <2> QED
      BY <2>1, <2>2, <2>3, <2>5
  <1>13. ASSUME Cardinality(With(data, labels, v, old)) = Cardinality(Near(v, best))
         PROVE  best < old
    <2>1. Cardinality(Near(v, old)) = Cardinality(Near(v, best))
      BY <1>4, <1>7, <1>9, <1>12, <1>13
    <2>2. Near(v, best) # {}
      BY <1>5 DEF L!Seen, Near
    <2>3. Cardinality(Near(v, best)) # 0
      BY <1>4, <2>2, FS_EmptySet
    <2>4. old \in L!Seen(v)
      <3>1. Near(v, old) # {}
        BY <2>1, <2>3, FS_EmptySet, Zenon
      <3> QED
        BY <1>6, <3>1, Zenon
    <2>5. old \in L!MostFrequent(v)
      <3>1. \A l \in L!Seen(v) : Cardinality(Near(v, l)) <= Cardinality(Near(v, old))
        BY <1>5, <2>1
      <3> QED
        BY <2>4, <3>1, CountIs DEF L!MostFrequent
    <2>6. best \in Int /\ old \in Int
      <3>1. S \subseteq Int /\ L!Neighbors(data, v) \subseteq S
        BY <1>1, LabelGraph
      <3> QED
        BY <1>1, <1>5, <3>1 DEF L!Seen
    <2> QED
      BY <1>2, <1>3, <2>5, <2>6
  <1>14. ASSUME best < old
         PROVE  L!Total' < L!Total
    <2> DEFINE new == labels'
    <2>1. IsFiniteSet(S) /\ S \subseteq Int
      BY <1>1, LabelGraph
    <2>2. best \in S
      <3>1. L!Neighbors(data, v) \subseteq S
        BY <1>1, LabelGraph
      <3> QED
        BY <1>1, <1>5, <3>1 DEF L!Seen
    <2>3. DOMAIN labels = S /\ DOMAIN new = S /\ new[v] = best
          /\ \A w \in S : labels[w] \in Int /\ new[w] \in Int
      BY <1>1, <1>2, <2>1, <2>2
    <2>4. L!Total = SumFunctionOnSet(labels, S)
      BY <2>3, LabelOperators, Zenon DEF L!Total
    <2>5. L!Total' = SumFunctionOnSet(new, S)
      <3>1. L!Total' = L!SumFunction(labels')
        BY DEF L!Total
      <3> QED
        BY <2>3, <3>1, LabelOperators, Zenon
    <2> HIDE DEF S, new, old
    <2>6. (\A w \in S : labels[w] \in Int) /\ (\A w \in S : new[w] \in Int) /\ v \in S
      BY <1>1, <2>3
    <2>7. new[v] < labels[v] /\ \A w \in S \ {v} : new[w] = labels[w]
      BY <1>10, <1>14, <2>3 DEF new, old
    <2> DEFINE g == labels
    <2>8. (\A w \in S : g[w] \in Int) /\ new[v] < g[v] /\ \A w \in S \ {v} : new[w] = g[w]
      BY <2>6, <2>7
    <2> HIDE DEF g
    <2>9. SumFunctionOnSet(new, S) < SumFunctionOnSet(g, S)
      BY <2>1, <2>6, <2>8, SumShrinks
    <2> QED
      BY <2>4, <2>5, <2>9 DEF g
  <1>15. Cardinality(With(data, labels, v, old)) <= Cardinality(Near(v, best)) /\ Cardinality(Near(v, best)) \in Nat
    BY <1>4, <1>7, <1>9, <1>12
  <1> HIDE DEF old
  <1>16. CASE Cardinality(With(data, labels, v, old)) = Cardinality(Near(v, best))
    BY <1>12, <1>13, <1>14, <1>16
  <1>17. CASE Cardinality(With(data, labels, v, old)) # Cardinality(Near(v, best))
    BY <1>12, <1>15, <1>17
  <1> QED
    BY <1>16, <1>17

\* Updates in place never go round in a circle.
THEOREM UpdatesOnlyHelp == Spec => EveryMoveHelps
PROOF
  <1>1. LabelRun /\ [Next]_vars => [plugin = "label_propagation" => L!MoveHelps]_vars
    <2> SUFFICES ASSUME LabelInv, [L!Next]_(L!vars), labels' # labels
                 PROVE  \/ L!Agreeing' > L!Agreeing
                        \/ L!Agreeing' = L!Agreeing /\ L!Total' < L!Total
      BY PluginRuns DEF LabelRun, L!MoveHelps
    <2>1. L!Next
      BY DEF L!vars
    <2>2. PICK v \in Nodes : L!Visit(v)
      BY <2>1 DEF L!Next, L!EndPass
    <2> QED
      BY <2>2, VisitHelps
  <1> QED
    BY <1>1, LabelInvariance, PTL DEF Spec, EveryMoveHelps

-----------------------------------------------------------------------------
(* louvain                                                                 *)

LEMMA LouvainOperators ==
  /\ \A f : V!SumFunction(f) = SumFunctionOnSet(f, DOMAIN f)
  /\ \A S : V!Cardinality(S) = Cardinality(S)
  /\ \A S : V!Min(S) = CHOOSE x \in S : \A y \in S : x <= y
PROOF
  <1>1. \A f : V!SumFunction(f) = SumFunctionOnSet(f, DOMAIN f)
    BY Zenon DEF V!SumFunction, V!SumFunctionOnSet, V!FoldFunctionOnSet, V!MapThenFoldSet,
       SumFunctionOnSet, FoldFunctionOnSet, MapThenFoldSet
  <1>2. \A S : V!Cardinality(S) = Cardinality(S)
    BY Zenon DEF V!Cardinality, Cardinality
  <1>3. \A S : V!Min(S) = CHOOSE x \in S : \A y \in S : x <= y
    BY Zenon DEF V!Min
  <1> QED
    BY <1>1, <1>2, <1>3

LEMMA LouvainGraph ==
  ASSUME data \subseteq EdgesOf["louvain"]
  PROVE  /\ IsFiniteSet(V!Vertices) /\ V!Vertices \subseteq Int /\ V!Vertices \subseteq Nodes
         /\ \A u, v : V!Adjacency(u, v) \in Int
         /\ \A v : V!Neighbors(v) \subseteq V!Vertices /\ IsFiniteSet(V!Neighbors(v))
PROOF
  <1>1. IsFiniteSet(data)
    BY LouvainParameters, FS_Subset
  <1>2. [e \in data |-> e[1]] \in Surjection(data, {e[1] : e \in data})
    BY DEF Surjection
  <1>3. [e \in data |-> e[2]] \in Surjection(data, {e[2] : e \in data})
    BY DEF Surjection
  <1>4. IsFiniteSet({e[1] : e \in data}) /\ IsFiniteSet({e[2] : e \in data})
    BY <1>1, <1>2, <1>3, FS_Surjection DEF ExistsSurjection
  <1>5. ASSUME NEW v \in V!Vertices
        PROVE  v \in {e[1] : e \in data} \cup {e[2] : e \in data}
    <2>1. PICK w : V!Adjacency(v, w) > 0
      BY DEF V!Vertices, V!Neighbors
    <2>2. <<v, w>> \in data \/ <<w, v>> \in data
      BY <2>1 DEF V!Adjacency
    <2> QED
      BY <2>2
  <1>6. IsFiniteSet(V!Vertices)
    BY <1>4, <1>5, FS_Union, FS_Subset
  <1>7. \A u, v : V!Adjacency(u, v) \in Int /\ V!Adjacency(u, v) = V!Adjacency(v, u)
    BY DEF V!Adjacency
  <1>8. ASSUME NEW v, NEW w \in V!Neighbors(v)
        PROVE  w \in V!Vertices
    <2>1. w \in Nodes /\ V!Adjacency(w, v) > 0
      BY <1>7 DEF V!Neighbors
    <2>2. <<w, v>> \in data \/ <<v, w>> \in data
      BY <2>1 DEF V!Adjacency
    <2>3. v \in Nodes
      BY <2>2, LouvainParameters
    <2> QED
      BY <2>1, <2>3 DEF V!Vertices, V!Neighbors
  <1>9. \A v : V!Neighbors(v) \subseteq V!Vertices /\ IsFiniteSet(V!Neighbors(v))
    BY <1>6, <1>8, FS_Subset
  <1>10. V!Vertices \subseteq Nodes
    BY DEF V!Vertices
  <1> QED
    BY <1>6, <1>7, <1>9, <1>10, LouvainParameters

LEMMA ScoreInt ==
  ASSUME data \subseteq EdgesOf["louvain"], NEW c
  PROVE  V!Score(c) \in Int
PROOF
  <1>1. ASSUME NEW v
        PROVE  V!Degree(v) \in Int
    <2> DEFINE f == [w \in V!Neighbors(v) |-> V!Adjacency(v, w)]
    <2>1. /\ \A w \in V!Neighbors(v) : f[w] \in Int
          /\ DOMAIN f = V!Neighbors(v) /\ IsFiniteSet(V!Neighbors(v))
      BY LouvainGraph
    <2>2. V!Degree(v) = V!SumFunction(f)
      BY DEF V!Degree
    <2> HIDE DEF f
    <2> QED
      BY <2>1, <2>2, SumInt, LouvainOperators
  <1>2. V!Total \in Int
    <2> DEFINE f == [v \in V!Vertices |-> V!Degree(v)]
    <2>1. /\ \A v \in V!Vertices : f[v] \in Int
          /\ DOMAIN f = V!Vertices /\ IsFiniteSet(V!Vertices)
      BY <1>1, LouvainGraph
    <2>2. V!Total = V!SumFunction(f)
      BY DEF V!Total
    <2> HIDE DEF f
    <2> QED
      BY <2>1, <2>2, SumInt, LouvainOperators
  <1>3. \A u, v : V!Bond(u, v) \in Int
    <2> SUFFICES ASSUME NEW u, NEW v PROVE V!Bond(u, v) \in Int
      OBVIOUS
    <2>1. V!Adjacency(u, v) \in Int /\ V!Degree(u) \in Int /\ V!Degree(v) \in Int
      BY <1>1, LouvainGraph
    <2> QED
      BY <1>2, <2>1 DEF V!Bond
  <1> DEFINE pairs == {p \in V!Vertices \X V!Vertices :
                         p[2] \in V!Neighbors(p[1]) /\ c[p[1]] = c[p[2]]}
             f == [p \in pairs |-> V!Bond(p[1], p[2])]
  <1>4. IsFiniteSet(pairs)
    <2>1. IsFiniteSet(V!Vertices \X V!Vertices)
      BY LouvainGraph, FS_Product
    <2> QED
      BY <2>1, FS_Subset
  <1>5. (\A p \in pairs : f[p] \in Int) /\ DOMAIN f = pairs
    BY <1>3
  <1>6. V!Score(c) = V!SumFunction(f)
    BY DEF V!Score
  <1> HIDE DEF f, pairs
  <1> QED
    BY <1>4, <1>5, <1>6, SumInt, LouvainOperators

\* The score depends on who is with whom alone, not on names of communities.
SamePartition(c, e) ==
  \A u \in V!Vertices : \A w \in V!Vertices : c[u] = c[w] <=> e[u] = e[w]

LEMMA SameScore ==
  ASSUME NEW c, NEW e, SamePartition(c, e)
  PROVE  V!Score(c) = V!Score(e)
PROOF
  <1> DEFINE In(g) == {p \in V!Vertices \X V!Vertices :
                         p[2] \in V!Neighbors(p[1]) /\ g[p[1]] = g[p[2]]}
  <1>1. In(c) = In(e)
    BY DEF SamePartition
  <1>2. \A g : V!Score(g) = V!SumFunction([p \in In(g) |-> V!Bond(p[1], p[2])])
    BY Zenon DEF V!Score
  <1> HIDE DEF In
  <1> QED
    BY <1>1, <1>2, Zenon

\* A vertex moves only to where the score is higher than the one it knows of.
LEMMA BestIsBetter ==
  ASSUME data \subseteq EdgesOf["louvain"], best_modularity \in Int, NEW v,
         communities \in [V!Vertices -> V!Vertices], v \in V!Vertices
  PROVE  /\ V!BestFor(v) \in V!CandidateCommunities(v)
         /\ \/ V!Score(V!Moved(v, V!BestFor(v))) > best_modularity
            \/ /\ V!BestFor(v) = communities[v]
               /\ \A c \in V!CandidateCommunities(v) :
                    V!Score(V!Moved(v, c)) <= best_modularity
PROOF
  <1> DEFINE all == V!CandidateCommunities(v)
             score == [c \in all |-> V!Score(V!Moved(v, c))]
             better == {c \in all : V!Score(V!Moved(v, c)) > best_modularity}
             best == {c \in better : \A e \in better :
                        V!Score(V!Moved(v, e)) <= V!Score(V!Moved(v, c))}
  <1>1. IsFiniteSet(all) /\ all \subseteq Int
    <2> DEFINE near == V!Neighbors(v)
    <2>1. IsFiniteSet(near) /\ near \subseteq V!Vertices /\ V!Vertices \subseteq Int
      BY LouvainGraph
    <2>2. [w \in near |-> communities[w]] \in Surjection(near, {communities[w] : w \in near})
      BY DEF Surjection
    <2>3. IsFiniteSet({communities[w] : w \in near})
      BY <2>1, <2>2, FS_Surjection DEF ExistsSurjection
    <2>4. IsFiniteSet({communities[w] : w \in near} \cup {communities[v]})
      BY <2>3, FS_AddElement
    <2> QED
      BY <2>1, <2>4 DEF V!CandidateCommunities
  <1>2. \A c \in all : V!Score(V!Moved(v, c)) \in Int /\ score[c] = V!Score(V!Moved(v, c))
    BY ScoreInt
  <1>3. V!BestFor(v) = IF better = {} THEN communities[v] ELSE V!Min(best)
    BY DEF V!BestFor
  <1>4. communities[v] \in all
    BY DEF V!CandidateCommunities
  <1>5. CASE better = {}
    <2>1. \A c \in all : ~ (V!Score(V!Moved(v, c)) > best_modularity)
      BY <1>5
    <2>2. \A c \in all : V!Score(V!Moved(v, c)) <= best_modularity
      BY <1>2, <2>1
    <2> QED
      BY <1>3, <1>4, <1>5, <2>2
  <1>6. CASE better # {}
    <2>1. IsFiniteSet(better) /\ better \subseteq all
      BY <1>1, FS_Subset
    <2> HIDE DEF better, score, all
    <2>2. PICK c \in better : \A e \in better : score[e] <= score[c]
      BY <1>2, <1>6, <2>1, LargestValue
    <2>3. c \in best
      BY <1>2, <2>1, <2>2
    <2>4. best \subseteq better /\ best # {} /\ IsFiniteSet(best) /\ best \subseteq Int
      BY <1>1, <2>1, <2>3, FS_Subset
    <2> HIDE DEF best
    <2>5. PICK x \in best : \A y \in best : x <= y
      BY <2>4, LeastElement
    <2>6. V!Min(best) = CHOOSE z \in best : \A y \in best : z <= y
      BY LouvainOperators
    <2>7. V!Min(best) \in best
      BY <2>5, <2>6
    <2>8. V!Min(best) \in better
      BY <2>4, <2>7
    <2>9. V!BestFor(v) = V!Min(best)
      BY <1>3, <1>6
    <2> QED
      BY <2>1, <2>8, <2>9 DEF better, all
  <1> QED
    BY <1>5, <1>6

\* The score does not depend on anything but the data.
LEMMA ScoreStays ==
  ASSUME data' = data
  PROVE  V!Vertices' = V!Vertices /\ (\A v : V!Neighbors(v)' = V!Neighbors(v))
         /\ \A c : V!Score(c)' = V!Score(c)
PROOF
  <1>1. \A u, v : V!Adjacency(u, v)' = V!Adjacency(u, v)
    BY DEF V!Adjacency
  <1>2. \A v : V!Neighbors(v)' = V!Neighbors(v)
    BY <1>1, Zenon DEF V!Neighbors
  <1>3. V!Vertices' = V!Vertices
    BY <1>2, Zenon DEF V!Vertices
  <1>4. \A v : V!Degree(v)' = V!Degree(v)
    BY <1>1, <1>2, Zenon DEF V!Degree
  <1>5. V!Total' = V!Total
    BY <1>3, <1>4, Zenon DEF V!Total
  <1>6. \A u, v : V!Bond(u, v)' = V!Bond(u, v)
    BY <1>1, <1>4, <1>5, Zenon DEF V!Bond
  <1>7. ASSUME NEW c
        PROVE  V!Score(c)' = V!Score(c)
    <2> DEFINE pairs == {p \in V!Vertices \X V!Vertices :
                           p[2] \in V!Neighbors(p[1]) /\ c[p[1]] = c[p[2]]}
    <2>1. pairs' = pairs
      BY <1>2, <1>3, Zenon
    <2>2. [p \in pairs |-> V!Bond(p[1], p[2])]' = [p \in pairs |-> V!Bond(p[1], p[2])]
      BY <1>6, <2>1, Zenon
    <2> QED
      BY <2>2, Zenon DEF V!Score
  <1> QED
    BY <1>2, <1>3, <1>7

\* No neighbour's community is better for v.
StaysPut(v) ==
  \A w \in V!Neighbors(v) : V!Score(V!Moved(v, communities[w])) <= best_modularity

\* What always holds of a run: the score carried along is the one of the
\* communities, and a vertex visited since the last move has no better place.
LouvainInv ==
  /\ V!TypeOK
  /\ best_modularity = V!Score(communities)
  /\ ~done => iterations < MaxPasses
  /\ ~done /\ ~moved => \A v \in V!Vertices \ todo : StaysPut(v)
  /\ V!Converged => \A v \in V!Vertices : StaysPut(v)

LEMMA StaysPutStays ==
  ASSUME data' = data, communities' = communities, best_modularity' = best_modularity
  PROVE  /\ V!Score(communities)' = V!Score(communities)
         /\ \A v : StaysPut(v)' <=> StaysPut(v)
PROOF
  <1>1. V!Score(communities)' = V!Score(communities)
    BY ScoreStays
  <1>2. ASSUME NEW v, NEW w
        PROVE  V!Score(V!Moved(v, communities[w]))' = V!Score(V!Moved(v, communities[w]))
    BY ScoreStays DEF V!Moved
  <1>3. \A v : V!Neighbors(v)' = V!Neighbors(v)
    BY ScoreStays
  <1> QED
    BY <1>1, <1>2, <1>3, Zenon DEF StaysPut

LEMMA LouvainInitInv == V!Init => LouvainInv
PROOF
  <1> SUFFICES ASSUME V!Init PROVE LouvainInv
    OBVIOUS
  <1>1. /\ data \in SUBSET EdgesOf["louvain"] /\ iterations = 0 /\ moved = FALSE
        /\ communities = [v \in V!Vertices |-> v] /\ best_modularity = V!Score(communities)
        /\ done = (MaxPasses = 0)
        /\ todo = IF done THEN {} ELSE V!Vertices
    BY DEF V!Init
  <1>2. MaxPasses \in Nat
    BY LouvainParameters
  <1>3. V!TypeOK
    <2>1. done \in BOOLEAN
      BY <1>1, Zenon
    <2>2. todo \subseteq V!Vertices
      BY <1>1, Zenon
    <2>3. iterations \in 0 .. MaxPasses /\ communities \in [V!Vertices -> V!Vertices]
      BY <1>1, <1>2
    <2>4. best_modularity \in Int
      BY <1>1, ScoreInt
    <2> QED
      BY <1>1, <2>1, <2>2, <2>3, <2>4, Zenon DEF V!TypeOK
  <1>4. (~done => MaxPasses # 0) /\ (done => MaxPasses = 0)
    BY <1>1, Zenon
  <1>5. ~ V!Converged
    <2>1. ~ (done /\ iterations < MaxPasses)
      BY <1>1, <1>4
    <2> QED
      BY <2>1 DEF V!Converged
  <1>6. ~done => V!Vertices \ todo = {} /\ iterations < MaxPasses
    BY <1>1, <1>2, <1>4
  <1> QED
    BY <1>1, <1>3, <1>5, <1>6 DEF LouvainInv

\* What a visit does to the score.
LEMMA VisitGains ==
  ASSUME LouvainInv, NEW v, V!Visit(v)
  PROVE  /\ data' = data /\ v \in V!Vertices
         /\ communities' \in [V!Vertices -> V!Vertices]
         /\ best_modularity' = V!Score(communities') /\ best_modularity' \in Int
         /\ \/ communities' = communities /\ best_modularity' = best_modularity
               /\ StaysPut(v) /\ (moved' <=> moved)
            \/ communities' # communities /\ best_modularity' > best_modularity /\ moved'
PROOF
  <1> DEFINE best == V!BestFor(v)
  <1>1. /\ data \subseteq EdgesOf["louvain"] /\ best_modularity \in Int /\ v \in V!Vertices
        /\ communities \in [V!Vertices -> V!Vertices] /\ best_modularity = V!Score(communities)
        /\ moved \in BOOLEAN
    BY DEF LouvainInv, V!TypeOK, V!Visit
  <1>2. /\ data' = data /\ communities' = V!Moved(v, best)
        /\ best_modularity' = IF best = communities[v] THEN best_modularity ELSE V!Score(communities')
        /\ moved' = (moved \/ best # communities[v])
    BY Zenon DEF V!Visit
  <1>3. V!Moved(v, communities[v]) = communities
    BY <1>1 DEF V!Moved
  <1>4. /\ best \in V!CandidateCommunities(v)
        /\ \/ V!Score(V!Moved(v, best)) > best_modularity
           \/ /\ best = communities[v]
              /\ \A c \in V!CandidateCommunities(v) : V!Score(V!Moved(v, c)) <= best_modularity
    BY <1>1, BestIsBetter
  <1>5. best \in V!Vertices
    <2>1. V!Neighbors(v) \subseteq V!Vertices
      BY <1>1, LouvainGraph
    <2> QED
      BY <1>1, <1>4, <2>1 DEF V!CandidateCommunities
  <1> HIDE DEF best
  <1>6. communities' \in [V!Vertices -> V!Vertices]
    BY <1>1, <1>2, <1>5 DEF V!Moved
  <1>7. CASE best = communities[v]
    <2>1. /\ communities' = communities /\ best_modularity' = best_modularity
          /\ best_modularity' = V!Score(communities')
      BY <1>1, <1>2, <1>3, <1>7
    <2>2. moved' <=> moved
      BY <1>1, <1>2, <1>7, Zenon
    <2>3. \A c \in V!CandidateCommunities(v) : V!Score(V!Moved(v, c)) <= best_modularity
      BY <1>1, <1>3, <1>4, <1>7
    <2>4. StaysPut(v)
      BY <2>3 DEF StaysPut, V!CandidateCommunities
    <2> QED
      BY <1>1, <1>2, <1>6, <2>1, <2>2, <2>4
  <1>8. CASE best # communities[v]
    <2>1. best_modularity' = V!Score(communities') /\ best_modularity' > best_modularity
      BY <1>2, <1>4, <1>8
    <2>2. moved'
      BY <1>2, <1>8, Zenon
    <2>3. best_modularity' \in Int
      BY <1>1, <2>1, ScoreInt
    <2>4. communities' # communities
      BY <1>1, <2>1, <2>3
    <2> QED
      BY <1>1, <1>2, <1>6, <2>1, <2>2, <2>3, <2>4
  <1> QED
    BY <1>7, <1>8

LEMMA LouvainVisitInv ==
  ASSUME LouvainInv, NEW v, V!Visit(v)
  PROVE  LouvainInv'
PROOF
  <1>1. /\ data' = data /\ iterations' = iterations /\ done' = done /\ ~done
        /\ todo' = todo \ {v}
    BY DEF V!Visit
  <1>2. V!Vertices' = V!Vertices /\ \A c : V!Score(c)' = V!Score(c)
    BY <1>1, ScoreStays
  <1>3. /\ communities' \in [V!Vertices -> V!Vertices]
        /\ best_modularity' = V!Score(communities') /\ best_modularity' \in Int
        /\ \/ communities' = communities /\ best_modularity' = best_modularity
              /\ StaysPut(v) /\ (moved' <=> moved)
           \/ moved'
    BY VisitGains
  <1>4. best_modularity' = V!Score(communities)'
    BY <1>2, <1>3
  <1>5. V!TypeOK'
    <2>1. moved' \in BOOLEAN /\ todo' \subseteq V!Vertices
      <3>1. moved' = (moved \/ V!BestFor(v) # communities[v])
        BY Zenon DEF V!Visit
      <3>2. moved' \in BOOLEAN
        BY <3>1, Zenon
      <3> QED
        BY <1>1, <3>2 DEF LouvainInv, V!TypeOK
    <2> QED
      BY <1>1, <1>2, <1>3, <2>1 DEF LouvainInv, V!TypeOK
  <1>6. ASSUME ~moved'
        PROVE  \A u \in V!Vertices \ todo' : StaysPut(u)'
    <2>1. /\ communities' = communities /\ best_modularity' = best_modularity
          /\ StaysPut(v) /\ ~moved
      BY <1>3, <1>6, Zenon
    <2>2. \A u \in V!Vertices \ todo' : StaysPut(u)
      BY <1>1, <2>1 DEF LouvainInv
    <2> QED
      BY <1>1, <2>1, <2>2, StaysPutStays
  <1>7. ~ V!Converged'
    BY <1>1 DEF V!Converged
  <1> QED
    BY <1>1, <1>2, <1>4, <1>5, <1>6, <1>7 DEF LouvainInv

LEMMA LouvainEndPassInv ==
  ASSUME LouvainInv, V!EndPass
  PROVE  LouvainInv'
PROOF
  <1>1. /\ data' = data /\ communities' = communities /\ best_modularity' = best_modularity
        /\ ~done /\ todo = {}
        /\ iterations' = iterations + 1
        /\ done' = (~moved \/ iterations' = MaxPasses)
        /\ moved' = IF done' THEN moved ELSE FALSE
        /\ todo' = IF done' THEN {} ELSE V!Vertices
    BY DEF V!EndPass
  <1>2. /\ iterations \in Nat /\ iterations < MaxPasses /\ MaxPasses \in Nat
        /\ moved \in BOOLEAN
        /\ ~moved => \A v \in V!Vertices : StaysPut(v)
    BY <1>1, LouvainParameters DEF LouvainInv, V!TypeOK
  <1>3. V!Vertices' = V!Vertices /\ V!Score(communities)' = V!Score(communities)
    BY <1>1, ScoreStays
  <1>4. \A v : StaysPut(v)' <=> StaysPut(v)
    BY <1>1, StaysPutStays
  <1>5. V!TypeOK'
    <2>1. done' \in BOOLEAN
      BY <1>1, Zenon
    <2>2. moved' \in BOOLEAN /\ todo' \subseteq V!Vertices
      BY <1>1, <1>2, Zenon
    <2>3. iterations' \in 0 .. MaxPasses
      BY <1>1, <1>2
    <2> QED
      BY <1>1, <1>3, <2>1, <2>2, <2>3 DEF LouvainInv, V!TypeOK
  <1>6. ~done' => iterations' < MaxPasses
    <2>1. ~done' => iterations' # MaxPasses
      BY <1>1, Zenon
    <2> QED
      BY <1>1, <1>2, <2>1
  <1>7. ~done' => V!Vertices \ todo' = {}
    BY <1>1
  <1>8. ASSUME V!Converged'
        PROVE  \A v \in V!Vertices : StaysPut(v)'
    <2>1. done' /\ iterations' < MaxPasses
      BY <1>8 DEF V!Converged
    <2>2. iterations' # MaxPasses
      BY <1>1, <1>2, <2>1
    <2>3. ~moved
      BY <1>1, <2>1, <2>2, Zenon
    <2> QED
      BY <1>2, <1>4, <2>3
  <1>9. best_modularity' = V!Score(communities)'
    BY <1>1, <1>3 DEF LouvainInv
  <1> QED
    BY <1>3, <1>5, <1>6, <1>7, <1>8, <1>9 DEF LouvainInv

LouvainRun == plugin = "louvain" => LouvainInv

\* The invariant holds for every finite graph and number of passes.
THEOREM LouvainInvariance == Spec => []LouvainRun
PROOF
  <1>1. Init => LouvainRun
    BY PluginBegins, LouvainInitInv DEF LouvainRun
  <1>2. LouvainRun /\ [Next]_vars => LouvainRun'
    <2> SUFFICES ASSUME LouvainInv, [V!Next]_(V!vars)
                 PROVE  LouvainInv'
      BY PluginRuns DEF LouvainRun
    <2>1. CASE UNCHANGED V!vars
      <3>1. UNCHANGED <<data, communities, best_modularity, todo, moved, iterations, done>>
        BY <2>1 DEF V!vars
      <3>2. V!Vertices' = V!Vertices
        BY <3>1, ScoreStays
      <3>3. V!Score(communities)' = V!Score(communities) /\ \A v : StaysPut(v)' <=> StaysPut(v)
        BY <3>1, StaysPutStays
      <3> QED
        BY <3>1, <3>2, <3>3 DEF LouvainInv, V!TypeOK, V!Converged
    <2>2. CASE V!Next
      BY <2>2, LouvainVisitInv, LouvainEndPassInv DEF V!Next
    <2> QED
      BY <2>1, <2>2
  <1> QED
    BY <1>1, <1>2, PTL DEF Spec

\* Whatever order the vertices come in, no move lowers the score: communities
\* that were given up never come back.
THEOREM MovesOnlyGain == Spec => EveryMoveGains
PROOF
  <1>1. LouvainRun /\ [Next]_vars => [plugin = "louvain" => V!MoveGains]_vars
    <2> SUFFICES ASSUME LouvainInv, [V!Next]_(V!vars), communities' # communities
                 PROVE  /\ best_modularity' = V!Score(communities')
                        /\ V!Score(communities') > V!Score(communities)
      BY PluginRuns DEF LouvainRun, V!MoveGains
    <2>1. V!Next
      BY DEF V!vars
    <2>2. PICK v \in Nodes : V!Visit(v)
      BY <2>1 DEF V!Next, V!EndPass
    <2>3. best_modularity' = V!Score(communities') /\ best_modularity' > best_modularity
      BY <2>2, VisitGains
    <2> QED
      BY <2>3 DEF LouvainInv
  <1> QED
    BY <1>1, LouvainInvariance, PTL DEF Spec, EveryMoveGains

\* Numbers in the order in which communities come up tell them apart.
LEMMA NormalizedIsSame ==
  ASSUME data \subseteq EdgesOf["louvain"], NEW c, DOMAIN c = V!Vertices
  PROVE  SamePartition(V!Normalized(c), c)
PROOF
  <1> DEFINE S == V!Vertices
             class(v) == {w \in S : c[w] = c[v]}
             first(v) == V!First(c, v)
             before(v) == {w \in S : w = first(w) /\ w < first(v)}
  <1>1. IsFiniteSet(S) /\ S \subseteq Int
    BY LouvainGraph
  <1>2. ASSUME NEW v \in S
        PROVE  first(v) \in S /\ c[first(v)] = c[v] /\ first(v) \in Int
    <2>1. first(v) = V!Min(class(v))
      BY DEF V!First
    <2>2. v \in class(v) /\ class(v) \subseteq S
      OBVIOUS
    <2> DEFINE mates == class(v)
    <2>3. IsFiniteSet(mates) /\ mates # {} /\ mates \subseteq Int
      BY <1>1, <2>2, FS_Subset
    <2> HIDE DEF mates
    <2>4. PICK x \in mates : \A y \in mates : x <= y
      BY <2>3, LeastElement
    <2>5. V!Min(mates) \in mates
      BY <2>4, LouvainOperators
    <2>6. V!Min(mates) \in S /\ c[V!Min(mates)] = c[v]
      BY <2>5 DEF mates
    <2> QED
      BY <1>1, <2>1, <2>6 DEF mates
  <1>3. ASSUME NEW u \in S, NEW v \in S, c[u] = c[v]
        PROVE  first(u) = first(v)
    <2>1. class(u) = class(v)
      BY <1>3
    <2> QED
      BY <2>1, Zenon DEF V!First
  <1>4. \A v \in S : V!Normalized(c)[v] = Cardinality(before(v))
    <2>1. \A v \in S : V!Normalized(c)[v] = V!Cardinality(before(v))
      BY Zenon DEF V!Normalized
    <2> QED
      BY <2>1, LouvainOperators
  <1> HIDE DEF first
  <1>5. ASSUME NEW u \in S, NEW v \in S, first(u) < first(v)
        PROVE  Cardinality(before(u)) # Cardinality(before(v))
    <2> DEFINE A == before(u)
               Z == before(v)
    <2>1. first(u) \in S /\ first(u) \in Int /\ first(v) \in Int /\ first(first(u)) = first(u)
      BY <1>2, <1>3
    <2>2. A \subseteq Z
      <3>1. \A w \in S : w \in Int
        BY <1>1
      <3> QED
        BY <1>5, <2>1, <3>1
    <2>3. first(u) \in Z /\ first(u) \notin A
      BY <1>5, <2>1
    <2>4. IsFiniteSet(Z)
      BY <1>1, FS_Subset
    <2>5. A # Z
      BY <2>3
    <2> HIDE DEF A, Z
    <2>6. Cardinality(A) # Cardinality(Z)
      BY <2>2, <2>4, <2>5, FS_Subset
    <2> QED
      BY <2>6 DEF A, Z
  <1>6. ASSUME NEW u \in S, NEW v \in S
        PROVE  V!Normalized(c)[u] = V!Normalized(c)[v] <=> c[u] = c[v]
    <2>1. CASE c[u] = c[v]
      <3>1. first(u) = first(v)
        BY <1>3, <2>1
      <3> QED
        BY <1>4, <2>1, <3>1
    <2>2. CASE c[u] # c[v]
      <3>1. first(u) # first(v) /\ first(u) \in Int /\ first(v) \in Int
        BY <1>2, <2>2
      <3>2. first(u) < first(v) \/ first(v) < first(u)
        BY <3>1
      <3>3. Cardinality(before(u)) # Cardinality(before(v))
        <4> HIDE DEF before
        <4> QED
          BY <1>5, <3>2
      <3> QED
        BY <1>4, <2>2, <3>3
    <2> QED
      BY <2>1, <2>2
  <1> QED
    BY <1>6 DEF SamePartition

\* At the end no vertex alone can raise the score, after renumbering either.
LEMMA LouvainIsSettled == LouvainInv => V!ConvergedIsLocalMaximum
PROOF
  <1> SUFFICES ASSUME LouvainInv, V!Converged
               PROVE  /\ V!Score(V!Output) = best_modularity
                      /\ \A v \in V!Vertices : \A w \in V!Neighbors(v) :
                           V!Score([V!Output EXCEPT ![v] = V!Output[w]]) <= best_modularity
    BY DEF V!ConvergedIsLocalMaximum
  <1> DEFINE S == V!Vertices
             out == V!Output
  <1>1. /\ data \subseteq EdgesOf["louvain"] /\ communities \in [S -> S]
        /\ best_modularity = V!Score(communities)
        /\ \A v \in S : StaysPut(v)
    BY DEF LouvainInv, V!TypeOK
  <1>2. SamePartition(out, communities) /\ DOMAIN out = S
    BY <1>1, NormalizedIsSame DEF V!Output, V!Normalized
  <1>3. V!Score(out) = best_modularity
    BY <1>1, <1>2, SameScore
  <1>4. ASSUME NEW v \in S, NEW w \in V!Neighbors(v)
        PROVE  V!Score([out EXCEPT ![v] = out[w]]) <= best_modularity
    <2> DEFINE other == [out EXCEPT ![v] = out[w]]
               place == V!Moved(v, communities[w])
    <2>1. w \in S
      BY <1>1, LouvainGraph
    <2>2. \A a \in S : /\ other[a] = IF a = v THEN out[w] ELSE out[a]
                       /\ place[a] = IF a = v THEN communities[w] ELSE communities[a]
      <3> HIDE DEF out
      <3> QED
        BY <1>1, <1>2 DEF V!Moved
    <2>3. \A a \in S : \A b \in S : out[a] = out[b] <=> communities[a] = communities[b]
      BY <1>2 DEF SamePartition
    <2> HIDE DEF other, place, out
    <2>4. SamePartition(other, place)
      BY <2>1, <2>2, <2>3 DEF SamePartition
    <2>5. V!Score(other) = V!Score(place)
      BY <2>4, SameScore
    <2>6. V!Score(place) <= best_modularity
      BY <1>1 DEF StaysPut, place
    <2> QED
      BY <2>5, <2>6 DEF other
  <1> QED
    BY <1>3, <1>4

-----------------------------------------------------------------------------
(* kmeans                                                                  *)

LEMMA ClusterOperators ==
  /\ \A f : M!SumFunction(f) = SumFunctionOnSet(f, DOMAIN f)
  /\ \A S : M!Cardinality(S) = Cardinality(S)
  /\ \A S : M!Min(S) = CHOOSE x \in S : \A y \in S : x <= y
PROOF
  <1>1. \A f : M!SumFunction(f) = SumFunctionOnSet(f, DOMAIN f)
    BY Zenon DEF M!SumFunction, M!SumFunctionOnSet, M!FoldFunctionOnSet, M!MapThenFoldSet,
       SumFunctionOnSet, FoldFunctionOnSet, MapThenFoldSet
  <1>2. \A S : M!Cardinality(S) = Cardinality(S)
    BY Zenon DEF M!Cardinality, Cardinality
  <1>3. \A S : M!Min(S) = CHOOSE x \in S : \A y \in S : x <= y
    BY Zenon DEF M!Min
  <1> QED
    BY <1>1, <1>2, <1>3

LEMMA ClusterParameters ==
  ASSUME NEW points, NEW n, <<points, n>> \in Clusterings
  PROVE  /\ points \in Seq(Seq(Int)) /\ n \in 1 .. Len(points)
         /\ points[1] \in Seq(Int) /\ IsFiniteSet(DOMAIN points) /\ IsFiniteSet(DOMAIN points[1])
         /\ \A i \in DOMAIN points : points[i] \in [DOMAIN points[1] -> Int]
PROOF
  <1>1. /\ points \in Seq(Seq(Int)) /\ n \in 1 .. Len(points)
        /\ \A i \in DOMAIN points : DOMAIN points[i] = DOMAIN points[1]
    BY SamplesAssumption
  <1>2. DOMAIN points = 1 .. Len(points) /\ Len(points) \in Nat
    BY <1>1
  <1>3. \A i \in DOMAIN points : points[i] \in Seq(Int)
    BY <1>1
  <1>4. points[1] \in Seq(Int)
    BY <1>1, <1>2, <1>3
  <1>5. DOMAIN points[1] = 1 .. Len(points[1]) /\ Len(points[1]) \in Nat
    BY <1>4
  <1>6. IsFiniteSet(DOMAIN points) /\ IsFiniteSet(DOMAIN points[1])
    <2>1. \A m \in Nat : IsFiniteSet(1 .. m)
      <3>1. \A m \in Nat : m \in Int /\ 1 \in Int
        OBVIOUS
      <3> QED
        BY <3>1, FS_Interval
    <2> QED
      BY <1>2, <1>5, <2>1, Zenon
  <1>7. \A i \in DOMAIN points : points[i] \in [DOMAIN points[1] -> Int]
    BY <1>1, <1>3
  <1> QED
    BY <1>1, <1>4, <1>6, <1>7

LEMMA DistanceInt ==
  ASSUME NEW S, IsFiniteSet(S), NEW p \in [S -> Int], NEW q \in [S -> Int]
  PROVE  M!Distance(p, q) \in Int
PROOF
  <1> DEFINE f == [i \in S |-> (p[i] - q[i]) * (p[i] - q[i])]
  <1>1. \A i \in S : f[i] \in Int
    <2> SUFFICES ASSUME NEW i \in S PROVE (p[i] - q[i]) * (p[i] - q[i]) \in Int
      OBVIOUS
    <2>1. p[i] - q[i] \in Int
      OBVIOUS
    <2> QED
      BY <2>1
  <1>2. M!Distance(p, q) = M!SumFunction(f) /\ DOMAIN f = S
    BY DEF M!Distance
  <1> HIDE DEF f
  <1> QED
    BY <1>1, <1>2, SumInt, ClusterOperators

\* There is a nearest center, and the code finds it.
LEMMA NearestIsNearest ==
  ASSUME NEW S, IsFiniteSet(S), NEW p \in [S -> Int], NEW n \in Nat, n # 0,
         NEW cs \in [1 .. n -> [S -> Int]]
  PROVE  /\ M!Nearest(p, cs) \in 1 .. n
         /\ \A c \in 1 .. n : M!Distance(p, cs[M!Nearest(p, cs)]) <= M!Distance(p, cs[c])
PROOF
  <1> DEFINE f == [c \in 1 .. n |-> - M!Distance(p, cs[c])]
             near == {c \in 1 .. n : \A e \in 1 .. n : M!Distance(p, cs[c]) <= M!Distance(p, cs[e])}
  <1>1. \A c \in 1 .. n : M!Distance(p, cs[c]) \in Int
    <2> SUFFICES ASSUME NEW c \in 1 .. n PROVE M!Distance(p, cs[c]) \in Int
      OBVIOUS
    <2>1. cs[c] \in [S -> Int]
      OBVIOUS
    <2> QED
      BY <2>1, DistanceInt
  <1>2. \A c \in 1 .. n : f[c] = - M!Distance(p, cs[c]) /\ f[c] \in Int
    BY <1>1
  <1>3. IsFiniteSet(1 .. n) /\ 1 .. n # {}
    <2>1. n \in Int /\ 1 \in Int /\ 1 \in 1 .. n
      OBVIOUS
    <2>2. IsFiniteSet(1 .. n)
      BY <2>1, FS_Interval, Zenon
    <2> QED
      BY <2>1, <2>2, Zenon
  <1> HIDE DEF f
  <1>4. PICK c \in 1 .. n : \A e \in 1 .. n : f[e] <= f[c]
    BY <1>2, <1>3, LargestValue
  <1>5. c \in near
    <2>1. ASSUME NEW e \in 1 .. n
          PROVE  M!Distance(p, cs[c]) <= M!Distance(p, cs[e])
      <3>1. - M!Distance(p, cs[e]) <= - M!Distance(p, cs[c])
        BY <1>2, <1>4
      <3> QED
        BY <1>1, <3>1
    <2> QED
      BY <2>1
  <1>6. near # {} /\ IsFiniteSet(near) /\ near \subseteq Int
    <2>1. near \subseteq 1 .. n /\ near # {}
      BY <1>5
    <2> HIDE DEF near
    <2>2. near \subseteq Int
      BY <2>1
    <2>3. IsFiniteSet(near)
      BY <1>3, <2>1, FS_Subset, Zenon
    <2> QED
      BY <2>1, <2>2, <2>3
  <1>7. M!Nearest(p, cs) = M!Min(near)
    BY DEF M!Nearest
  <1> DEFINE found == M!Min(near)
  <1>8. found \in near
    <2> HIDE DEF near
    <2>1. PICK x \in near : \A y \in near : x <= y
      BY <1>6, LeastElement
    <2>2. found = CHOOSE e \in near : \A d \in near : e <= d
      BY ClusterOperators
    <2> QED
      BY <2>1, <2>2
  <1> HIDE DEF found
  <1>9. found \in 1 .. n /\ \A e \in 1 .. n : M!Distance(p, cs[found]) <= M!Distance(p, cs[e])
    BY <1>8
  <1> QED
    BY <1>7, <1>9 DEF found

LEMMA CenterInt ==
  ASSUME <<data, k>> \in Clusterings, centers \in [1 .. k -> [DOMAIN data[1] -> Int]],
         NEW assigned, NEW c \in 1 .. k
  PROVE  M!CenterOf(assigned, c) \in [DOMAIN data[1] -> Int]
PROOF
  <1> DEFINE members == M!Members(assigned, c)
             S == DOMAIN data[1]
  <1>1. /\ IsFiniteSet(DOMAIN data) /\ members \subseteq DOMAIN data
        /\ \A i \in DOMAIN data : data[i] \in [S -> Int]
    BY ClusterParameters DEF M!Members
  <1>2. IsFiniteSet(members)
    BY <1>1, FS_Subset
  <1>3. CASE members = {}
    BY <1>3 DEF M!CenterOf
  <1>4. CASE members # {}
    <2>1. M!Cardinality(members) \in Nat /\ M!Cardinality(members) # 0
      BY <1>2, <1>4, FS_CardinalityType, FS_EmptySet, ClusterOperators
    <2>2. ASSUME NEW x \in S
          PROVE  M!SumFunction([i \in members |-> data[i][x]]) \div M!Cardinality(members) \in Int
      <3> DEFINE f == [i \in members |-> data[i][x]]
      <3>1. (\A i \in members : f[i] \in Int) /\ DOMAIN f = members
        BY <1>1
      <3> HIDE DEF f, members
      <3>2. M!SumFunction(f) \in Int
        BY <1>2, <3>1, SumInt, ClusterOperators
      <3>3. M!SumFunction(f) \div M!Cardinality(members) \in Int
        BY <2>1, <3>2
      <3> QED
        BY <3>3 DEF f
    <2>3. DOMAIN centers[c] = S
      OBVIOUS
    <2>4. M!CenterOf(assigned, c) =
            [x \in S |-> M!SumFunction([i \in members |-> data[i][x]]) \div M!Cardinality(members)]
      BY <1>4, <2>3 DEF M!CenterOf
    <2> HIDE DEF members
    <2> QED
      BY <2>2, <2>4
  <1> QED
    BY <1>3, <1>4

\* A run that has converged has ended, with points and centers that fit.
FitInv ==
  /\ M!TypeOK
  /\ centers \in [1 .. k -> [DOMAIN data[1] -> Int]]
  /\ ~done => iterations < MaxIterations["kmeans"]
  /\ converged => done /\ M!ConvergedIsFixpoint

LEMMA KMeansParameters == MaxIterations["kmeans"] \in Nat
BY ParametersAssumption

LEMMA FitInit == M!Init => FitInv
PROOF
  <1> SUFFICES ASSUME M!Init PROVE FitInv
    OBVIOUS
  <1>1. /\ centers = SubSeq(data, 1, k) /\ tolerance \in {"zero", "positive"}
        /\ assignments = [i \in DOMAIN data |-> 1] /\ iterations = 0 /\ converged = FALSE
        /\ done = (MaxIterations["kmeans"] = 0)
    BY DEF M!Init
  <1>2. <<data, k>> \in Clusterings
    <2>1. PICK clustering \in Clusterings : data = clustering[1] /\ k = clustering[2]
      BY DEF M!Init
    <2>2. clustering = <<clustering[1], clustering[2]>>
      BY SamplesAssumption
    <2> QED
      BY <2>1, <2>2
  <1>3. /\ data \in Seq(Seq(Int)) /\ k \in 1 .. Len(data)
        /\ \A i \in DOMAIN data : data[i] \in [DOMAIN data[1] -> Int]
    BY <1>2, ClusterParameters
  <1>4. /\ k \in Nat /\ k # 0 /\ DOMAIN data = 1 .. Len(data) /\ Len(data) \in Nat
        /\ 1 .. k \subseteq DOMAIN data
    BY <1>3
  <1>5. centers = [c \in 1 .. k |-> data[c]]
    BY <1>1, <1>3, <1>4
  <1>6. centers \in [1 .. k -> [DOMAIN data[1] -> Int]]
    BY <1>3, <1>4, <1>5
  <1>7. assignments \in [DOMAIN data -> 1 .. k]
    BY <1>1, <1>4
  <1>8. (~done => MaxIterations["kmeans"] # 0) /\ done \in BOOLEAN
    BY <1>1, Zenon
  <1>9. ~done => iterations < MaxIterations["kmeans"]
    BY <1>1, <1>8, KMeansParameters
  <1>10. M!TypeOK
    <2>1. DOMAIN centers = 1 .. k /\ \A c \in 1 .. k : DOMAIN centers[c] = DOMAIN data[1]
      BY <1>6
    <2>2. iterations \in 0 .. MaxIterations["kmeans"]
      BY <1>1, KMeansParameters
    <2> QED
      BY <1>1, <1>2, <1>7, <1>8, <2>1, <2>2, Zenon DEF M!TypeOK
  <1> QED
    BY <1>1, <1>6, <1>9, <1>10 DEF FitInv

LEMMA AssignedStays ==
  ASSUME data' = data
  PROVE  \A cs : M!Assigned(cs)' = M!Assigned(cs)
BY DEF M!Assigned

LEMMA CenterStays ==
  ASSUME data' = data, centers' = centers, NEW assigned, NEW c
  PROVE  M!CenterOf(assigned, c)' = M!CenterOf(assigned, c)
PROOF
  <1>1. M!Members(assigned, c)' = M!Members(assigned, c)
    BY DEF M!Members
  <1> QED
    BY <1>1, Zenon DEF M!CenterOf

LEMMA FitStep ==
  ASSUME FitInv, M!Iterate
  PROVE  FitInv'
PROOF
  <1> DEFINE assigned == M!Assigned(centers)
             last == MaxIterations["kmeans"]
             S == DOMAIN data[1]
  <1>1. /\ data' = data /\ k' = k /\ tolerance' = tolerance /\ assignments' = assigned /\ ~done
        /\ centers' = [c \in 1 .. k |-> M!CenterOf(assigned, c)]
        /\ iterations' = iterations + 1
        /\ converged' = (tolerance = "positive" /\ centers' = centers)
        /\ done' = (converged' \/ iterations' = last)
    BY Zenon DEF M!Iterate
  <1>2. /\ <<data, k>> \in Clusterings /\ tolerance \in {"zero", "positive"}
        /\ centers \in [1 .. k -> [S -> Int]]
        /\ iterations \in 0 .. last /\ iterations < last /\ last \in Nat
    BY <1>1, KMeansParameters DEF FitInv, M!TypeOK
  <1>3. centers' \in [1 .. k -> [S -> Int]]
    <2> HIDE DEF assigned
    <2>1. \A c \in 1 .. k : M!CenterOf(assigned, c) \in [S -> Int]
      BY <1>2, CenterInt
    <2> QED
      BY <1>1, <2>1
  <1>4. assignments' \in [DOMAIN data -> 1 .. k]
    <2>1. ASSUME NEW i \in DOMAIN data
          PROVE  M!Nearest(data[i], centers) \in 1 .. k
      <3>1. data[i] \in [S -> Int] /\ IsFiniteSet(S) /\ k \in Nat /\ k # 0
        BY <1>2, ClusterParameters
      <3> HIDE DEF S
      <3> QED
        BY <1>2, <3>1, NearestIsNearest
    <2> QED
      BY <1>1, <2>1 DEF M!Assigned
  <1>5. M!TypeOK'
    <2>1. converged' \in BOOLEAN /\ done' \in BOOLEAN
      BY <1>1, Zenon
    <2>2. DOMAIN centers' = 1 .. k /\ \A c \in 1 .. k : DOMAIN centers'[c] = S
      BY <1>3
    <2>3. iterations' \in 0 .. last
      BY <1>1, <1>2
    <2> QED
      BY <1>1, <1>2, <1>4, <2>1, <2>2, <2>3 DEF M!TypeOK
  <1>6. ~done' => iterations' < last
    <2>1. ~done' => iterations' # last
      BY <1>1, Zenon
    <2> QED
      BY <1>1, <1>2, <2>1
  <1>7. ASSUME converged'
        PROVE  done' /\ M!ConvergedIsFixpoint'
    <2>1. centers' = centers /\ done'
      BY <1>1, <1>7, Zenon
    <2>2. assignments' = M!Assigned(centers)'
      BY <1>1, <2>1, AssignedStays
    <2>3. ASSUME NEW c \in 1 .. k
          PROVE  M!CenterOf(assignments, c)' = centers'[c]
      <3>1. centers'[c] = M!CenterOf(assigned, c)
        BY <1>1
      <3>2. \A a : M!CenterOf(a, c)' = M!CenterOf(a, c)
        BY <1>1, <2>1, CenterStays
      <3> QED
        BY <1>1, <3>1, <3>2
    <2> QED
      BY <1>1, <2>1, <2>2, <2>3 DEF M!ConvergedIsFixpoint
  <1>8. centers' \in [1 .. k' -> [DOMAIN data'[1] -> Int]]
    BY <1>1, <1>3
  <1> QED
    BY <1>5, <1>6, <1>7, <1>8 DEF FitInv

FitRun == plugin = "kmeans" => FitInv

\* The invariant holds for all points and every number of clusters.
THEOREM FitInvariance == Spec => []FitRun
PROOF
  <1>1. Init => FitRun
    BY PluginBegins, FitInit DEF FitRun
  <1>2. FitRun /\ [Next]_vars => FitRun'
    <2> SUFFICES ASSUME FitInv, [M!Next]_(M!vars)
                 PROVE  FitInv'
      BY PluginRuns DEF FitRun
    <2>1. CASE UNCHANGED M!vars
      <3>1. UNCHANGED <<data, k, tolerance, centers, assignments, iterations, converged, done>>
        BY <2>1 DEF M!vars
      <3>2. M!Assigned(centers)' = M!Assigned(centers)
        BY <3>1, AssignedStays
      <3>3. \A c : M!CenterOf(assignments, c)' = M!CenterOf(assignments, c)
        BY <3>1, CenterStays
      <3> QED
        BY <3>1, <3>2, <3>3 DEF FitInv, M!TypeOK, M!ConvergedIsFixpoint
    <2>2. CASE M!Next
      BY <2>2, FitStep DEF M!Next
    <2> QED
      BY <2>1, <2>2
  <1> QED
    BY <1>1, <1>2, PTL DEF Spec

\* Of numbers none of which is below 0 the sum is above 0 when one of them is.
LEMMA SumPositive ==
  ASSUME NEW f, NEW S, IsFiniteSet(S), \A x \in S : f[x] \in Nat, NEW y \in S, f[y] > 0
  PROVE  SumFunctionOnSet(f, S) > 0
PROOF
  <1>1. \A x \in S : f[x] \in Int
    OBVIOUS
  <1>2. SumFunctionOnSet(f, S) = f[y] + SumFunctionOnSet(f, S \ {y})
    BY <1>1, SumRemove
  <1> DEFINE rest == S \ {y}
  <1>3. IsFiniteSet(rest) /\ \A x \in rest : f[x] \in Nat
    BY FS_Subset
  <1> HIDE DEF rest
  <1>4. SumFunctionOnSet(f, rest) \in Nat
    BY <1>3, SumNat
  <1> DEFINE a == SumFunctionOnSet(f, S)
             c == SumFunctionOnSet(f, rest)
  <1>5. a = f[y] + c /\ c \in Nat /\ f[y] \in Nat
    BY <1>2, <1>4, Zenon DEF rest
  <1> HIDE DEF a, c
  <1>6. a > 0
    BY <1>5
  <1> QED
    BY <1>6 DEF a

Fiber(I, a, c) == {i \in I : a[i] = c}

Vanishes(I, U, a, q) == \A c \in U : SumFunctionOnSet(q, Fiber(I, a, c)) = 0

Weighted(I, a, q, e, f) == \A i \in I : f[i] = q[i] * e[a[i]]

\* What sums up to 0 in every cluster does so on the whole, also when every
\* cluster has a factor of its own.
LEMMA FibersVanish ==
  ASSUME NEW I, NEW U, IsFiniteSet(I), IsFiniteSet(U), NEW a \in [I -> U],
         NEW q \in [I -> Int], NEW e \in [U -> Int],
         Vanishes(I, U, a, q), NEW f \in [I -> Int], Weighted(I, a, q, e, f)
  PROVE  SumFunctionOnSet(f, I) = 0
PROOF
  <1> DEFINE over(t) == {i \in I : a[i] \in t}
             Family == {t \in SUBSET U : SumFunctionOnSet(f, over(t)) # 0}
  <1>1. over(U) = I
    OBVIOUS
  <1>2. SUFFICES ASSUME Family # {} PROVE FALSE
    <2>1. U \notin Family => SumFunctionOnSet(f, over(U)) = 0
      OBVIOUS
    <2> QED
      BY <1>1, <1>2, <2>1, Zenon
  <1>3. \A t \in Family : IsFiniteSet(t)
    BY FS_Subset
  <1> HIDE DEF Family
  <1>4. PICK t \in Family : \A x \in t : t \ {x} \notin Family
    BY <1>2, <1>3, SmallestSet
  <1>5. t \subseteq U /\ SumFunctionOnSet(f, over(t)) # 0
    BY DEF Family
  <1>6. t # {}
    <2>1. over({}) = {}
      OBVIOUS
    <2> HIDE DEF over
    <2> QED
      BY <1>5, <2>1, SumEmpty
  <1>7. PICK x : x \in t
    BY <1>6
  <1> DEFINE others == over(t \ {x})
             own == Fiber(I, a, x)
  <1>8. over(t) = others \cup own /\ others \cap own = {} /\ others \subseteq I /\ own \subseteq I
    BY <1>7 DEF Fiber
  <1>9. SumFunctionOnSet(f, others) = 0
    <2>1. t \ {x} \in SUBSET U /\ t \ {x} \notin Family
      BY <1>4, <1>5, <1>7
    <2> HIDE DEF over
    <2> QED
      BY <2>1 DEF Family
  <1>10. \A i \in own : a[i] = x
    BY DEF Fiber
  <1> HIDE DEF over, others, own
  <1>11. IsFiniteSet(others) /\ IsFiniteSet(own)
    BY <1>8, FS_Subset
  <1>12. SumFunctionOnSet(f, own) = e[x] * SumFunctionOnSet(q, own)
    <2>1. e[x] \in Int
      BY <1>5, <1>7
    <2>2. \A i \in own : q[i] \in Int /\ f[i] = e[x] * q[i]
      BY <1>8, <1>10, <2>1 DEF Weighted
    <2> QED
      BY <1>11, <2>1, <2>2, SumTimes
  <1>13. SumFunctionOnSet(f, own) = 0
    <2>1. SumFunctionOnSet(q, own) = 0 /\ e[x] \in Int
      BY <1>5, <1>7 DEF own, Vanishes
    <2> QED
      BY <1>12, <2>1
  <1>14. SumFunctionOnSet(f, others \cup own) = SumFunctionOnSet(f, others) + SumFunctionOnSet(f, own)
    <2>1. \A i \in others \cup own : f[i] \in Int
      BY <1>8
    <2> QED
      BY <1>8, <1>11, <2>1, SumUnion
  <1> QED
    BY <1>5, <1>8, <1>9, <1>13, <1>14

\* The square of the distance of two points, and the product of the ways from
\* one point to the second and from the second to a third.
Apart(S, p, o) == SumFunctionOnSet([x \in S |-> (p[x] - o[x]) * (p[x] - o[x])], S)

Crossed(S, p, n, o) == SumFunctionOnSet([x \in S |-> (p[x] - n[x]) * (n[x] - o[x])], S)

LEMMA Squares == \A a \in Int : a * a \in Nat /\ (a # 0 => a * a > 0)
OBVIOUS

LEMMA Binomial ==
  ASSUME NEW p \in Int, NEW n \in Int, NEW o \in Int
  PROVE  /\ (p - o) * (p - o) \in Nat /\ (p - n) * (p - n) \in Nat /\ (n - o) * (n - o) \in Nat
         /\ (p - n) * (n - o) \in Int
         /\ (p - o) * (p - o) = ((p - n) * (p - n) + 2 * ((p - n) * (n - o))) + (n - o) * (n - o)
PROOF
  <1> DEFINE a == p - n
             b == n - o
             c == p - o
  <1>1. a \in Int /\ b \in Int /\ c \in Int /\ c = a + b
    OBVIOUS
  <1> HIDE DEF a, b, c
  <1>2. a * a \in Nat /\ b * b \in Nat /\ c * c \in Nat
    BY <1>1, Squares
  <1>3. (a + b) * (a + b) = (a * a + 2 * (a * b)) + b * b /\ a * b \in Int
    BY <1>1
  <1>4. c * c = (a * a + 2 * (a * b)) + b * b
    BY <1>1, <1>3, Zenon
  <1> QED
    BY <1>2, <1>3, <1>4, Zenon DEF a, b, c

ArePoints(S, p, n, o) ==
  IsFiniteSet(S) /\ p \in [S -> Int] /\ n \in [S -> Int] /\ o \in [S -> Int]

\* The three sides of a triangle.
LEMMA TriangleSides ==
  ASSUME NEW S, NEW p, NEW n, NEW o, ArePoints(S, p, n, o)
  PROVE  /\ Apart(S, p, o) \in Nat /\ Apart(S, p, n) \in Nat /\ Apart(S, n, o) \in Nat
         /\ Crossed(S, p, n, o) \in Int
         /\ Apart(S, p, o) = (Apart(S, p, n) + 2 * Crossed(S, p, n, o)) + Apart(S, n, o)
PROOF
  <1>0. IsFiniteSet(S) /\ p \in [S -> Int] /\ n \in [S -> Int] /\ o \in [S -> Int]
    BY DEF ArePoints
  <1> DEFINE po == [x \in S |-> (p[x] - o[x]) * (p[x] - o[x])]
             pn == [x \in S |-> (p[x] - n[x]) * (p[x] - n[x])]
             no == [x \in S |-> (n[x] - o[x]) * (n[x] - o[x])]
             pno == [x \in S |-> (p[x] - n[x]) * (n[x] - o[x])]
             twice_ == [x \in S |-> 2 * pno[x]]
             both == [x \in S |-> pn[x] + twice_[x]]
  <1>1. \A x \in S : /\ po[x] \in Nat /\ pn[x] \in Nat /\ no[x] \in Nat /\ pno[x] \in Int
                     /\ po[x] = (pn[x] + 2 * pno[x]) + no[x]
    <2> SUFFICES ASSUME NEW x \in S
                 PROVE  /\ po[x] \in Nat /\ pn[x] \in Nat /\ no[x] \in Nat /\ pno[x] \in Int
                        /\ po[x] = (pn[x] + 2 * pno[x]) + no[x]
      OBVIOUS
    <2>1. p[x] \in Int /\ n[x] \in Int /\ o[x] \in Int
      BY <1>0
    <2>2. /\ po[x] = (p[x] - o[x]) * (p[x] - o[x]) /\ pn[x] = (p[x] - n[x]) * (p[x] - n[x])
          /\ no[x] = (n[x] - o[x]) * (n[x] - o[x]) /\ pno[x] = (p[x] - n[x]) * (n[x] - o[x])
      OBVIOUS
    <2>3. /\ (p[x] - o[x]) * (p[x] - o[x]) \in Nat /\ (p[x] - n[x]) * (p[x] - n[x]) \in Nat
          /\ (n[x] - o[x]) * (n[x] - o[x]) \in Nat /\ (p[x] - n[x]) * (n[x] - o[x]) \in Int
          /\ (p[x] - o[x]) * (p[x] - o[x]) =
               ((p[x] - n[x]) * (p[x] - n[x]) + 2 * ((p[x] - n[x]) * (n[x] - o[x])))
                 + (n[x] - o[x]) * (n[x] - o[x])
      BY <2>1, Binomial, Zenon
    <2> HIDE DEF po, pn, no, pno
    <2> QED
      BY <2>2, <2>3, Zenon
  <1>2. \A x \in S : twice_[x] = 2 * pno[x] /\ both[x] = pn[x] + twice_[x]
    OBVIOUS
  <1>3. /\ Apart(S, p, o) = SumFunctionOnSet(po, S) /\ Apart(S, p, n) = SumFunctionOnSet(pn, S)
        /\ Apart(S, n, o) = SumFunctionOnSet(no, S)
        /\ Crossed(S, p, n, o) = SumFunctionOnSet(pno, S)
    BY Zenon DEF Apart, Crossed
  <1> HIDE DEF po, pn, no, pno, twice_, both
  <1>4. /\ SumFunctionOnSet(po, S) \in Nat /\ SumFunctionOnSet(pn, S) \in Nat
        /\ SumFunctionOnSet(no, S) \in Nat
    BY <1>0, <1>1, SumNat
  <1>5. SumFunctionOnSet(pno, S) \in Int
    BY <1>0, <1>1, SumInt
  <1>6. SumFunctionOnSet(twice_, S) = 2 * SumFunctionOnSet(pno, S)
    BY <1>0, <1>1, <1>2, SumTimes
  <1>7. \A x \in S : /\ pn[x] \in Int /\ twice_[x] \in Int /\ both[x] \in Int /\ no[x] \in Int
                     /\ po[x] \in Int /\ po[x] = both[x] + no[x]
    BY <1>1, <1>2
  <1>8. SumFunctionOnSet(both, S) = SumFunctionOnSet(pn, S) + SumFunctionOnSet(twice_, S)
    BY <1>0, <1>2, <1>7, SumAdd
  <1>9. SumFunctionOnSet(po, S) = SumFunctionOnSet(both, S) + SumFunctionOnSet(no, S)
    BY <1>0, <1>7, SumAdd
  <1> QED
    BY <1>3, <1>4, <1>5, <1>6, <1>8, <1>9

\* Points that differ are apart.
LEMMA ApartPositive ==
  ASSUME NEW S, IsFiniteSet(S), NEW n \in [S -> Int], NEW o \in [S -> Int], n # o
  PROVE  Apart(S, n, o) > 0
PROOF
  <1> DEFINE no == [x \in S |-> (n[x] - o[x]) * (n[x] - o[x])]
  <1>1. PICK x \in S : n[x] # o[x]
    OBVIOUS
  <1>2. \A y \in S : no[y] \in Nat
    <2> SUFFICES ASSUME NEW y \in S PROVE (n[y] - o[y]) * (n[y] - o[y]) \in Nat
      OBVIOUS
    <2>1. n[y] \in Int /\ o[y] \in Int
      OBVIOUS
    <2> QED
      BY <2>1, Binomial, Zenon
  <1>3. no[x] > 0
    <2>1. n[x] - o[x] \in Int /\ n[x] - o[x] # 0
      BY <1>1
    <2>2. (n[x] - o[x]) * (n[x] - o[x]) > 0
      BY <2>1, Squares, Zenon
    <2> QED
      BY <2>2
  <1> HIDE DEF no
  <1>4. SumFunctionOnSet(no, S) > 0
    BY <1>2, <1>3, SumPositive
  <1> QED
    BY <1>4 DEF no, Apart

\* n has the means of the clusters that a makes of p.
Means(I, U, S, p, a, n) ==
  \A c \in U : \A x \in S :
    SumFunctionOnSet([i \in I |-> p[i][x]], Fiber(I, a, c)) = Cardinality(Fiber(I, a, c)) * n[c][x]

\* In one coordinate, points lie around the mean of their cluster.
Offsets(I, p, a, n, x) == [i \in I |-> p[i][x] - n[a[i]][x]]

LEMMA MembersBalance ==
  ASSUME NEW I, NEW U, NEW S, IsFiniteSet(I), NEW a \in [I -> U], NEW p \in [I -> [S -> Int]],
         NEW n \in [U -> [S -> Int]], Means(I, U, S, p, a, n), NEW x \in S
  PROVE  Vanishes(I, U, a, Offsets(I, p, a, n, x))
PROOF
  <1> SUFFICES ASSUME NEW c \in U
               PROVE  SumFunctionOnSet(Offsets(I, p, a, n, x), Fiber(I, a, c)) = 0
    BY DEF Vanishes
  <1> DEFINE F == Fiber(I, a, c)
             h == [i \in I |-> p[i][x]]
             q == Offsets(I, p, a, n, x)
             g == [i \in I |-> n[a[i]][x]]
             mean == n[c][x]
  <1>1. IsFiniteSet(F) /\ F \subseteq I /\ \A i \in F : a[i] = c
    BY FS_Subset DEF Fiber
  <1>2. \A i \in I : h[i] \in Int /\ q[i] \in Int /\ g[i] \in Int /\ h[i] = q[i] + g[i]
    BY DEF Offsets
  <1>3. mean \in Int /\ \A i \in F : g[i] = mean
    BY <1>1
  <1>4. SumFunctionOnSet(h, F) = Cardinality(F) * mean
    BY Zenon DEF Means
  <1> HIDE DEF F, h, q, g, mean
  <1>5. SumFunctionOnSet(g, F) = Cardinality(F) * mean
    BY <1>1, <1>3, SumConstant
  <1>6. SumFunctionOnSet(h, F) = SumFunctionOnSet(q, F) + SumFunctionOnSet(g, F)
    BY <1>1, <1>2, SumAdd
  <1>7. SumFunctionOnSet(q, F) \in Int /\ SumFunctionOnSet(g, F) \in Int
    BY <1>1, <1>2, SumInt
  <1>8. SumFunctionOnSet(q, F) = 0
    <2> DEFINE r == SumFunctionOnSet(q, F)
               s == SumFunctionOnSet(g, F)
    <2>1. r \in Int /\ s \in Int /\ s = r + s
      BY <1>4, <1>5, <1>6, <1>7, Zenon
    <2> HIDE DEF r, s
    <2>2. r = 0
      BY <2>1
    <2> QED
      BY <2>2 DEF r
  <1> QED
    BY <1>8 DEF q, F

\* So the ways to the means and the ways on from there have nothing in common.
Crossings(I, S, p, a, n, o) == [i \in I |-> Crossed(S, p[i], n[a[i]], o[a[i]])]

AreCenters(I, U, S, a, p, n, o) ==
  /\ IsFiniteSet(I) /\ IsFiniteSet(U) /\ IsFiniteSet(S)
  /\ a \in [I -> U] /\ p \in [I -> [S -> Int]]
  /\ n \in [U -> [S -> Int]] /\ o \in [U -> [S -> Int]]

LEMMA CrossingsCancel ==
  ASSUME NEW I, NEW U, NEW S, NEW a, NEW p, NEW n, NEW o,
         AreCenters(I, U, S, a, p, n, o), Means(I, U, S, p, a, n)
  PROVE  SumFunctionOnSet(Crossings(I, S, p, a, n, o), I) = 0
PROOF
  <1> SUFFICES ASSUME IsFiniteSet(I), IsFiniteSet(U), IsFiniteSet(S), a \in [I -> U],
                      p \in [I -> [S -> Int]], n \in [U -> [S -> Int]], o \in [U -> [S -> Int]]
               PROVE  SumFunctionOnSet(Crossings(I, S, p, a, n, o), I) = 0
    BY DEF AreCenters
  <1> DEFINE m == [i \in I |-> [x \in S |-> (p[i][x] - n[a[i]][x]) * (n[a[i]][x] - o[a[i]][x])]]
             rows == [i \in I |-> SumFunctionOnSet(m[i], S)]
             columns == [x \in S |-> SumFunctionOnSet([i \in I |-> m[i][x]], I)]
  <1>1. \A i \in I : \A x \in S :
          p[i][x] - n[a[i]][x] \in Int /\ n[a[i]][x] - o[a[i]][x] \in Int
    <2> SUFFICES ASSUME NEW i \in I, NEW x \in S
                 PROVE  p[i][x] - n[a[i]][x] \in Int /\ n[a[i]][x] - o[a[i]][x] \in Int
      OBVIOUS
    <2>1. a[i] \in U
      OBVIOUS
    <2>2. p[i][x] \in Int /\ n[a[i]][x] \in Int /\ o[a[i]][x] \in Int
      BY <2>1
    <2> QED
      BY <2>2
  <1>2. \A i \in I : \A x \in S :
          (p[i][x] - n[a[i]][x]) * (n[a[i]][x] - o[a[i]][x]) \in Int
    <2>1. \A y \in Int : \A z \in Int : y * z \in Int
      OBVIOUS
    <2> QED
      BY <1>1, <2>1, Zenon
  <1>3. m \in [I -> [S -> Int]]
    BY <1>2
  <1>4. \A x \in S : columns[x] = 0
    <2> SUFFICES ASSUME NEW x \in S
                 PROVE  SumFunctionOnSet([i \in I |-> m[i][x]], I) = 0
      OBVIOUS
    <2> DEFINE q == Offsets(I, p, a, n, x)
               e == [c \in U |-> n[c][x] - o[c][x]]
               f == [i \in I |-> m[i][x]]
    <2>1. q \in [I -> Int] /\ e \in [U -> Int]
      BY <1>1 DEF Offsets
    <2>2. f \in [I -> Int]
      BY <1>3
    <2>3. Weighted(I, a, q, e, f)
      BY DEF Weighted, Offsets
    <2>4. Vanishes(I, U, a, q)
      BY MembersBalance
    <2> HIDE DEF q, e, f
    <2>5. SumFunctionOnSet(f, I) = 0
      BY <2>1, <2>2, <2>3, <2>4, FibersVanish
    <2> QED
      BY <2>5 DEF f
  <1>5. \A i \in I : rows[i] = Crossed(S, p[i], n[a[i]], o[a[i]])
    BY DEF Crossed
  <1>6. SumFunctionOnSet(rows, I) = SumFunctionOnSet(columns, S)
    <2> HIDE DEF m
    <2> QED
      BY <1>3, SumSwap
  <1> HIDE DEF columns
  <1>7. SumFunctionOnSet(columns, S) = 0
    <2>1. SumFunctionOnSet(columns, S) = Cardinality(S) * 0
      BY <1>4, SumConstant
    <2>2. Cardinality(S) \in Nat
      BY FS_CardinalityType
    <2> QED
      BY <2>1, <2>2
  <1> DEFINE crossings == Crossings(I, S, p, a, n, o)
  <1>8. \A i \in I : rows[i] = crossings[i]
    BY <1>5 DEF Crossings
  <1> HIDE DEF rows, crossings
  <1>9. SumFunctionOnSet(rows, I) = SumFunctionOnSet(crossings, I)
    BY <1>8, SumSame
  <1> QED
    BY <1>6, <1>7, <1>9 DEF crossings

\* The squares of the distances of all points from their centers.
Spread(I, S, p, a, cs) == SumFunctionOnSet([i \in I |-> Apart(S, p[i], cs[a[i]])], I)

\* A cluster without members keeps its center.
Abandoned(I, U, a, n, o) == \A c \in U : Fiber(I, a, c) = {} => n[c] = o[c]

\* Other centers than the means are farther from the points.
LEMMA MeansAreNearer ==
  ASSUME NEW I, NEW U, NEW S, NEW a, NEW p, NEW n, NEW o,
         AreCenters(I, U, S, a, p, n, o), Means(I, U, S, p, a, n), Abandoned(I, U, a, n, o),
         n # o
  PROVE  /\ Spread(I, S, p, a, n) \in Int /\ Spread(I, S, p, a, o) \in Int
         /\ Spread(I, S, p, a, n) < Spread(I, S, p, a, o)
PROOF
  <1>0. /\ IsFiniteSet(I) /\ IsFiniteSet(U) /\ IsFiniteSet(S)
        /\ a \in [I -> U] /\ p \in [I -> [S -> Int]]
        /\ n \in [U -> [S -> Int]] /\ o \in [U -> [S -> Int]]
    BY DEF AreCenters
  <1> DEFINE po == [i \in I |-> Apart(S, p[i], o[a[i]])]
             pn == [i \in I |-> Apart(S, p[i], n[a[i]])]
             no == [i \in I |-> Apart(S, n[a[i]], o[a[i]])]
             pno == Crossings(I, S, p, a, n, o)
             twice_ == [i \in I |-> 2 * pno[i]]
             both == [i \in I |-> pn[i] + twice_[i]]
  <1>1. \A i \in I : p[i] \in [S -> Int] /\ n[a[i]] \in [S -> Int] /\ o[a[i]] \in [S -> Int]
    BY <1>0
  <1>2. \A i \in I : /\ po[i] \in Nat /\ pn[i] \in Nat /\ no[i] \in Nat /\ pno[i] \in Int
                     /\ po[i] = (pn[i] + 2 * pno[i]) + no[i]
    <2> SUFFICES ASSUME NEW i \in I
                 PROVE  /\ po[i] \in Nat /\ pn[i] \in Nat /\ no[i] \in Nat /\ pno[i] \in Int
                        /\ po[i] = (pn[i] + 2 * pno[i]) + no[i]
      OBVIOUS
    <2> DEFINE pi == p[i]
               ni == n[a[i]]
               oi == o[a[i]]
    <2>1. /\ po[i] = Apart(S, pi, oi) /\ pn[i] = Apart(S, pi, ni) /\ no[i] = Apart(S, ni, oi)
          /\ pno[i] = Crossed(S, pi, ni, oi)
      BY DEF Crossings
    <2>2. ArePoints(S, pi, ni, oi)
      BY <1>0, <1>1 DEF ArePoints
    <2> HIDE DEF pi, ni, oi, po, pn, no, pno
    <2>3. /\ Apart(S, pi, oi) \in Nat /\ Apart(S, pi, ni) \in Nat /\ Apart(S, ni, oi) \in Nat
          /\ Crossed(S, pi, ni, oi) \in Int
          /\ Apart(S, pi, oi) = (Apart(S, pi, ni) + 2 * Crossed(S, pi, ni, oi)) + Apart(S, ni, oi)
      BY <2>2, TriangleSides
    <2> QED
      BY <2>1, <2>3, Zenon
  <1>3. \A i \in I : twice_[i] = 2 * pno[i] /\ both[i] = pn[i] + twice_[i]
    OBVIOUS
  <1>4. PICK c \in U : n[c] # o[c]
    BY <1>0
  <1>5. PICK i \in I : a[i] = c
    BY <1>4 DEF Fiber, Abandoned
  <1>6. no[i] > 0
    <2>1. n[c] \in [S -> Int] /\ o[c] \in [S -> Int]
      BY <1>0
    <2>2. Apart(S, n[c], o[c]) > 0
      BY <1>0, <1>4, <2>1, ApartPositive
    <2> QED
      BY <1>5, <2>2
  <1>7. /\ Spread(I, S, p, a, n) = SumFunctionOnSet(pn, I)
        /\ Spread(I, S, p, a, o) = SumFunctionOnSet(po, I)
    BY Zenon DEF Spread
  <1>8. SumFunctionOnSet(pno, I) = 0
    BY CrossingsCancel
  <1> HIDE DEF po, pn, no, pno, twice_, both
  <1>9. \A j \in I : /\ pn[j] \in Int /\ twice_[j] \in Int /\ both[j] \in Int /\ no[j] \in Int
                     /\ po[j] \in Int /\ po[j] = both[j] + no[j]
    BY <1>2, <1>3
  <1>10. SumFunctionOnSet(twice_, I) = 2 * SumFunctionOnSet(pno, I)
    BY <1>0, <1>2, <1>3, SumTimes
  <1>11. SumFunctionOnSet(both, I) = SumFunctionOnSet(pn, I) + SumFunctionOnSet(twice_, I)
    BY <1>0, <1>3, <1>9, SumAdd
  <1>12. SumFunctionOnSet(po, I) = SumFunctionOnSet(both, I) + SumFunctionOnSet(no, I)
    BY <1>0, <1>9, SumAdd
  <1>13. SumFunctionOnSet(no, I) > 0
    BY <1>0, <1>2, <1>6, SumPositive
  <1>14. SumFunctionOnSet(pn, I) \in Int /\ SumFunctionOnSet(no, I) \in Int
    BY <1>0, <1>9, SumInt
  <1> QED
    BY <1>7, <1>8, <1>10, <1>11, <1>12, <1>13, <1>14

\* A sum of multiples of n is one.
LEMMA SumDivides ==
  ASSUME NEW S, IsFiniteSet(S), NEW f, NEW n \in Nat, n # 0,
         \A x \in S : f[x] \in Int /\ f[x] % n = 0
  PROVE  n * (SumFunctionOnSet(f, S) \div n) = SumFunctionOnSet(f, S)
PROOF
  <1> DEFINE h == [x \in S |-> f[x] \div n]
  <1>1. \A y \in Int : y % n = 0 => y \div n \in Int /\ y = n * (y \div n)
    OBVIOUS
  <1>2. \A x \in S : h[x] \in Int /\ f[x] = n * h[x]
    BY <1>1
  <1> HIDE DEF h
  <1>3. SumFunctionOnSet(f, S) = n * SumFunctionOnSet(h, S) /\ SumFunctionOnSet(h, S) \in Int
    BY <1>2, SumTimes, SumInt
  <1>4. \A y \in Int : (n * y) \div n = y
    <2> SUFFICES ASSUME NEW y \in Int PROVE (n * y) \div n = y
      OBVIOUS
    <2> DEFINE z == n * y
               d == z \div n
               r == z % n
    <2>1. z \in Int /\ d \in Int /\ r \in 0 .. n - 1 /\ z = n * d + r
      OBVIOUS
    <2>2. z = n * y
      OBVIOUS
    <2> HIDE DEF z, d, r
    <2>3. n * (y - d) = r
      BY <2>1, <2>2
    <2>4. y - d \in Int
      BY <2>1
    <2> DEFINE w == y - d
    <2>5. w \in Int /\ n * w = r
      BY <2>3, <2>4
    <2> HIDE DEF w
    <2>6. ~ (w >= 1)
      <3>1. w >= 1 => n * w >= n
        BY <2>5
      <3> QED
        BY <2>1, <2>5, <3>1
    <2>7. ~ (w <= -1)
      <3>1. w <= -1 => n * w <= -n
        BY <2>5
      <3> QED
        BY <2>1, <2>5, <3>1
    <2>8. y - d = 0
      BY <2>5, <2>6, <2>7 DEF w
    <2> QED
      BY <2>1, <2>8 DEF d, z
  <1>5. SumFunctionOnSet(f, S) \div n = SumFunctionOnSet(h, S)
    BY <1>3, <1>4
  <1> QED
    BY <1>3, <1>5

\* A cluster, its center and the distances of the code.
LEMMA DistanceIs ==
  ASSUME NEW S, NEW p \in [S -> Int], NEW q
  PROVE  M!Distance(p, q) = Apart(S, p, q)
PROOF
  <1> DEFINE f == [x \in S |-> (p[x] - q[x]) * (p[x] - q[x])]
  <1>1. DOMAIN p = S
    OBVIOUS
  <1>2. M!Distance(p, q) = M!SumFunction(f)
    BY <1>1 DEF M!Distance
  <1>3. DOMAIN f = S /\ Apart(S, p, q) = SumFunctionOnSet(f, S)
    BY DEF Apart
  <1> HIDE DEF f
  <1> QED
    BY <1>2, <1>3, ClusterOperators

LEMMA ClusterIs ==
  ASSUME <<data, k>> \in Clusterings,
         NEW a \in [DOMAIN data -> 1 .. k], NEW c \in 1 .. k
  PROVE  /\ M!Members(a, c) = Fiber(DOMAIN data, a, c)
         /\ Fiber(DOMAIN data, a, c) = {} => M!CenterOf(a, c) = centers[c]
BY DEF M!Members, Fiber, M!CenterOf

\* The size of a cluster divides all coordinates.
LEMMA SizesDivide ==
  ASSUME <<data, k>> \in Clusterings, NEW F \in SUBSET DOMAIN data, F # {}
  PROVE  /\ IsFiniteSet(F) /\ Cardinality(F) \in Nat /\ Cardinality(F) # 0
         /\ \A i \in DOMAIN data : \A x \in DOMAIN data[1] :
              data[i][x] \in Int /\ data[i][x] % Cardinality(F) = 0
PROOF
  <1>1. /\ data \in Seq(Seq(Int)) /\ IsFiniteSet(DOMAIN data)
        /\ \A i \in DOMAIN data : data[i] \in [DOMAIN data[1] -> Int]
    BY ClusterParameters
  <1>2. DOMAIN data = 1 .. Len(data) /\ Len(data) \in Nat
    BY <1>1
  <1>3. Cardinality(DOMAIN data) = Len(data)
    <2>1. \A m \in Nat : Cardinality(1 .. m) = m
      <3> SUFFICES ASSUME NEW m \in Nat PROVE Cardinality(1 .. m) = m
        OBVIOUS
      <3>1. m \in Int /\ 1 \in Int
        OBVIOUS
      <3>2. Cardinality(1 .. m) = IF 1 > m THEN 0 ELSE m - 1 + 1
        BY <3>1, FS_Interval
      <3> QED
        BY <3>2
    <2> QED
      BY <1>2, <2>1, Zenon
  <1>4. /\ IsFiniteSet(F) /\ Cardinality(F) \in Nat /\ Cardinality(F) # 0
        /\ Cardinality(F) <= Len(data)
    <2>1. IsFiniteSet(F) /\ Cardinality(F) <= Cardinality(DOMAIN data)
      BY <1>1, FS_Subset
    <2>2. Cardinality(F) \in Nat /\ Cardinality(F) # 0
      BY <2>1, FS_CardinalityType, FS_EmptySet
    <2> QED
      BY <1>3, <2>1, <2>2
  <1> DEFINE n == Cardinality(F)
  <1>5. n \in 1 .. Len(data)
    BY <1>2, <1>4
  <1>6. \A i \in DOMAIN data : \A x \in DOMAIN data[i] :
          \A m \in 1 .. Len(data) : data[i][x] % m = 0
    <2> DEFINE clustering == <<data, k>>
    <2>1. clustering \in Clusterings /\ clustering[1] = data
      OBVIOUS
    <2> HIDE DEF clustering
    <2>2. \A i \in DOMAIN clustering[1] : \A x \in DOMAIN clustering[1][i] :
            \A m \in 1 .. Len(clustering[1]) : clustering[1][i][x] % m = 0
      BY <2>1, ExactnessAssumption, Zenon
    <2> QED
      BY <2>1, <2>2, Zenon
  <1> HIDE DEF n
  <1>7. \A i \in DOMAIN data : \A x \in DOMAIN data[1] :
          data[i][x] \in Int /\ data[i][x] % n = 0
    BY <1>1, <1>5, <1>6
  <1> QED
    BY <1>4, <1>7 DEF n

\* New centers are means.
LEMMA CentersAreMeans ==
  ASSUME <<data, k>> \in Clusterings, centers \in [1 .. k -> [DOMAIN data[1] -> Int]],
         NEW a \in [DOMAIN data -> 1 .. k]
  PROVE  Means(DOMAIN data, 1 .. k, DOMAIN data[1], data, a, [c \in 1 .. k |-> M!CenterOf(a, c)])
PROOF
  <1> DEFINE I == DOMAIN data
             S == DOMAIN data[1]
             new == [c \in 1 .. k |-> M!CenterOf(a, c)]
  <1> SUFFICES ASSUME NEW c \in 1 .. k, NEW x \in S
               PROVE  SumFunctionOnSet([i \in I |-> data[i][x]], Fiber(I, a, c))
                        = Cardinality(Fiber(I, a, c)) * new[c][x]
    BY DEF Means
  <1> DEFINE F == Fiber(I, a, c)
             h == [i \in I |-> data[i][x]]
             f == [i \in F |-> data[i][x]]
             n == Cardinality(F)
  <1>1. F \subseteq I
    BY DEF Fiber
  <1>2. CASE F = {}
    <2>1. Cardinality(F) = 0 /\ SumFunctionOnSet(h, F) = 0
      BY <1>2, SumEmpty, FS_EmptySet, Zenon
    <2>2. new[c] = centers[c] /\ centers[c][x] \in Int
      BY <1>2, ClusterIs
    <2> DEFINE y == new[c][x]
    <2>3. y \in Int
      BY <2>2
    <2> HIDE DEF F, h, y
    <2>4. SumFunctionOnSet(h, F) = Cardinality(F) * y
      BY <2>1, <2>3
    <2> QED
      BY <2>4 DEF F, h, y
  <1>3. CASE F # {}
    <2>1. /\ IsFiniteSet(F) /\ n \in Nat /\ n # 0
          /\ \A i \in I : data[i][x] \in Int /\ data[i][x] % n = 0
      <3> HIDE DEF F
      <3> QED
        BY <1>1, <1>3, SizesDivide
    <2>2. /\ \A i \in F : f[i] \in Int /\ f[i] % n = 0 /\ h[i] = f[i]
          /\ DOMAIN f = F
      <3>1. \A i \in F : f[i] = data[i][x] /\ h[i] = data[i][x]
        BY <1>1
      <3> HIDE DEF f, h, F, n
      <3>2. DOMAIN f = F
        BY DEF f
      <3> QED
        BY <1>1, <2>1, <3>1, <3>2
    <2>3. M!Members(a, c) = F
      BY ClusterIs
    <2>4. new[c][x] = M!SumFunction(f) \div M!Cardinality(F)
      <3>1. DOMAIN centers[c] = S
        OBVIOUS
      <3>2. M!CenterOf(a, c) = [y \in S |-> M!SumFunction([i \in F |-> data[i][y]]) \div M!Cardinality(F)]
        <4> HIDE DEF F
        <4> QED
          BY <1>3, <2>3, <3>1 DEF M!CenterOf
      <3> QED
        BY <3>2
    <2> HIDE DEF F, f, h, n, new
    <2>5. n * (SumFunctionOnSet(f, F) \div n) = SumFunctionOnSet(f, F)
      BY <2>1, <2>2, SumDivides
    <2>6. SumFunctionOnSet(h, F) = SumFunctionOnSet(f, F)
      BY <2>1, <2>2, SumSame
    <2>7. new[c][x] = SumFunctionOnSet(f, F) \div n
      BY <2>2, <2>4, ClusterOperators, Zenon DEF n
    <2>8. SumFunctionOnSet(h, F) = n * new[c][x]
      BY <2>5, <2>6, <2>7, Zenon
    <2> QED
      BY <2>8 DEF F, h, n
  <1> QED
    BY <1>2, <1>3

LEMMA SpreadIs ==
  ASSUME NEW I, NEW S, NEW p, \A i \in I : p[i] \in [S -> Int], NEW a, NEW cs, DOMAIN p = I
  PROVE  M!SumFunction([i \in DOMAIN p |-> M!Distance(p[i], cs[a[i]])]) = Spread(I, S, p, a, cs)
PROOF
  <1> DEFINE f == [i \in DOMAIN p |-> M!Distance(p[i], cs[a[i]])]
             g == [i \in I |-> Apart(S, p[i], cs[a[i]])]
  <1>1. f = g
    BY DistanceIs
  <1>2. DOMAIN g = I
    OBVIOUS
  <1>3. Spread(I, S, p, a, cs) = SumFunctionOnSet(g, I)
    BY Zenon DEF Spread
  <1> HIDE DEF f, g
  <1> QED
    BY <1>1, <1>2, <1>3, ClusterOperators, Zenon DEF f

\* To join the nearest center does no harm.
LEMMA NearestIsNearer ==
  ASSUME <<data, k>> \in Clusterings, centers \in [1 .. k -> [DOMAIN data[1] -> Int]],
         NEW b \in [DOMAIN data -> 1 .. k]
  PROVE  /\ M!Assigned(centers) \in [DOMAIN data -> 1 .. k]
         /\ Spread(DOMAIN data, DOMAIN data[1], data, M!Assigned(centers), centers)
              <= Spread(DOMAIN data, DOMAIN data[1], data, b, centers)
         /\ Spread(DOMAIN data, DOMAIN data[1], data, b, centers) \in Int
PROOF
  <1> DEFINE I == DOMAIN data
             S == DOMAIN data[1]
             a == M!Assigned(centers)
             near == [i \in I |-> Apart(S, data[i], centers[a[i]])]
             far == [i \in I |-> Apart(S, data[i], centers[b[i]])]
  <1>1. /\ IsFiniteSet(I) /\ IsFiniteSet(S) /\ k \in Nat /\ k # 0
        /\ \A i \in I : data[i] \in [S -> Int]
    BY ClusterParameters
  <1>2. ASSUME NEW i \in I
        PROVE  /\ a[i] \in 1 .. k
               /\ near[i] \in Int /\ far[i] \in Int /\ near[i] <= far[i]
    <2> DEFINE p == data[i]
               c == M!Nearest(p, centers)
               e == b[i]
    <2>1. a[i] = c
      BY DEF M!Assigned
    <2>2. p \in [S -> Int] /\ e \in 1 .. k
      BY <1>1
    <2>3. near[i] = Apart(S, p, centers[c]) /\ far[i] = Apart(S, p, centers[e])
      BY <2>1
    <2> HIDE DEF p, c, e, I, S
    <2>4. /\ c \in 1 .. k
          /\ \A d \in 1 .. k : M!Distance(p, centers[c]) <= M!Distance(p, centers[d])
      BY <1>1, <2>2, NearestIsNearest DEF c, S
    <2>5. \A d : M!Distance(p, centers[d]) = Apart(S, p, centers[d])
      BY <2>2, DistanceIs
    <2>6. centers[c] \in [S -> Int] /\ centers[e] \in [S -> Int]
      BY <2>2, <2>4 DEF S
    <2>7. M!Distance(p, centers[c]) \in Int /\ M!Distance(p, centers[e]) \in Int
      BY <1>1, <2>2, <2>6, DistanceInt
    <2> HIDE DEF a, near, far
    <2> QED
      BY <2>1, <2>2, <2>3, <2>4, <2>5, <2>7
  <1>3. a \in [I -> 1 .. k]
    <2>1. a = [i \in I |-> M!Nearest(data[i], centers)]
      BY DEF M!Assigned
    <2>2. \A i \in I : M!Nearest(data[i], centers) \in 1 .. k
      BY <1>2, <2>1
    <2> QED
      BY <2>1, <2>2
  <1>4. /\ Spread(I, S, data, a, centers) = SumFunctionOnSet(near, I)
        /\ Spread(I, S, data, b, centers) = SumFunctionOnSet(far, I)
    BY Zenon DEF Spread
  <1> HIDE DEF near, far, I, S, a
  <1>5. SumFunctionOnSet(near, I) <= SumFunctionOnSet(far, I)
    BY <1>1, <1>2, SumAtMost
  <1>6. SumFunctionOnSet(far, I) \in Int
    BY <1>1, <1>2, SumInt
  <1> QED
    BY <1>3, <1>4, <1>5, <1>6 DEF I, S, a

LEMMA IterationGains ==
  ASSUME FitInv, M!Iterate, centers' # centers
  PROVE  M!Distortion' < M!Distortion
PROOF
  <1> DEFINE I == DOMAIN data
             S == DOMAIN data[1]
             U == 1 .. k
             a == M!Assigned(centers)
             b == assignments
             n == centers'
             o == centers
  <1>1. /\ data' = data /\ assignments' = a
        /\ n = [c \in 1 .. k |-> M!CenterOf(a, c)]
    BY Zenon DEF M!Iterate
  <1>2. /\ <<data, k>> \in Clusterings /\ o \in [1 .. k -> [S -> Int]] /\ b \in [I -> 1 .. k]
    BY DEF FitInv, M!TypeOK
  <1>3. /\ IsFiniteSet(I) /\ IsFiniteSet(S) /\ IsFiniteSet(U)
        /\ data \in [I -> [S -> Int]] /\ \A i \in I : data[i] \in [S -> Int]
    <2>1. /\ IsFiniteSet(I) /\ IsFiniteSet(S) /\ data \in Seq(Seq(Int)) /\ k \in Nat
          /\ \A i \in I : data[i] \in [S -> Int]
      BY <1>2, ClusterParameters
    <2>2. k \in Int /\ 1 \in Int
      BY <2>1
    <2>3. IsFiniteSet(U)
      BY <2>2, FS_Interval
    <2>4. data = [i \in I |-> data[i]]
      BY <2>1
    <2> HIDE DEF I, S, U
    <2> QED
      BY <2>1, <2>3, <2>4
  <1>4. /\ a \in [I -> U]
        /\ Spread(I, S, data, a, o) <= Spread(I, S, data, b, o)
        /\ Spread(I, S, data, b, o) \in Int
    BY <1>2, NearestIsNearer
  <1>5. n \in [U -> [S -> Int]]
    <2> HIDE DEF a
    <2>1. \A c \in 1 .. k : M!CenterOf(a, c) \in [S -> Int]
      BY <1>2, CenterInt
    <2> QED
      BY <1>1, <2>1
  <1>6. Means(I, U, S, data, a, n)
    <2>1. a \in [DOMAIN data -> 1 .. k]
      BY <1>4
    <2> HIDE DEF a, n
    <2>2. Means(I, U, S, data, a, [c \in 1 .. k |-> M!CenterOf(a, c)])
      BY <1>2, <2>1, CentersAreMeans
    <2> QED
      BY <1>1, <2>2, Zenon
  <1>7. Abandoned(I, U, a, n, o)
    <2>1. a \in [DOMAIN data -> 1 .. k]
      BY <1>4
    <2> HIDE DEF a
    <2>2. \A c \in U : Fiber(I, a, c) = {} => M!CenterOf(a, c) = o[c]
      BY <1>2, <2>1, ClusterIs
    <2> QED
      BY <1>1, <2>2 DEF Abandoned
  <1>8. M!Distortion = Spread(I, S, data, b, o)
    <2>1. M!Distortion = M!SumFunction([i \in DOMAIN data |-> M!Distance(data[i], o[b[i]])])
      BY Zenon DEF M!Distortion
    <2> HIDE DEF I, S, o, b
    <2>2. DOMAIN data = I
      BY DEF I
    <2> QED
      BY <1>3, <2>1, <2>2, SpreadIs
  <1>9. M!Distortion' = Spread(I, S, data, a, n)
    <2>1. M!Distortion' =
            M!SumFunction([i \in DOMAIN data' |-> M!Distance(data'[i], centers'[assignments'[i]])])
      BY DEF M!Distortion, M!Distance, M!SumFunction
    <2>2. M!Distortion' = M!SumFunction([i \in DOMAIN data |-> M!Distance(data[i], n[a[i]])])
      BY <1>1, <2>1
    <2> HIDE DEF I, S, n, a
    <2>3. DOMAIN data = I
      BY DEF I
    <2> QED
      BY <1>3, <2>2, <2>3, SpreadIs
  <1> HIDE DEF I, S, U, a, b, n, o
  <1>10. AreCenters(I, U, S, a, data, n, o) /\ n # o
    BY <1>2, <1>3, <1>4, <1>5 DEF AreCenters, U, S, n, o
  <1>11. /\ Spread(I, S, data, a, n) \in Int /\ Spread(I, S, data, a, o) \in Int
         /\ Spread(I, S, data, a, n) < Spread(I, S, data, a, o)
    BY <1>6, <1>7, <1>10, MeansAreNearer
  <1> QED
    BY <1>4, <1>8, <1>9, <1>11

\* k-means gets nearer with every iteration that moves a center, a cluster that
\* loses its members included, whatever the points.
THEOREM CentersGetNearer == Spec => EveryIterationGains
PROOF
  <1>1. FitRun /\ [Next]_vars => [plugin = "kmeans" => M!MoveGains]_vars
    <2> SUFFICES ASSUME FitInv, [M!Next]_(M!vars), centers' # centers
                 PROVE  M!Distortion' < M!Distortion
      BY PluginRuns DEF FitRun, M!MoveGains
    <2>1. M!Iterate
      BY DEF M!vars, M!Next
    <2> QED
      BY <2>1, IterationGains
  <1> QED
    BY <1>1, FitInvariance, PTL DEF Spec, EveryIterationGains


-----------------------------------------------------------------------------
(* linear_regression                                                       *)

LEMMA RegressionOperators ==
  /\ \A f : R!SumFunction(f) = SumFunctionOnSet(f, DOMAIN f)
  /\ \A S : R!Cardinality(S) = Cardinality(S)
PROOF
  <1>1. \A f : R!SumFunction(f) = SumFunctionOnSet(f, DOMAIN f)
    BY Zenon DEF R!SumFunction, R!SumFunctionOnSet, R!FoldFunctionOnSet, R!MapThenFoldSet,
       SumFunctionOnSet, FoldFunctionOnSet, MapThenFoldSet
  <1>2. \A S : R!Cardinality(S) = Cardinality(S)
    BY Zenon DEF R!Cardinality, Cardinality
  <1> QED
    BY <1>1, <1>2

LEMMA RegressionParameters ==
  ASSUME data \in Regressions
  PROVE  /\ IsFiniteSet(R!Samples) /\ IsFiniteSet(DOMAIN data[1][1])
         /\ \A i \in R!Samples : data[i][1] \in [DOMAIN data[1][1] -> Int] /\ data[i][2] \in Int
         /\ LearningRate[1] \in Int /\ LearningRate[2] \in Nat
         /\ MaxIterations["linear_regression"] \in Nat
PROOF
  <1>1. /\ data \in Seq(Seq(Int) \X Int) /\ data # <<>>
        /\ \A i \in DOMAIN data : DOMAIN data[i][1] = DOMAIN data[1][1]
    BY SamplesAssumption
  <1>2. DOMAIN data = 1 .. Len(data) /\ Len(data) \in Nat /\ Len(data) # 0
    BY <1>1, EmptySeq, LenProperties
  <1>3. \A i \in DOMAIN data : data[i] \in Seq(Int) \X Int
    BY <1>1
  <1>4. \A i \in DOMAIN data : data[i][1] \in Seq(Int) /\ data[i][2] \in Int
    BY <1>3
  <1>5. 1 \in DOMAIN data
    BY <1>2
  <1>6. DOMAIN data[1][1] = 1 .. Len(data[1][1]) /\ Len(data[1][1]) \in Nat
    BY <1>4, <1>5
  <1>7. IsFiniteSet(DOMAIN data) /\ IsFiniteSet(DOMAIN data[1][1])
    <2>1. \A m \in Nat : IsFiniteSet(1 .. m)
      <3>1. \A m \in Nat : m \in Int /\ 1 \in Int
        OBVIOUS
      <3> QED
        BY <3>1, FS_Interval
    <2> QED
      BY <1>2, <1>6, <2>1, Zenon
  <1>8. \A i \in DOMAIN data : data[i][1] \in [DOMAIN data[1][1] -> Int]
    BY <1>1, <1>4
  <1>9. LearningRate[1] \in Int /\ LearningRate[2] \in Nat /\ MaxIterations["linear_regression"] \in Nat
    BY ParametersAssumption
  <1> QED
    BY <1>4, <1>7, <1>8, <1>9 DEF R!Samples

\* What always holds of a run: numbers are numbers.
WeightsInv ==
  /\ R!TypeOK
  /\ weights \in [DOMAIN data[1][1] -> Int]
  /\ ~done => iterations < MaxIterations["linear_regression"]

LEMMA ErrorInt ==
  ASSUME WeightsInv, NEW i \in R!Samples
  PROVE  R!Error(i) \in Int
PROOF
  <1> DEFINE S == DOMAIN data[1][1]
             f == [x \in S |-> weights[x] * data[i][1][x]]
  <1>1. /\ data[i][1] \in [S -> Int] /\ data[i][2] \in Int /\ IsFiniteSet(S)
        /\ weights \in [S -> Int] /\ bias \in Int /\ scale \in Int
    BY RegressionParameters DEF WeightsInv, R!TypeOK
  <1>2. \A x \in S : f[x] \in Int
    <2> SUFFICES ASSUME NEW x \in S PROVE weights[x] * data[i][1][x] \in Int
      OBVIOUS
    <2>1. weights[x] \in Int /\ data[i][1][x] \in Int
      BY <1>1
    <2> QED
      BY <2>1
  <1>3. DOMAIN f = S /\ DOMAIN weights = S
    BY <1>1
  <1>4. R!Error(i) = R!SumFunction(f) + bias - data[i][2] * scale
    BY <1>3 DEF R!Error
  <1> HIDE DEF f, S
  <1>5. R!SumFunction(f) \in Int
    BY <1>1, <1>2, <1>3, SumInt, RegressionOperators
  <1>6. data[i][2] * scale \in Int
    BY <1>1
  <1> QED
    BY <1>1, <1>4, <1>5, <1>6

LEMMA GradientInt ==
  ASSUME WeightsInv
  PROVE  R!GradientB \in Int /\ \A x \in DOMAIN data[1][1] : R!GradientW(x) \in Int
PROOF
  <1> DEFINE S == R!Samples
  <1>1. IsFiniteSet(S) /\ \A i \in S : R!Error(i) \in Int /\ data[i][1] \in [DOMAIN data[1][1] -> Int]
    BY ErrorInt, RegressionParameters DEF WeightsInv, R!TypeOK
  <1>2. R!GradientB \in Int
    <2> DEFINE f == [i \in S |-> R!Error(i)]
    <2>1. (\A i \in S : f[i] \in Int) /\ DOMAIN f = S
      BY <1>1
    <2>2. R!GradientB = R!SumFunction(f)
      BY DEF R!GradientB
    <2> HIDE DEF f, S
    <2> QED
      BY <1>1, <2>1, <2>2, SumInt, RegressionOperators
  <1>3. ASSUME NEW x \in DOMAIN data[1][1]
        PROVE  R!GradientW(x) \in Int
    <2> DEFINE f == [i \in S |-> R!Error(i) * data[i][1][x]]
    <2>1. ASSUME NEW i \in S PROVE f[i] \in Int
      <3>1. R!Error(i) \in Int /\ data[i][1][x] \in Int
        BY <1>1
      <3> QED
        BY <3>1
    <2>2. R!GradientW(x) = R!SumFunction(f) /\ DOMAIN f = S
      BY DEF R!GradientW
    <2> HIDE DEF f, S
    <2> QED
      BY <1>1, <2>1, <2>2, SumInt, RegressionOperators
  <1> QED
    BY <1>2, <1>3

LEMMA WeightsInit == R!Init => WeightsInv
PROOF
  <1> SUFFICES ASSUME R!Init PROVE WeightsInv
    OBVIOUS
  <1> DEFINE last == MaxIterations["linear_regression"]
  <1>1. /\ data \in Regressions /\ weights = [x \in DOMAIN data[1][1] |-> 0]
        /\ bias = 0 /\ scale = 1 /\ iterations = 0 /\ done = (last = 0)
    BY DEF R!Init
  <1>2. last \in Nat
    BY <1>1, RegressionParameters
  <1>3. done \in BOOLEAN /\ (~done => last # 0)
    BY <1>1, Zenon
  <1>4. weights \in [DOMAIN data[1][1] -> Int] /\ iterations \in 0 .. last
    BY <1>1, <1>2
  <1>5. R!TypeOK
    BY <1>1, <1>3, <1>4 DEF R!TypeOK
  <1> QED
    BY <1>1, <1>2, <1>3, <1>4, <1>5 DEF WeightsInv

LEMMA WeightsStep ==
  ASSUME WeightsInv, R!Iterate
  PROVE  WeightsInv'
PROOF
  <1> DEFINE last == MaxIterations["linear_regression"]
             S == DOMAIN data[1][1]
  <1>1. /\ data' = data /\ ~done
        /\ weights' = [x \in DOMAIN weights |->
                         R!Factor * weights[x] - LearningRate[1] * R!GradientW(x)]
        /\ bias' = R!Factor * bias - LearningRate[1] * R!GradientB
        /\ scale' = R!Factor * scale /\ iterations' = iterations + 1
        /\ done' = (iterations' = last)
    BY Zenon DEF R!Iterate
  <1>2. /\ data \in Regressions /\ weights \in [S -> Int] /\ bias \in Int /\ scale \in Nat
        /\ iterations \in 0 .. last /\ iterations < last
    BY <1>1 DEF WeightsInv, R!TypeOK
  <1>3. /\ LearningRate[1] \in Int /\ LearningRate[2] \in Nat /\ last \in Nat
        /\ IsFiniteSet(R!Samples)
    BY <1>2, RegressionParameters
  <1>4. R!Factor \in Nat
    <2>1. R!Cardinality(R!Samples) \in Nat
      BY <1>3, FS_CardinalityType, RegressionOperators
    <2> QED
      BY <1>3, <2>1 DEF R!Factor
  <1>5. R!GradientB \in Int /\ \A x \in S : R!GradientW(x) \in Int
    BY GradientInt
  <1>6. weights' \in [S -> Int]
    <2>1. ASSUME NEW x \in S
          PROVE  R!Factor * weights[x] - LearningRate[1] * R!GradientW(x) \in Int
      <3>1. weights[x] \in Int /\ R!GradientW(x) \in Int
        BY <1>2, <1>5
      <3>2. R!Factor * weights[x] \in Int /\ LearningRate[1] * R!GradientW(x) \in Int
        BY <1>3, <1>4, <3>1
      <3> QED
        BY <3>2
    <2>2. DOMAIN weights = S
      BY <1>2
    <2> QED
      BY <1>1, <2>1, <2>2
  <1>7. bias' \in Int /\ scale' \in Nat
    <2>1. R!Factor * bias \in Int /\ LearningRate[1] * R!GradientB \in Int /\ R!Factor * scale \in Nat
      BY <1>2, <1>3, <1>4, <1>5
    <2> QED
      BY <1>1, <2>1
  <1>8. done' \in BOOLEAN /\ (~done' => iterations' # last)
    BY <1>1, Zenon
  <1>9. iterations' \in 0 .. last /\ (~done' => iterations' < last)
    BY <1>1, <1>2, <1>3, <1>8
  <1>10. R!TypeOK'
    BY <1>1, <1>2, <1>6, <1>7, <1>8, <1>9 DEF R!TypeOK
  <1> QED
    BY <1>1, <1>6, <1>9, <1>10 DEF WeightsInv

WeightsRun == plugin = "linear_regression" => WeightsInv

\* The invariant holds for all samples and learning rates.
THEOREM WeightsInvariance == Spec => []WeightsRun
PROOF
  <1>1. Init => WeightsRun
    BY PluginBegins, WeightsInit DEF WeightsRun
  <1>2. WeightsRun /\ [Next]_vars => WeightsRun'
    <2> SUFFICES ASSUME WeightsInv, [R!Next]_(R!vars)
                 PROVE  WeightsInv'
      BY PluginRuns DEF WeightsRun
    <2>1. CASE UNCHANGED R!vars
      <3>1. UNCHANGED <<data, weights, bias, scale, iterations, done>>
        BY <2>1 DEF R!vars
      <3> QED
        BY <3>1 DEF WeightsInv, R!TypeOK
    <2>2. CASE R!Next
      BY <2>2, WeightsStep DEF R!Next
    <2> QED
      BY <2>1, <2>2
  <1> QED
    BY <1>1, <1>2, PTL DEF Spec

-----------------------------------------------------------------------------
(* Inner products, for the descent of linear_regression.                   *)

Inner(f, g, S) == SumFunctionOnSet([x \in S |-> f[x] * g[x]], S)

LEMMA InnerInt ==
  ASSUME NEW S, IsFiniteSet(S), NEW f \in [S -> Int], NEW g \in [S -> Int]
  PROVE  /\ \A x \in S : [y \in S |-> f[y] * g[y]][x] = f[x] * g[x] /\ f[x] * g[x] \in Int
         /\ Inner(f, g, S) \in Int
PROOF
  <1> DEFINE p == [y \in S |-> f[y] * g[y]]
  <1>1. \A x \in S : p[x] = f[x] * g[x] /\ p[x] \in Int
    <2> SUFFICES ASSUME NEW x \in S PROVE f[x] * g[x] \in Int
      OBVIOUS
    <2>1. f[x] \in Int /\ g[x] \in Int
      OBVIOUS
    <2> QED
      BY <2>1
  <1>2. Inner(f, g, S) = SumFunctionOnSet(p, S)
    BY DEF Inner
  <1> HIDE DEF p
  <1>3. Inner(f, g, S) \in Int
    BY <1>1, <1>2, SumInt
  <1> QED
    BY <1>1, <1>3 DEF p

LEMMA InnerCommutes ==
  ASSUME NEW S, IsFiniteSet(S), NEW f \in [S -> Int], NEW g \in [S -> Int]
  PROVE  Inner(f, g, S) = Inner(g, f, S)
PROOF
  <1> DEFINE p == [x \in S |-> f[x] * g[x]]
             q == [x \in S |-> g[x] * f[x]]
  <1>1. \A x \in S : p[x] = q[x]
    <2>1. \A x \in S : f[x] \in Int /\ g[x] \in Int
      OBVIOUS
    <2>2. \A a, b \in Int : a * b = b * a
      OBVIOUS
    <2> QED
      BY <2>1, <2>2
  <1>2. Inner(f, g, S) = SumFunctionOnSet(p, S) /\ Inner(g, f, S) = SumFunctionOnSet(q, S)
    BY DEF Inner
  <1> HIDE DEF p, q
  <1> QED
    BY <1>1, <1>2, SumSame

\* d is a times f plus b times g.
Mixes(S, d, a, f, b, g) == \A x \in S : d[x] = a * f[x] + b * g[x]

LEMMA InnerMixes ==
  ASSUME NEW S, IsFiniteSet(S), NEW f \in [S -> Int], NEW g \in [S -> Int],
         NEW d \in [S -> Int], NEW e \in [S -> Int], NEW a \in Int, NEW b \in Int,
         Mixes(S, d, a, f, b, g)
  PROVE  Inner(d, e, S) = a * Inner(f, e, S) + b * Inner(g, e, S)
PROOF
  <1> DEFINE pd == [x \in S |-> d[x] * e[x]]
             pf == [x \in S |-> f[x] * e[x]]
             pg == [x \in S |-> g[x] * e[x]]
             af == [x \in S |-> a * pf[x]]
             bg == [x \in S |-> b * pg[x]]
  <1>1. ASSUME NEW x \in S
        PROVE  /\ pf[x] \in Int /\ pg[x] \in Int /\ af[x] = a * pf[x] /\ bg[x] = b * pg[x]
               /\ af[x] \in Int /\ bg[x] \in Int /\ pd[x] = af[x] + bg[x]
    <2>1. f[x] \in Int /\ g[x] \in Int /\ e[x] \in Int /\ d[x] = a * f[x] + b * g[x]
      BY DEF Mixes
    <2>2. \A u, v, w \in Int : /\ u * w \in Int /\ v * w \in Int
                               /\ a * (u * w) \in Int /\ b * (v * w) \in Int
                               /\ (a * u + b * v) * w = a * (u * w) + b * (v * w)
      OBVIOUS
    <2> QED
      BY <2>1, <2>2
  <1>2. /\ Inner(d, e, S) = SumFunctionOnSet(pd, S) /\ Inner(f, e, S) = SumFunctionOnSet(pf, S)
        /\ Inner(g, e, S) = SumFunctionOnSet(pg, S)
    BY DEF Inner
  <1> HIDE DEF pd, pf, pg, af, bg
  <1>3. SumFunctionOnSet(pd, S) = SumFunctionOnSet(af, S) + SumFunctionOnSet(bg, S)
    BY <1>1, SumAdd
  <1>4. /\ SumFunctionOnSet(af, S) = a * SumFunctionOnSet(pf, S)
        /\ SumFunctionOnSet(bg, S) = b * SumFunctionOnSet(pg, S)
    BY <1>1, SumTimes
  <1> QED
    BY <1>2, <1>3, <1>4

\* A product over a set and over the set without one of its members.
LEMMA InnerRemove ==
  ASSUME NEW S, IsFiniteSet(S), NEW f \in [S -> Int], NEW g \in [S -> Int],
         NEW s \in SUBSET S, NEW x \in s
  PROVE  /\ Inner(f, g, s) = f[x] * g[x] + Inner(f, g, s \ {x})
         /\ f[x] \in Int /\ g[x] \in Int
         /\ Inner(f, g, s) \in Int /\ Inner(f, g, s \ {x}) \in Int
PROOF
  <1> DEFINE r == s \ {x}
             p == [y \in s |-> f[y] * g[y]]
             q == [y \in r |-> f[y] * g[y]]
  <1>1. IsFiniteSet(s) /\ IsFiniteSet(r)
    BY FS_Subset
  <1>2. \A y \in s : p[y] = f[y] * g[y] /\ p[y] \in Int
    BY InnerInt
  <1>3. \A y \in r : p[y] = q[y] /\ q[y] \in Int
    BY <1>2
  <1>4. Inner(f, g, s) = SumFunctionOnSet(p, s) /\ Inner(f, g, r) = SumFunctionOnSet(q, r)
    BY DEF Inner
  <1>5. p[x] = f[x] * g[x] /\ x \in s /\ f[x] \in Int /\ g[x] \in Int
    BY <1>2
  <1>6. r = s \ {x}
    OBVIOUS
  <1> HIDE DEF r, p, q
  <1>7. SumFunctionOnSet(p, s) = p[x] + SumFunctionOnSet(p, s \ {x})
    BY <1>1, <1>2, <1>5, SumRemove
  <1>8. SumFunctionOnSet(p, r) = SumFunctionOnSet(q, r)
    BY <1>1, <1>3, SumSame
  <1>9. SumFunctionOnSet(p, s) \in Int /\ SumFunctionOnSet(q, r) \in Int
    BY <1>1, <1>2, <1>3, SumInt
  <1> QED
    BY <1>4, <1>5, <1>6, <1>7, <1>8, <1>9

LEMMA SquaresNat ==
  ASSUME NEW S, IsFiniteSet(S), NEW f \in [S -> Int]
  PROVE  /\ Inner(f, f, S) \in Nat
         /\ Inner(f, f, S) = 0 => \A x \in S : f[x] = 0
PROOF
  <1>1. \A a \in Int : a * a \in Nat
    OBVIOUS
  <1>2. ASSUME NEW s \in SUBSET S
        PROVE  Inner(f, f, s) \in Nat
    <2> DEFINE p == [x \in s |-> f[x] * f[x]]
    <2>1. \A x \in s : p[x] \in Nat
      BY <1>1
    <2>2. IsFiniteSet(s)
      BY FS_Subset
    <2>3. Inner(f, f, s) = SumFunctionOnSet(p, s)
      BY DEF Inner
    <2> HIDE DEF p
    <2> QED
      BY <2>1, <2>2, <2>3, SumNat
  <1>3. ASSUME NEW x \in S, Inner(f, f, S) = 0
        PROVE  f[x] = 0
    <2>1. Inner(f, f, S) = f[x] * f[x] + Inner(f, f, S \ {x}) /\ f[x] \in Int
      BY InnerRemove
    <2>2. Inner(f, f, S \ {x}) \in Nat
      BY <1>2
    <2>3. f[x] * f[x] \in Nat
      BY <1>1, <2>1
    <2>4. f[x] * f[x] = 0
      BY <1>3, <2>1, <2>2, <2>3
    <2>5. \A a \in Int : a * a = 0 => a = 0
      OBVIOUS
    <2> QED
      BY <2>1, <2>4, <2>5
  <1> QED
    BY <1>2, <1>3

\* The step of the inequality of Cauchy and Schwarz.
LEMMA OneMoreProduct ==
  ASSUME NEW t \in Int, NEW u \in Int, NEW v \in Int, NEW a \in Int, NEW b \in Int,
         u > 0, t * t <= u * v
  PROVE  (a * b + t) * (a * b + t) <= (u + b * b) * (v + a * a)
PROOF
  <1> DEFINE z == u * (a * a) - 2 * (a * b * t) + (b * b) * v
             w == u * a - b * t
             m == u * v - t * t
  <1>1. z \in Int /\ w \in Int /\ m \in Int /\ m >= 0
    OBVIOUS
  <1>2. u * z = w * w + (b * b) * m
    OBVIOUS
  <1>3. (u + b * b) * (v + a * a) - (a * b + t) * (a * b + t) = m + z
    OBVIOUS
  <1>4. (u + b * b) * (v + a * a) \in Int /\ (a * b + t) * (a * b + t) \in Int
    OBVIOUS
  <1> HIDE DEF z, w, m
  <1>5. w * w >= 0 /\ b * b >= 0 /\ w * w \in Int /\ b * b \in Int
    BY <1>1
  <1>6. \A y, n \in Int : y >= 0 /\ n >= 0 => y * n >= 0 /\ y * n \in Int
    OBVIOUS
  <1>7. (b * b) * m >= 0 /\ (b * b) * m \in Int
    BY <1>1, <1>5, <1>6
  <1>8. u * z >= 0
    BY <1>2, <1>5, <1>7
  <1>9. z >= 0
    BY <1>1, <1>8
  <1> QED
    BY <1>1, <1>3, <1>4, <1>9

\* The inequality of Cauchy and Schwarz, for vectors with one coordinate more:
\* c in the one, 1 in the other.
LEMMA ProductIsBounded ==
  ASSUME NEW S, IsFiniteSet(S), NEW f \in [S -> Int], NEW g \in [S -> Int], NEW c \in Int
  PROVE  (Inner(f, g, S) + c) * (Inner(f, g, S) + c)
           <= (1 + Inner(g, g, S)) * (c * c + Inner(f, f, S))
PROOF
  <1> DEFINE Bounded(s) == (Inner(f, g, s) + c) * (Inner(f, g, s) + c)
                             <= (1 + Inner(g, g, s)) * (c * c + Inner(f, f, s))
             Family == {s \in SUBSET S : ~ Bounded(s)}
  <1> HIDE DEF Bounded
  <1>1. SUFFICES ASSUME Family # {} PROVE FALSE
    BY DEF Bounded
  <1>2. \A s \in Family : IsFiniteSet(s)
    BY FS_Subset
  <1>3. PICK s \in Family : \A x \in s : s \ {x} \notin Family
    <2> HIDE DEF Family
    <2> QED
      BY <1>1, <1>2, SmallestSet
  <1>4. s \in SUBSET S /\ ~ Bounded(s) /\ \A x \in s : Bounded(s \ {x})
    BY <1>3
  <1> HIDE DEF Family
  <1>5. CASE s = {}
    <2>1. Inner(f, g, {}) = 0 /\ Inner(g, g, {}) = 0 /\ Inner(f, f, {}) = 0
      BY SumEmpty DEF Inner
    <2>2. Bounded({})
      BY <2>1 DEF Bounded
    <2> QED
      BY <1>4, <1>5, <2>2
  <1>6. ASSUME NEW x \in s
        PROVE  FALSE
    <2> DEFINE r == s \ {x}
               t == Inner(f, g, r) + c
               u == 1 + Inner(g, g, r)
               v == c * c + Inner(f, f, r)
               a == f[x]
               b == g[x]
    <2>1. /\ Inner(f, g, s) = a * b + Inner(f, g, r) /\ Inner(f, g, r) \in Int
          /\ Inner(g, g, s) = b * b + Inner(g, g, r) /\ Inner(g, g, r) \in Int
          /\ Inner(f, f, s) = a * a + Inner(f, f, r) /\ Inner(f, f, r) \in Int
          /\ a \in Int /\ b \in Int
      BY <1>4, <1>6, InnerRemove
    <2>2. Inner(g, g, r) \in Nat
      <3> DEFINE gr == [y \in r |-> g[y]]
      <3>1. gr \in [r -> Int] /\ \A y \in r : gr[y] = g[y]
        BY <1>4
      <3>2. IsFiniteSet(r)
        BY <1>4, FS_Subset
      <3>3. Inner(gr, gr, r) = Inner(g, g, r)
        <4>1. [y \in r |-> gr[y] * gr[y]] = [y \in r |-> g[y] * g[y]]
          BY <3>1
        <4> QED
          BY <4>1, Zenon DEF Inner
      <3> HIDE DEF gr, r
      <3> QED
        BY <3>1, <3>2, <3>3, SquaresNat
    <2>3. Bounded(r)
      BY <1>4, <1>6
    <2>4. t \in Int /\ u \in Int /\ v \in Int /\ u > 0
      BY <2>1, <2>2
    <2>5. t * t <= u * v
      BY <2>3 DEF Bounded
    <2>6. Inner(f, g, s) + c = a * b + t /\ 1 + Inner(g, g, s) = u + b * b
      BY <2>1
    <2>7. c * c + Inner(f, f, s) = v + a * a
      BY <2>1
    <2> HIDE DEF t, u, v, a, b, r
    <2>8. (a * b + t) * (a * b + t) <= (u + b * b) * (v + a * a)
      BY <2>1, <2>4, <2>5, OneMoreProduct
    <2>9. Bounded(s)
      BY <2>6, <2>7, <2>8 DEF Bounded
    <2> QED
      BY <1>4, <2>9
  <1> QED
    BY <1>5, <1>6

Across(S, U, f, g) == [i \in S |-> Inner(g, f[i], U)]
Down(S, U, f, e) == [x \in U |-> SumFunctionOnSet([i \in S |-> e[i] * f[i][x]], S)]

\* The sum over rows and the sum over columns of f, weighted by e and g.
LEMMA InnerAdjoint ==
  ASSUME NEW S, NEW U, IsFiniteSet(S), IsFiniteSet(U), NEW f \in [S -> [U -> Int]],
         NEW e \in [S -> Int], NEW g \in [U -> Int]
  PROVE  Inner(e, Across(S, U, f, g), S) = Inner(g, Down(S, U, f, e), U)
PROOF
  <1> DEFINE m == [i \in S |-> [x \in U |-> e[i] * (g[x] * f[i][x])]]
             across == [i \in S |-> Inner(g, f[i], U)]
             down == [x \in U |-> SumFunctionOnSet([i \in S |-> e[i] * f[i][x]], S)]
             rows == [i \in S |-> SumFunctionOnSet(m[i], U)]
             columns == [x \in U |-> SumFunctionOnSet([i \in S |-> m[i][x]], S)]
             byRow == [i \in S |-> e[i] * across[i]]
             byColumn == [x \in U |-> g[x] * down[x]]
  <1>1. ASSUME NEW i \in S, NEW x \in U
        PROVE  /\ e[i] \in Int /\ g[x] \in Int /\ f[i][x] \in Int /\ f[i] \in [U -> Int]
               /\ g[x] * f[i][x] \in Int /\ e[i] * f[i][x] \in Int
               /\ e[i] * (g[x] * f[i][x]) \in Int
               /\ e[i] * (g[x] * f[i][x]) = g[x] * (e[i] * f[i][x])
    <2>1. e[i] \in Int /\ g[x] \in Int /\ f[i][x] \in Int /\ f[i] \in [U -> Int]
      OBVIOUS
    <2>2. \A a, b, c \in Int : /\ b * c \in Int /\ a * c \in Int /\ a * (b * c) \in Int
                               /\ a * (b * c) = b * (a * c)
      OBVIOUS
    <2> QED
      BY <2>1, <2>2
  <1>2. m \in [S -> [U -> Int]]
    BY <1>1
  <1>3. ASSUME NEW i \in S
        PROVE  rows[i] = byRow[i]
    <2> DEFINE p == [x \in U |-> g[x] * f[i][x]]
               q == m[i]
    <2>1. e[i] \in Int /\ \A x \in U : p[x] \in Int /\ q[x] = e[i] * p[x]
      BY <1>1
    <2>2. across[i] = SumFunctionOnSet(p, U) /\ rows[i] = SumFunctionOnSet(q, U)
      BY DEF Inner
    <2>3. byRow[i] = e[i] * across[i]
      OBVIOUS
    <2> HIDE DEF p, q, rows, across, byRow, m
    <2>4. SumFunctionOnSet(q, U) = e[i] * SumFunctionOnSet(p, U)
      BY <2>1, SumTimes
    <2> QED
      BY <2>2, <2>3, <2>4
  <1>4. ASSUME NEW x \in U
        PROVE  columns[x] = byColumn[x]
    <2> DEFINE p == [i \in S |-> e[i] * f[i][x]]
               q == [i \in S |-> m[i][x]]
    <2>1. g[x] \in Int /\ \A i \in S : p[i] \in Int /\ q[i] = g[x] * p[i]
      BY <1>1
    <2>2. down[x] = SumFunctionOnSet(p, S) /\ columns[x] = SumFunctionOnSet(q, S)
      OBVIOUS
    <2>3. byColumn[x] = g[x] * down[x]
      OBVIOUS
    <2> HIDE DEF p, q, columns, down, byColumn, m
    <2>4. SumFunctionOnSet(q, S) = g[x] * SumFunctionOnSet(p, S)
      BY <2>1, SumTimes
    <2> QED
      BY <2>2, <2>3, <2>4
  <1>5. SumFunctionOnSet(rows, S) = SumFunctionOnSet(columns, U)
    <2> HIDE DEF m
    <2> QED
      BY <1>2, SumSwap
  <1>6. /\ Inner(e, across, S) = SumFunctionOnSet(byRow, S)
        /\ Inner(g, down, U) = SumFunctionOnSet(byColumn, U)
    BY DEF Inner
  <1> HIDE DEF m, across, down, rows, columns, byRow, byColumn
  <1>7. /\ SumFunctionOnSet(rows, S) = SumFunctionOnSet(byRow, S)
        /\ SumFunctionOnSet(columns, U) = SumFunctionOnSet(byColumn, U)
    BY <1>3, <1>4, SumSame
  <1> QED
    BY <1>5, <1>6, <1>7, Zenon DEF across, down, Across, Down

\* The features f of all samples S, the errors e, their sums g along each
\* feature and b along none: what h, the product of g and b with the features
\* of a sample, has in common with the errors, and how large it may get.
IsGradient(S, U, f, e, g, b) ==
  /\ g = Down(S, U, f, e)
  /\ b = SumFunctionOnSet(e, S)

Follows(S, U, f, g, b, h) == \A i \in S : h[i] = Inner(g, f[i], U) + b

Slope(U, g, b) == Inner(g, g, U) + b * b

Curves(S, U, f) == SumFunctionOnSet([i \in S |-> 1 + Inner(f[i], f[i], U)], S)

\* All of it, with the types.
IsDescent(S, U, f, e, g, b, h) ==
  /\ IsFiniteSet(S) /\ IsFiniteSet(U) /\ f \in [S -> [U -> Int]]
  /\ e \in [S -> Int] /\ g \in [U -> Int] /\ b \in Int /\ h \in [S -> Int]
  /\ IsGradient(S, U, f, e, g, b) /\ Follows(S, U, f, g, b, h)

LEMMA GradientMeetsErrors ==
  ASSUME NEW S, NEW U, NEW f, NEW e, NEW g, NEW b, NEW h, IsDescent(S, U, f, e, g, b, h)
  PROVE  Inner(h, e, S) = Slope(U, g, b)
PROOF
  <1> SUFFICES ASSUME IsFiniteSet(S), IsFiniteSet(U), f \in [S -> [U -> Int]],
                      e \in [S -> Int], g \in [U -> Int], b \in Int, h \in [S -> Int],
                      IsGradient(S, U, f, e, g, b), Follows(S, U, f, g, b, h)
               PROVE  Inner(h, e, S) = Slope(U, g, b)
    BY DEF IsDescent
  <1> DEFINE across == [i \in S |-> Inner(g, f[i], U)]
             ones == [i \in S |-> 1]
  <1>1. across \in [S -> Int]
    <2>1. \A i \in S : f[i] \in [U -> Int]
      OBVIOUS
    <2>2. \A i \in S : Inner(g, f[i], U) \in Int
      BY <2>1, InnerInt
    <2> QED
      BY <2>2
  <1>2. ones \in [S -> Int] /\ 1 \in Int
    OBVIOUS
  <1>3. \A i \in S : h[i] = 1 * across[i] + b * ones[i]
    <2>1. \A i \in S : h[i] = across[i] + b /\ across[i] \in Int /\ ones[i] = 1
      BY <1>1 DEF Follows
    <2>2. \A a \in Int : a + b = 1 * a + b * 1
      OBVIOUS
    <2> HIDE DEF across, ones
    <2> QED
      BY <2>1, <2>2
  <1>4. Inner(e, across, S) = Inner(g, g, U)
    <2>1. Inner(e, Across(S, U, f, g), S) = Inner(g, Down(S, U, f, e), U)
      BY InnerAdjoint
    <2>2. across = Across(S, U, f, g)
      BY DEF Across
    <2>3. g = Down(S, U, f, e)
      BY DEF IsGradient
    <2> HIDE DEF across
    <2> QED
      BY <2>1, <2>2, <2>3
  <1>5. Inner(ones, e, S) = b
    <2> DEFINE p == [i \in S |-> ones[i] * e[i]]
    <2>1. \A i \in S : p[i] = e[i]
      OBVIOUS
    <2>2. Inner(ones, e, S) = SumFunctionOnSet(p, S)
      BY DEF Inner
    <2> HIDE DEF p, ones
    <2> QED
      BY <2>1, <2>2, SumSame DEF IsGradient
  <1> HIDE DEF across, ones
  <1>6. Mixes(S, h, 1, across, b, ones)
    BY <1>3 DEF Mixes
  <1>7. Inner(h, e, S) = 1 * Inner(across, e, S) + b * Inner(ones, e, S)
    BY <1>1, <1>2, <1>6, InnerMixes
  <1>8. Inner(across, e, S) = Inner(g, g, U) /\ Inner(g, g, U) \in Int
    BY <1>1, <1>4, InnerCommutes, InnerInt
  <1> QED
    BY <1>5, <1>7, <1>8 DEF Slope

LEMMA GradientIsBounded ==
  ASSUME NEW S, NEW U, IsFiniteSet(S), IsFiniteSet(U), NEW f \in [S -> [U -> Int]],
         NEW g \in [U -> Int], NEW b \in Int, NEW h \in [S -> Int],
         Follows(S, U, f, g, b, h)
  PROVE  /\ Inner(h, h, S) <= Slope(U, g, b) * Curves(S, U, f)
         /\ Curves(S, U, f) \in Int
PROOF
  <1> DEFINE c == b * b + Inner(g, g, U)
             p == [i \in S |-> h[i] * h[i]]
             q == [i \in S |-> 1 + Inner(f[i], f[i], U)]
             r == [i \in S |-> c * q[i]]
  <1>1. Inner(g, g, U) \in Int /\ c \in Int /\ c = Slope(U, g, b)
    BY InnerInt DEF Slope
  <1>2. \A i \in S : p[i] = h[i] * h[i] /\ p[i] \in Int
    BY InnerInt
  <1>3. ASSUME NEW i \in S
        PROVE  q[i] \in Int /\ r[i] = c * q[i] /\ r[i] \in Int /\ p[i] <= r[i]
    <2>1. f[i] \in [U -> Int]
      OBVIOUS
    <2>2. Inner(f[i], f[i], U) \in Int /\ q[i] = 1 + Inner(f[i], f[i], U)
      BY <2>1, InnerInt
    <2>3. (Inner(g, f[i], U) + b) * (Inner(g, f[i], U) + b) <= (1 + Inner(f[i], f[i], U)) * c
      BY <2>1, ProductIsBounded
    <2>4. p[i] = (Inner(g, f[i], U) + b) * (Inner(g, f[i], U) + b)
      BY DEF Follows
    <2>5. r[i] = c * q[i]
      OBVIOUS
    <2> HIDE DEF c, p, q, r
    <2>6. q[i] \in Int
      BY <2>2
    <2>7. \A a, y \in Int : a * y \in Int /\ a * y = y * a
      OBVIOUS
    <2>8. q[i] * c = c * q[i] /\ c * q[i] \in Int
      BY <1>1, <2>6, <2>7
    <2> QED
      BY <2>2, <2>3, <2>4, <2>5, <2>6, <2>8
  <1>4. Inner(h, h, S) = SumFunctionOnSet(p, S) /\ Curves(S, U, f) = SumFunctionOnSet(q, S)
    BY DEF Inner, Curves
  <1> HIDE DEF c, p, q, r
  <1>5. SumFunctionOnSet(p, S) <= SumFunctionOnSet(r, S)
    BY <1>2, <1>3, SumAtMost
  <1>6. SumFunctionOnSet(r, S) = c * SumFunctionOnSet(q, S)
    BY <1>1, <1>3, SumTimes
  <1>7. SumFunctionOnSet(q, S) \in Int
    BY <1>3, SumInt
  <1> QED
    BY <1>1, <1>4, <1>5, <1>6, <1>7

LEMMA TimesKeepsOrder ==
  ASSUME NEW a \in Nat, NEW x \in Int, NEW y \in Int, x <= y
  PROVE  a * x <= a * y /\ a * x \in Int /\ a * y \in Int
PROOF
  <1> DEFINE z == y - x
  <1>1. z \in Nat /\ a * y = a * x + a * z
    OBVIOUS
  <1> HIDE DEF z
  <1>2. a * z \in Nat
    BY <1>1
  <1> QED
    BY <1>1, <1>2

\* Errors that went against the gradient, by r in a scale of n: their squares
\* sum up to less, unless nothing moved.
MovesAgainst(S, d, n, e, r, h) ==
  d \in [S -> Int] /\ \A i \in S : d[i] = n * e[i] - r * h[i]

LEMMA SquaresFall ==
  ASSUME NEW S, NEW U, NEW f, NEW e, NEW g, NEW b, NEW h, IsDescent(S, U, f, e, g, b, h),
         NEW n \in Nat, NEW r \in Nat, NEW d, MovesAgainst(S, d, n, e, r, h),
         r * Curves(S, U, f) < 2 * n
  PROVE  \/ r = 0
         \/ b = 0 /\ \A x \in U : g[x] = 0
         \/ Inner(d, d, S) < Inner(e, e, S) * n * n
PROOF
  <1>0. /\ IsFiniteSet(S) /\ IsFiniteSet(U) /\ f \in [S -> [U -> Int]]
        /\ e \in [S -> Int] /\ g \in [U -> Int] /\ b \in Int /\ h \in [S -> Int]
        /\ Follows(S, U, f, g, b, h)
    BY DEF IsDescent
  <1>a. d \in [S -> Int] /\ \A i \in S : d[i] = n * e[i] - r * h[i]
    BY DEF MovesAgainst
  <1> DEFINE c == Slope(U, g, b)
             curve == Curves(S, U, f)
             ee == Inner(e, e, S)
             eh == Inner(e, h, S)
             hh == Inner(h, h, S)
             s == -r
  <1>1. s \in Int /\ Mixes(S, d, n, e, s, h)
    <2>1. \A i \in S : e[i] \in Int /\ h[i] \in Int
      BY <1>0
    <2>2. \A a, y \in Int : n * a - r * y = n * a + (-r) * y
      OBVIOUS
    <2> QED
      BY <1>a, <2>1, <2>2 DEF Mixes
  <1>2. Inner(e, d, S) = Inner(d, e, S) /\ Inner(h, d, S) = Inner(d, h, S) /\ Inner(h, e, S) = eh
    BY <1>0, <1>a, InnerCommutes
  <1>3. ee \in Int /\ eh \in Int /\ hh \in Int
    BY <1>0, InnerInt
  <1> HIDE DEF s
  <1>4. /\ Inner(d, d, S) = n * Inner(e, d, S) + s * Inner(h, d, S)
        /\ Inner(d, e, S) = n * ee + s * Inner(h, e, S)
        /\ Inner(d, h, S) = n * eh + s * hh
    BY <1>0, <1>1, <1>a, InnerMixes
  <1>5. eh = c
    <2>1. Inner(h, e, S) = Slope(U, g, b)
      BY GradientMeetsErrors
    <2> QED
      BY <1>2, <2>1
  <1>6. hh <= c * curve /\ curve \in Int
    BY <1>0, GradientIsBounded
  <1>7. c \in Nat /\ (c = 0 => b = 0 /\ \A x \in U : g[x] = 0)
    <2> DEFINE bb == b * b
    <2>1. bb \in Nat /\ (bb = 0 => b = 0)
      BY <1>0
    <2>2. Inner(g, g, U) \in Nat /\ (Inner(g, g, U) = 0 => \A x \in U : g[x] = 0)
      BY <1>0, SquaresNat
    <2>3. c = Inner(g, g, U) + bb
      BY DEF Slope
    <2> HIDE DEF bb, c
    <2> QED
      BY <2>1, <2>2, <2>3
  <1> HIDE DEF c, curve, ee, eh, hh
  <1>8. Inner(d, d, S) = n * (n * ee + s * eh) + s * (n * eh + s * hh)
    BY <1>2, <1>4
  <1>9. n * (n * ee + s * eh) + s * (n * eh + s * hh)
          = ee * n * n - (2 * n * (r * c) - r * (r * hh))
    BY <1>3, <1>5, <1>7 DEF s
  <1>10. r * curve < 2 * n
    BY DEF curve
  <1>11. CASE r # 0 /\ c # 0
    <2> DEFINE rc == r * c
    <2>1. rc \in Nat /\ rc > 0
      BY <1>7, <1>11
    <2>2. r * (r * hh) <= (r * curve) * rc
      <3>1. c * curve \in Int
        BY <1>6, <1>7
      <3>2. r * hh <= r * (c * curve) /\ r * hh \in Int /\ r * (c * curve) \in Int
        BY <1>3, <1>6, <3>1, TimesKeepsOrder
      <3>3. r * (r * hh) <= r * (r * (c * curve))
        BY <3>2, TimesKeepsOrder
      <3>4. r * (r * (c * curve)) = (r * curve) * (r * c)
        BY <1>6, <1>7
      <3> QED
        BY <3>3, <3>4
    <2>3. (r * curve) * rc < (2 * n) * rc
      <3> DEFINE rk == r * curve
                 nn == 2 * n
      <3>1. rk \in Int /\ nn \in Int /\ rk < nn
        BY <1>6, <1>10
      <3> HIDE DEF rk, nn, rc
      <3>2. rk * rc < nn * rc
        BY <2>1, <3>1
      <3> QED
        BY <3>2 DEF rk, nn
    <2>4. r * (r * hh) \in Int /\ (r * curve) * rc \in Int /\ (2 * n) * rc \in Int /\ ee * n * n \in Int
      BY <1>3, <1>6, <2>1
    <2> QED
      BY <1>8, <1>9, <2>2, <2>3, <2>4 DEF ee
  <1> QED
    BY <1>7, <1>11

\* One step of linear_regression in terms of inner products.
LEMMA StepIsDescent ==
  ASSUME WeightsInv, R!Iterate,
         NEW S, S = R!Samples, NEW U, U = DOMAIN data[1][1],
         NEW f, f = [i \in S |-> data[i][1]], NEW e, e = [i \in S |-> R!Error(i)],
         NEW g, g = [x \in U |-> R!GradientW(x)], NEW b, b = R!GradientB,
         NEW h, h = [i \in S |-> Inner(g, f[i], U) + b]
  PROVE  IsDescent(S, U, f, e, g, b, h)
PROOF
  <1>1. /\ IsFiniteSet(S) /\ IsFiniteSet(U) /\ f \in [S -> [U -> Int]]
    BY RegressionParameters DEF WeightsInv, R!TypeOK
  <1>2. e \in [S -> Int]
    BY ErrorInt
  <1>3. g \in [U -> Int] /\ b \in Int
    BY GradientInt
  <1>4. h \in [S -> Int]
    <2>1. \A i \in S : Inner(g, f[i], U) \in Int
      <3>1. \A i \in S : f[i] \in [U -> Int]
        BY <1>1
      <3> QED
        BY <1>1, <1>3, <3>1, InnerInt
    <2> QED
      BY <1>3, <2>1
  <1>5. g = Down(S, U, f, e)
    <2>1. ASSUME NEW x \in U
          PROVE  R!GradientW(x) = SumFunctionOnSet([i \in S |-> e[i] * f[i][x]], S)
      <3> DEFINE p == [i \in S |-> R!Error(i) * data[i][1][x]]
                 q == [i \in S |-> e[i] * f[i][x]]
      <3>1. p = q /\ DOMAIN p = S
        OBVIOUS
      <3>2. R!GradientW(x) = R!SumFunction(p)
        BY DEF R!GradientW
      <3> HIDE DEF p, q
      <3>3. R!GradientW(x) = SumFunctionOnSet(q, S)
        BY <3>1, <3>2, RegressionOperators
      <3> QED
        BY <3>3 DEF q
    <2> QED
      BY <2>1 DEF Down
  <1>6. b = SumFunctionOnSet(e, S)
    <2>1. R!GradientB = R!SumFunction(e) /\ DOMAIN e = S
      BY DEF R!GradientB
    <2> QED
      BY <2>1, RegressionOperators
  <1>7. Follows(S, U, f, g, b, h)
    BY DEF Follows
  <1> QED
    BY <1>1, <1>2, <1>3, <1>4, <1>5, <1>6, <1>7 DEF IsDescent, IsGradient

\* The errors before a step, and after it.
LEMMA ErrorsMove ==
  ASSUME WeightsInv, R!Iterate, NEW i \in R!Samples,
         NEW U, U = DOMAIN data[1][1], NEW g, g = [x \in U |-> R!GradientW(x)]
  PROVE  /\ R!Error(i)' \in Int
         /\ R!Error(i)' = R!Factor * R!Error(i)
                            - LearningRate[1] * (Inner(g, data[i][1], U) + R!GradientB)
PROOF
  <1> DEFINE r == LearningRate[1]
             n == R!Factor
             v == data[i][1]
             t == data[i][2]
             s == -r
             new == weights'
             newScale == scale'
             newBias == bias'
  <1>1. /\ data' = data
        /\ weights' = [x \in DOMAIN weights |-> n * weights[x] - r * R!GradientW(x)]
        /\ bias' = n * bias - r * R!GradientB /\ scale' = n * scale
    BY Zenon DEF R!Iterate
  <1>2. /\ IsFiniteSet(U) /\ v \in [U -> Int] /\ t \in Int /\ weights \in [U -> Int]
        /\ bias \in Int /\ scale \in Int /\ r \in Int
    BY RegressionParameters DEF WeightsInv, R!TypeOK
  <1>3. g \in [U -> Int] /\ R!GradientB \in Int
    BY GradientInt
  <1>4. WeightsInv'
    BY WeightsStep
  <1>5. new \in [U -> Int]
    BY <1>1, <1>4 DEF WeightsInv
  <1>6. n \in Int
    <2>1. R!Cardinality(R!Samples) \in Nat
      BY RegressionParameters, FS_CardinalityType, RegressionOperators DEF WeightsInv, R!TypeOK
    <2>2. LearningRate[2] \in Nat
      BY ParametersAssumption
    <2> QED
      BY <2>1, <2>2 DEF R!Factor
  <1>7. R!Error(i) = Inner(weights, v, U) + bias - t * scale
    <2> DEFINE p == [x \in U |-> weights[x] * v[x]]
    <2>1. DOMAIN weights = U /\ DOMAIN p = U
      BY <1>2
    <2>2. R!Error(i) = R!SumFunction(p) + bias - t * scale
      BY <2>1 DEF R!Error
    <2>3. R!SumFunction(p) = SumFunctionOnSet(p, U)
      BY <2>1, RegressionOperators
    <2> QED
      BY <2>2, <2>3 DEF Inner
  <1>8. R!Error(i)' = Inner(new, v, U) + newBias - t * newScale
    <2> DEFINE p == [x \in U |-> new[x] * v[x]]
    <2>1. DOMAIN new = U /\ DOMAIN p = U
      BY <1>5
    <2>2. R!Error(i)' = R!SumFunction(p) + newBias - t * newScale
      BY <1>1, <2>1 DEF R!Error
    <2>3. R!SumFunction(p) = SumFunctionOnSet(p, U)
      BY <2>1, RegressionOperators
    <2> QED
      BY <2>2, <2>3 DEF Inner
  <1>9. Mixes(U, new, n, weights, s, g) /\ s \in Int
    <2>1. ASSUME NEW x \in U
          PROVE  new[x] = n * weights[x] + s * g[x]
      <3> DEFINE a == weights[x]
                 y == g[x]
      <3>1. new[x] = n * a - r * y /\ a \in Int /\ y \in Int
        BY <1>1, <1>2, <1>3
      <3> HIDE DEF a, y, new, n, r
      <3>2. n * a - r * y = n * a + (-r) * y
        BY <1>2, <1>6, <3>1
      <3> QED
        BY <3>1, <3>2 DEF a, y
    <2>2. s \in Int
      BY <1>2
    <2> HIDE DEF new, n, r, s
    <2> QED
      BY <2>1, <2>2 DEF Mixes
  <1> DEFINE wv == Inner(weights, v, U)
             gv == Inner(g, v, U)
             b == R!GradientB
             ww == bias
             sc == scale
  <1>10. newBias = n * ww - r * b /\ newScale = n * sc
    BY <1>1
  <1>11. wv \in Int /\ gv \in Int /\ b \in Int /\ ww \in Int /\ sc \in Int
    BY <1>2, <1>3, InnerInt
  <1>12. R!Error(i) = wv + ww - t * sc
    BY <1>7
  <1> HIDE DEF r, n, v, t, new, newScale, newBias, b, ww, sc, wv, gv
  <1>13. Inner(new, v, U) = n * wv + s * gv
    <2> HIDE DEF s
    <2> QED
      BY <1>2, <1>3, <1>5, <1>6, <1>9, InnerMixes DEF wv, gv
  <1>14. /\ n * wv + s * gv + (n * ww - r * b) - t * (n * sc) \in Int
         /\ n * wv + s * gv + (n * ww - r * b) - t * (n * sc)
              = n * (wv + ww - t * sc) - r * (gv + b)
    BY <1>2, <1>6, <1>11
  <1> QED
    BY <1>8, <1>10, <1>12, <1>13, <1>14 DEF n, r, gv, v, b

LEMMA FittingStepHelps ==
  ASSUME WeightsInv, R!Iterate, R!RateFits
  PROVE  \/ /\ bias' = R!Factor * bias
            /\ \A x \in DOMAIN weights : weights'[x] = R!Factor * weights[x]
         \/ R!SquaredError' < R!SquaredError * R!Factor * R!Factor
PROOF
  <1> DEFINE S == R!Samples
             U == DOMAIN data[1][1]
             f == [i \in S |-> data[i][1]]
             e == [i \in S |-> R!Error(i)]
             g == [x \in U |-> R!GradientW(x)]
             b == R!GradientB
             h == [i \in S |-> Inner(g, f[i], U) + b]
             d == [i \in S |-> R!Error(i)']
             r == LearningRate[1]
             n == R!Factor
  <1>1. IsDescent(S, U, f, e, g, b, h)
    <2> HIDE DEF S, U, f, e, g, b, h
    <2> QED
      BY StepIsDescent DEF S, U, f, e, g, b, h
  <1>2. \A i \in S : d[i] \in Int /\ d[i] = n * e[i] - r * h[i]
    BY ErrorsMove
  <1>3. MovesAgainst(S, d, n, e, r, h)
    <2>1. d \in [S -> Int]
      BY <1>2
    <2> HIDE DEF S, U, f, e, g, b, h, d, r, n
    <2> QED
      BY <1>2, <2>1 DEF MovesAgainst
  <1>4. /\ IsFiniteSet(S) /\ IsFiniteSet(U) /\ f \in [S -> [U -> Int]] /\ e \in [S -> Int]
        /\ g \in [U -> Int] /\ b \in Int /\ h \in [S -> Int]
    <2> HIDE DEF S, U, f, e, g, b, h
    <2> QED
      BY <1>1 DEF IsDescent
  <1>5. r \in Nat /\ n \in Nat
    <2>1. LearningRate[1] \in Int /\ LearningRate[2] \in Nat
      BY ParametersAssumption
    <2>2. R!Cardinality(R!Samples) \in Nat
      BY <1>4, FS_CardinalityType, RegressionOperators
    <2> QED
      BY <2>1, <2>2 DEF R!RateFits, R!Factor
  <1>6. R!Curvature = Curves(S, U, f)
    <2> DEFINE p == [i \in S |-> 1 + R!SumFunction([x \in DOMAIN weights |-> data[i][1][x] * data[i][1][x]])]
               q == [i \in S |-> 1 + Inner(f[i], f[i], U)]
    <2>1. DOMAIN weights = U
      BY DEF WeightsInv
    <2>2. \A i \in S : R!SumFunction([x \in DOMAIN weights |-> data[i][1][x] * data[i][1][x]])
                         = Inner(f[i], f[i], U)
      <3> SUFFICES ASSUME NEW i \in S
                   PROVE  R!SumFunction([x \in U |-> data[i][1][x] * data[i][1][x]])
                            = Inner(f[i], f[i], U)
        BY <2>1
      <3> DEFINE m == [x \in U |-> data[i][1][x] * data[i][1][x]]
      <3>1. R!SumFunction(m) = SumFunctionOnSet(m, U)
        <4>1. DOMAIN m = U
          OBVIOUS
        <4> HIDE DEF m
        <4> QED
          BY <4>1, RegressionOperators
      <3>2. f[i] = data[i][1]
        OBVIOUS
      <3> QED
        BY <3>1, <3>2, Zenon DEF Inner
    <2>3. p = q /\ DOMAIN q = S
      BY <2>2
    <2>4. R!Curvature = R!SumFunction(p)
      BY DEF R!Curvature
    <2> HIDE DEF p, q
    <2>5. R!Curvature = SumFunctionOnSet(q, S)
      BY <2>3, <2>4, RegressionOperators
    <2> QED
      BY <2>5 DEF Curves, q
  <1>7. r * Curves(S, U, f) < 2 * n
    BY <1>6 DEF R!RateFits
  <1>8. R!SquaredError = Inner(e, e, S)
    <2> DEFINE p == [i \in S |-> R!Error(i) * R!Error(i)]
    <2>1. R!SquaredError = R!SumFunction(p) /\ DOMAIN p = S
      BY DEF R!SquaredError
    <2>2. p = [i \in S |-> e[i] * e[i]]
      OBVIOUS
    <2> HIDE DEF p, e
    <2> QED
      BY <2>1, <2>2, RegressionOperators DEF Inner
  <1>9. R!SquaredError' = Inner(d, d, S)
    <2> DEFINE p == [i \in S |-> R!Error(i)' * R!Error(i)']
    <2>1. S' = S
      BY DEF R!Samples, R!Iterate
    <2>2. R!SquaredError' = R!SumFunction(p) /\ DOMAIN p = S
      BY <2>1 DEF R!SquaredError
    <2>3. p = [i \in S |-> d[i] * d[i]]
      OBVIOUS
    <2> HIDE DEF p, d
    <2> QED
      BY <2>2, <2>3, RegressionOperators DEF Inner
  <1>10. /\ weights' = [x \in DOMAIN weights |-> n * weights[x] - r * R!GradientW(x)]
         /\ bias' = n * bias - r * b
    BY Zenon DEF R!Iterate
  <1>11. weights \in [U -> Int] /\ bias \in Int
    BY DEF WeightsInv, R!TypeOK
  <1>12. \A x \in U : g[x] = R!GradientW(x) /\ g[x] \in Int
    BY <1>4
  <1>13. r = 0 \/ (b = 0 /\ \A x \in U : g[x] = 0) \/ Inner(d, d, S) < Inner(e, e, S) * n * n
    <2> HIDE DEF S, U, f, e, g, b, h, d, r, n
    <2> QED
      BY <1>1, <1>3, <1>5, <1>7, SquaresFall
  <1>14. CASE r = 0 \/ (b = 0 /\ \A x \in U : g[x] = 0)
    <2>1. bias' = n * bias
      <3> HIDE DEF b, r, n
      <3> QED
        BY <1>4, <1>5, <1>10, <1>11, <1>14
    <2>2. ASSUME NEW x \in DOMAIN weights
          PROVE  weights'[x] = n * weights[x]
      <3>1. x \in U /\ weights[x] \in Int /\ weights'[x] = n * weights[x] - r * g[x]
        BY <1>10, <1>11, <1>12
      <3>2. g[x] \in Int /\ (r = 0 \/ g[x] = 0)
        BY <1>12, <1>14, <3>1
      <3> HIDE DEF r, n, g
      <3> QED
        BY <1>5, <3>1, <3>2
    <2> QED
      BY <2>1, <2>2
  <1> QED
    BY <1>8, <1>9, <1>13, <1>14

\* Gradient descent goes down with every step that moves something, whatever
\* the samples, at every learning rate that fits them: the products of the
\* gradient with the samples meet the errors in the square of the gradient
\* (GradientMeetsErrors), and are bounded by it (GradientIsBounded).
THEOREM StepsLowerTheError == Spec => EveryStepFits
PROOF
  <1>1. WeightsRun /\ [Next]_vars => [plugin = "linear_regression" => R!ErrorFalls]_vars
    <2> SUFFICES ASSUME plugin = "linear_regression", WeightsInv, Next
                 PROVE  R!ErrorFalls
      BY DEF WeightsRun
    <2>1. R!Iterate
      BY DEF Next, Run, RunBFS, RunKHop, RunConnectedComponents, RunKCore, RunLabelPropagation,
         RunLouvain, RunTriangleCount, RunPageRank, RunKMeans, RunLinearRegression, R!Next
    <2> QED
      BY <2>1, FittingStepHelps DEF R!ErrorFalls
  <1> QED
    BY <1>1, WeightsInvariance, PTL DEF Spec, EveryStepFits

-----------------------------------------------------------------------------
(* All plugins.                                                            *)

\* The name of the job is one that is registered.
Known == plugin \in Plugins

LEMMA KnownAlways == Spec => []Known
PROOF
  <1>1. Init => Known
    BY DEF Init, Known
  <1>2. Known /\ [Next]_vars => Known'
    BY PluginRuns DEF Known
  <1> QED
    BY <1>1, <1>2, PTL DEF Spec

\* Whatever plugin runs, its variables have their types: no vertex, distance or
\* center comes from anywhere but the dataset.
THEOREM TypeCorrect == Spec => []TypeOK
PROOF
  <1>1. /\ Known
        /\ LayerRun /\ SearchesRun /\ ComponentsRun /\ CoreRun /\ CountRun
        /\ LabelRun /\ LouvainRun /\ RankRun /\ FitRun /\ WeightsRun
        => TypeOK
    <2> SUFFICES ASSUME Known, LayerRun, SearchesRun, ComponentsRun, CoreRun, CountRun,
                        LabelRun, LouvainRun, RankRun, FitRun, WeightsRun
                 PROVE  TypeOK
      OBVIOUS
    <2>1. CASE plugin = "bfs"
      <3>1. B!TypeOK
        BY <2>1 DEF LayerRun, LayerInv
      <3> QED
        BY <2>1, <3>1 DEF TypeOK, Known
    <2>2. CASE plugin = "k_hop"
      <3>1. K!TypeOK
        BY <2>2 DEF SearchesRun, SearchesInv
      <3> QED
        BY <2>2, <3>1 DEF TypeOK, Known
    <2>3. CASE plugin = "connected_components"
      <3>1. C!TypeOK
        BY <2>3 DEF ComponentsRun, ComponentsInv
      <3> QED
        BY <2>3, <3>1 DEF TypeOK, Known
    <2>4. CASE plugin = "k_core"
      <3>1. D!TypeOK
        BY <2>4 DEF CoreRun, CoreInv
      <3> QED
        BY <2>4, <3>1 DEF TypeOK, Known
    <2>5. CASE plugin = "label_propagation"
      <3>1. L!TypeOK
        BY <2>5 DEF LabelRun, LabelInv
      <3> QED
        BY <2>5, <3>1 DEF TypeOK, Known
    <2>6. CASE plugin = "louvain"
      <3>1. V!TypeOK
        BY <2>6 DEF LouvainRun, LouvainInv
      <3> QED
        BY <2>6, <3>1 DEF TypeOK, Known
    <2>7. CASE plugin = "triangle_count"
      <3>1. T!TypeOK
        BY <2>7 DEF CountRun, CountInv
      <3> QED
        BY <2>7, <3>1 DEF TypeOK, Known
    <2>8. CASE plugin = "pagerank"
      <3>1. P!TypeOK
        BY <2>8 DEF RankRun, RankInv
      <3> QED
        BY <2>8, <3>1 DEF TypeOK, Known
    <2>9. CASE plugin = "kmeans"
      <3>1. M!TypeOK
        BY <2>9 DEF FitRun, FitInv
      <3> QED
        BY <2>9, <3>1 DEF TypeOK, Known
    <2>10. CASE plugin = "linear_regression"
      <3>1. R!TypeOK
        BY <2>10 DEF WeightsRun, WeightsInv
      <3> QED
        BY <2>10, <3>1 DEF TypeOK, Known
    <2>11. \/ plugin = "bfs" \/ plugin = "k_hop" \/ plugin = "connected_components"
           \/ plugin = "k_core" \/ plugin = "label_propagation" \/ plugin = "louvain"
           \/ plugin = "triangle_count" \/ plugin = "pagerank" \/ plugin = "kmeans"
           \/ plugin = "linear_regression"
      BY DEF Known, Plugins, Uses
    <2> QED
      BY <2>1, <2>2, <2>3, <2>4, <2>5, <2>6, <2>7, <2>8, <2>9, <2>10, <2>11
  <1> QED
    BY <1>1, KnownAlways, LayerInvariance, SearchesInvariance, ComponentsInvariance,
       CoreInvariance, CountInvariance, LabelInvariance, LouvainInvariance, RankInvariance,
       FitInvariance, WeightsInvariance, PTL

\* Whoever reports converged=True has nothing left to improve; in k-means, if the
\* tolerance is below any shift but 0.
THEOREM ConvergedRunsAreSettled == Spec => []ConvergedIsSettled
PROOF
  <1>1. LabelRun /\ LouvainRun /\ FitRun => ConvergedIsSettled
    <2> SUFFICES ASSUME LabelRun, LouvainRun, FitRun PROVE ConvergedIsSettled
      OBVIOUS
    <2>1. CASE plugin = "label_propagation"
      <3>1. L!ConvergedIsStable
        BY <2>1 DEF LabelRun, LabelInv, L!ConvergedIsStable, Settled
      <3> QED
        BY <2>1, <3>1 DEF ConvergedIsSettled
    <2>2. CASE plugin = "louvain"
      <3>1. V!ConvergedIsLocalMaximum
        BY <2>2, LouvainIsSettled DEF LouvainRun
      <3> QED
        BY <2>2, <3>1 DEF ConvergedIsSettled
    <2>3. CASE plugin = "kmeans"
      <3>1. M!ConvergedIsFixpoint
        BY <2>3 DEF FitRun, FitInv, M!ConvergedIsFixpoint
      <3> QED
        BY <2>3, <3>1 DEF ConvergedIsSettled
    <2> QED
      BY <2>1, <2>2, <2>3 DEF ConvergedIsSettled
  <1> QED
    BY <1>1, LabelInvariance, LouvainInvariance, FitInvariance, PTL
=============================================================================
