----------------------------- MODULE JobRunner ------------------------------
(***************************************************************************)
(* JobRunner.run of core/job.py with ten of the plugins that               *)
(* AlgorithmRegistry.default() registers: create looks the name of the job *)
(* up and builds one plugin from its parameters, and the runtime calls     *)
(* that plugin's run and no other.                                         *)
(*                                                                         *)
(* The plugins are modules of their own.  The local variables of their     *)
(* runs come in groups; plugins that have locals of the same name share    *)
(* the group, and a group that the plugin of the job has no use for is     *)
(* Unused.  What the runtime does around run is in CheckpointedRuntime; a  *)
(* name that is not registered raises before anything happens and has no   *)
(* behaviour here.                                                         *)
(***************************************************************************)
EXTENDS Integers, Sequences, FiniteSets

CONSTANTS
  Nodes,           \* vertices are numbers
  EdgesOf,         \* the edges a dataset may contain, for each graph plugin
  Sources,         \* values of bfs' parameter source
  SourceLists,     \* values of k_hop's parameter sources
  MaxHops,         \* bound on k_hop's parameter hops
  Ks,              \* values of k_core's parameter k, never negative
  MaxPasses,       \* louvain's parameter max_passes
  MaxIterations,   \* the parameter max_iterations of the plugins that have it
  Damping,         \* pagerank's parameter damping, a fraction
  Tolerance,       \* pagerank's parameter tolerance, a fraction
  Unit,            \* see PageRank
  Clusterings,     \* kmeans' points and parameter k
  Regressions,     \* linear_regression's samples
  LearningRate,    \* its parameter learning_rate, a fraction
  Unused

\* The groups of variables of each plugin.
Uses ==
  [ bfs                  |-> {"queue", "layers"},
    k_hop                |-> {"queue", "hops"},
    connected_components |-> {"todo", "iterations", "done", "labels", "changed", "next_labels"},
    k_core               |-> {"iterations", "changed", "k", "remaining"},
    label_propagation    |-> {"todo", "iterations", "done", "labels", "changed"},
    louvain              |-> {"todo", "iterations", "done", "communities"},
    triangle_count       |-> {"todo", "triangles"},
    pagerank             |-> {"iterations", "done", "converged", "scale", "scores"},
    kmeans               |-> {"iterations", "done", "converged", "k", "clusters"},
    linear_regression    |-> {"iterations", "done", "scale", "weights"} ]

Plugins == DOMAIN Uses

Groups == UNION {Uses[p] : p \in Plugins}

ASSUME GraphAssumption ==
  /\ Nodes \subseteq Int
  /\ DOMAIN EdgesOf = Plugins \ {"kmeans", "linear_regression"}
  /\ \A p \in DOMAIN EdgesOf :
       EdgesOf[p] \subseteq Nodes \X Nodes /\ IsFiniteSet(EdgesOf[p])
ASSUME ParametersAssumption ==
  /\ Sources \subseteq Nodes
  /\ SourceLists \subseteq Seq(Nodes)
  /\ MaxHops \in Nat /\ MaxPasses \in Nat /\ Ks \subseteq Nat
  /\ MaxIterations \in [{"connected_components", "label_propagation", "pagerank",
                         "kmeans", "linear_regression"} -> Nat]
  /\ Damping \in Nat \X Nat /\ Damping[1] < Damping[2]
  /\ Tolerance \in Nat \X Nat /\ Tolerance[2] > 0 /\ Unit \in Nat
  /\ LearningRate \in Int \X Nat

\* Points have as many coordinates as each other, samples as many features.
ASSUME SamplesAssumption ==
  /\ Clusterings \subseteq Seq(Seq(Int)) \X Nat
  /\ \A clustering \in Clusterings :
       LET points == clustering[1] IN
       /\ clustering[2] \in 1 .. Len(points)
       /\ \A i \in DOMAIN points : DOMAIN points[i] = DOMAIN points[1]
  /\ Regressions \subseteq Seq(Seq(Int) \X Int)
  /\ \A samples \in Regressions :
       /\ samples # <<>>
       /\ \A i \in DOMAIN samples : DOMAIN samples[i][1] = DOMAIN samples[1][1]

\* Divisions are exact; a repeated edge counts twice in an out-degree.
ASSUME ExactnessAssumption ==
  /\ LET edges == EdgesOf["pagerank"]
         sizes == 1 .. Cardinality(UNION {{e[1], e[2]} : e \in edges})
         degrees == UNION {1 .. 2 * Cardinality({f \in edges : f[1] = e[1]}) : e \in edges}
     IN  \A n \in sizes \cup degrees : Unit % n = 0
  /\ \A clustering \in Clusterings :
       LET points == clustering[1] IN
       \A i \in DOMAIN points : \A x \in DOMAIN points[i] :
         \A n \in 1 .. Len(points) : points[i][x] % n = 0

VARIABLES
  plugin,                                             \* the name of the job
  data,                                               \* its dataset
  queue, todo, iterations, done, converged,           \* shared
  labels, changed, k, scale,
  source, distances,                                  \* bfs
  sources, hops, turn, seen, neighborhoods,           \* k_hop
  next_labels,                                        \* connected_components
  remaining,                                          \* k_core
  communities, best_modularity, moved,                \* louvain
  count,                                              \* triangle_count
  twice, kernel, scores, delta,                       \* pagerank
  tolerance, centers, assignments,                    \* kmeans
  weights, bias                                       \* linear_regression

layerVars     == <<source, distances>>
hopVars       == <<sources, hops, turn, seen, neighborhoods>>
communityVars == <<communities, best_modularity, moved>>
scoreVars     == <<twice, kernel, scores, delta>>
clusterVars   == <<tolerance, centers, assignments>>
weightVars    == <<weights, bias>>

vars == <<plugin, data, queue, todo, iterations, done, converged, labels,
          changed, k, scale, layerVars, hopVars, next_labels, remaining, communityVars,
          count, scoreVars, clusterVars, weightVars>>

B == INSTANCE BFS WITH Candidates <- EdgesOf["bfs"]
K == INSTANCE KHop WITH Candidates <- EdgesOf["k_hop"]
C == INSTANCE ConnectedComponents WITH
       Candidates <- EdgesOf["connected_components"],
       MaxIterations <- MaxIterations["connected_components"]
D == INSTANCE KCore WITH Candidates <- EdgesOf["k_core"]
L == INSTANCE LabelPropagation WITH
       Candidates <- EdgesOf["label_propagation"],
       MaxIterations <- MaxIterations["label_propagation"]
V == INSTANCE Louvain WITH Candidates <- EdgesOf["louvain"]
T == INSTANCE TriangleCount WITH Candidates <- EdgesOf["triangle_count"]
P == INSTANCE PageRank WITH
       Candidates <- EdgesOf["pagerank"],
       MaxIterations <- MaxIterations["pagerank"]
M == INSTANCE KMeans WITH MaxIterations <- MaxIterations["kmeans"]
R == INSTANCE LinearRegression WITH
       MaxIterations <- MaxIterations["linear_regression"]

Absent(group) ==
  CASE group = "queue" -> queue = Unused
    [] group = "todo" -> todo = Unused
    [] group = "iterations" -> iterations = Unused
    [] group = "done" -> done = Unused
    [] group = "converged" -> converged = Unused
    [] group = "layers" -> source = Unused /\ distances = Unused
    [] group = "hops" ->
         /\ sources = Unused /\ hops = Unused /\ turn = Unused
         /\ seen = Unused /\ neighborhoods = Unused
    [] group = "labels" -> labels = Unused
    [] group = "changed" -> changed = Unused
    [] group = "next_labels" -> next_labels = Unused
    [] group = "k" -> k = Unused
    [] group = "scale" -> scale = Unused
    [] group = "remaining" -> remaining = Unused
    [] group = "communities" ->
         communities = Unused /\ best_modularity = Unused /\ moved = Unused
    [] group = "triangles" -> count = Unused
    [] group = "scores" ->
         twice = Unused /\ kernel = Unused /\ scores = Unused /\ delta = Unused
    [] group = "clusters" ->
         tolerance = Unused /\ centers = Unused /\ assignments = Unused
    [] group = "weights" -> weights = Unused /\ bias = Unused

Kept(group) ==
  CASE group = "queue" -> UNCHANGED queue
    [] group = "todo" -> UNCHANGED todo
    [] group = "iterations" -> UNCHANGED iterations
    [] group = "done" -> UNCHANGED done
    [] group = "converged" -> UNCHANGED converged
    [] group = "layers" -> UNCHANGED layerVars
    [] group = "hops" -> UNCHANGED hopVars
    [] group = "labels" -> UNCHANGED labels
    [] group = "changed" -> UNCHANGED changed
    [] group = "next_labels" -> UNCHANGED next_labels
    [] group = "k" -> UNCHANGED k
    [] group = "scale" -> UNCHANGED scale
    [] group = "remaining" -> UNCHANGED remaining
    [] group = "communities" -> UNCHANGED communityVars
    [] group = "triangles" -> UNCHANGED count
    [] group = "scores" -> UNCHANGED scoreVars
    [] group = "clusters" -> UNCHANGED clusterVars
    [] group = "weights" -> UNCHANGED weightVars

-----------------------------------------------------------------------------
\* create: the one plugin of the job, at the beginning of its run.
Init ==
  /\ plugin \in Plugins
  /\ \/ plugin = "bfs" /\ B!Init
     \/ plugin = "k_hop" /\ K!Init
     \/ plugin = "connected_components" /\ C!Init
     \/ plugin = "k_core" /\ D!Init
     \/ plugin = "label_propagation" /\ L!Init
     \/ plugin = "louvain" /\ V!Init
     \/ plugin = "triangle_count" /\ T!Init
     \/ plugin = "pagerank" /\ P!Init
     \/ plugin = "kmeans" /\ M!Init
     \/ plugin = "linear_regression" /\ R!Init
  /\ \A group \in Groups \ Uses[plugin] : Absent(group)

\* A step of the plugin's run.
Run(name) ==
  /\ plugin = name
  /\ \A group \in Groups \ Uses[name] : Kept(group)
  /\ UNCHANGED plugin

RunBFS == Run("bfs") /\ B!Next
RunKHop == Run("k_hop") /\ K!Next
RunConnectedComponents == Run("connected_components") /\ C!Next
RunKCore == Run("k_core") /\ D!Next
RunLabelPropagation == Run("label_propagation") /\ L!Next
RunLouvain == Run("louvain") /\ V!Next
RunTriangleCount == Run("triangle_count") /\ T!Next
RunPageRank == Run("pagerank") /\ P!Next
RunKMeans == Run("kmeans") /\ M!Next
RunLinearRegression == Run("linear_regression") /\ R!Next

Next ==
  \/ RunBFS \/ RunKHop \/ RunConnectedComponents \/ RunKCore
  \/ RunLabelPropagation \/ RunLouvain \/ RunTriangleCount \/ RunPageRank \/ RunKMeans \/ RunLinearRegression

Spec == Init /\ [][Next]_vars

-----------------------------------------------------------------------------
(* Properties: those of the plugins, for the plugin that runs.             *)

\* The variables of the plugin that runs have their types.
TypeOK ==
  /\ plugin \in Plugins
  /\ CASE plugin = "bfs" -> B!TypeOK
       [] plugin = "k_hop" -> K!TypeOK
       [] plugin = "connected_components" -> C!TypeOK
       [] plugin = "k_core" -> D!TypeOK
       [] plugin = "label_propagation" -> L!TypeOK
       [] plugin = "louvain" -> V!TypeOK
       [] plugin = "triangle_count" -> T!TypeOK
       [] plugin = "pagerank" -> P!TypeOK
       [] plugin = "kmeans" -> M!TypeOK
       [] plugin = "linear_regression" -> R!TypeOK

\* bfs: the queue spans two layers at most, nearer one first, and what has
\* left it is no farther than its head.
QueueIsLayered == plugin = "bfs" => B!QueueIsLayered

\* bfs: a distance that was entered is the number of hops of a shortest path,
\* never improved later; at the end exactly what can be reached has one.
DistancesAreShortest == plugin = "bfs" => B!DistancesAreShortest

\* k_hop: the entry of every source is exactly what `hops` edges reach.
NeighborhoodsAreExact == plugin = "k_hop" => K!NeighborhoodsAreExact

\* connected_components: converged=True means that the labels are the
\* components, for the two ends of every edge agree.
ConvergedIsComponents == plugin = "connected_components" => C!ConvergedIsComponents

\* connected_components: the two dictionaries keep the supersteps apart, so that
\* a label is the least vertex within as many hops as there were supersteps.
LabelsAreHopLimited == plugin = "connected_components" => C!LabelsAreHopLimited

\* k_core: peeling never takes a member of a set in which everybody has k
\* neighbours, and what is left at the end is such a set.
ResultIsTheCore == plugin = "k_core" => D!ResultIsTheCore

\* label_propagation: updates in place never go round in a circle, since each
\* makes more neighbours agree, or as many with a smaller label.
EveryMoveHelps == [][plugin = "label_propagation" => L!MoveHelps]_vars

\* louvain: the score carried along is the one of the communities, and every
\* move raises it, so the passes never go round in a circle.
EveryMoveGains == [][plugin = "louvain" => V!MoveGains]_vars

\* triangle_count: three vertices that are neighbours of each other are counted
\* once, when the outermost loop comes to the least of them.
TrianglesAreCountedOnce == plugin = "triangle_count" => T!TrianglesAreCountedOnce

\* pagerank: no score is lost or made, what has no edge to leave by included.
MassIsPreserved == plugin = "pagerank" => P!MassIsPreserved

\* pagerank: supersteps contract, so a delta below the tolerance stays there.
SuperstepsContract == plugin = "pagerank" => P!SuperstepsContract

\* pagerank: the kernel with arrays and the loop with sets compute the same
\* scores when every vertex repeats all of its edges or none.
KernelsAgree == plugin = "pagerank" => P!KernelsAgree

\* kmeans: an iteration that moves a center lowers the sum of the squared
\* distances, so that no clustering comes back.
EveryIterationGains == [][plugin = "kmeans" => M!MoveGains]_vars

\* linear_regression: a step that moves a weight lowers the squared error, if
\* the learning rate fits the samples.
EveryStepFits == [][plugin = "linear_regression" => R!ErrorFalls]_vars

\* converged=True means what it says: no vertex wants another label, no vertex
\* alone can raise the score by joining a neighbour's community, points and
\* centers fit each other (the last for a tolerance below any shift but 0).
ConvergedIsSettled ==
  CASE plugin = "label_propagation" -> L!ConvergedIsStable
    [] plugin = "louvain" -> V!ConvergedIsLocalMaximum
    [] plugin = "kmeans" -> M!ConvergedIsFixpoint
    [] OTHER -> TRUE
=============================================================================
