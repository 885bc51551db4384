# DistAlgo in TLA+

A verification development for DistAlgo (`src/`): TLA+ modules of its job
scheduler, runtimes, checkpoint stores, HTTP service, Ray runtimes, graph and ML algorithms,
TLC configurations that check them on small instances, and TLAPS proofs for
every value of the constants. Line numbers below are those of
`src/src/distalgo/`. `PROJECT.json` maps every definition to the lines it
stands for and lists the runs, the hazards, the findings and the theorems.

## 1. The system

DistAlgo runs graph and ML algorithms ("plugins") through a common contract.
A *job* is an algorithm name, parameters, data and a number of partitions. The
data flow is

    payload -> FifoScheduler / JobAPI / HTTP / CLI -> JobRunner -> registry.create
            -> a runtime -> plugin.run(data, partitions) -> AlgorithmResult
                         -> checkpoint store, metrics registry -> Prometheus text

| component | state | operations | interacts with | what makes it hard | what makes it correct |
|---|---|---|---|---|---|
| FIFO scheduler (`core/scheduler.py`) | deque of ids, dictionary of jobs, dictionary of `JobStatus` objects; no lock | `submit`, `run_next`, `status` | calls `JobRunner.run` inside `run_next` | callers on several threads; check-then-pop; a job that raises, also what is no `Exception`; status objects that are replaced | FIFO, every job at most once, status tells the truth and moves forward, a failed job blocks nobody |
| file checkpoint store (`core/checkpoint.py`) | one pickle per (algorithm, iteration) | `save`, `load`, `exists` | called by the runtimes of any process | truncate-then-write in place; crashes; two writers | a lone save is read back; a crash never mixes two states |
| object checkpoint store, MinIO client (`core/object_checkpoint.py`, `core/minio_client.py`) | a bucket in an external store | `ensure_bucket`, `save`, `load`, `exists` | HTTP requests with a timeout | lost and late requests, errors, check-then-create | a returned save is read back; what exists is found |
| runtimes (`core/runtime.py`, `partitioned_runtime.py`, `superstep.py`, `resume.py`, `faults.py`) | their store, registry, fault | `run`, `resume_or_run`, `run_with_recovery` | plugin, store, registry, partitioner | a raise or a crash between plugin, save and counters; exists-then-load | counters agree with checkpoints; a returned result left one; resume gives what was saved last under the key |
| Ray actor runtime (`backends/ray_actor_runtime.py`) | its actors | `run` | Ray, partitioner, `PartitionedLocalRuntime` | actors that die or are never placed; waits without a timeout | no edge lost or reordered in its bucket; no GPU held by what has ended |
| partitioning (`core/partition.py`) | none | `hash_partition_edges` | the two runtimes above | bucket and boundary use different hashes | every edge in one bucket, in order |
| SSSP, connected components, label propagation, k-core, BFS, k-hop, Louvain (`algorithms/graph/`) | dictionaries of one run | `run` | a runtime | updates in place within a superstep, iteration limits, convergence flags | the result is the graph-theoretic one; `converged=True` is true |
| PageRank, k-means, triangle count (`algorithms/`), array kernels (`backends/accelerated.py`) | dictionaries, arrays | `run` | accelerated kernels | vertices or clusters that lose everything; two kernels for one algorithm, which store a graph differently | no score lost, kernels that agree, `converged=True` is a fixpoint |
| linear regression (`algorithms/ml/`) | weights, bias | `run` | a runtime | every weight moves, then the bias, all from the errors before the step | a step never moves away from the best fit |
| metrics registry and server (`core/metrics.py`, `core/prometheus.py`) | dictionary of counters and gauges | `increment`, `set_gauge`, scrape | the runtimes write, the server reads | read-add-write on threads, scrapes in the middle of a run | counts lost only where increments overlap; scrapes add up |
| HTTP service: application, API, job runner, registry, `serve` (`core/server.py`, `api.py`, `job.py`, `algorithms/registry.py`, `cli.py`) | connections of the server socket | a request, `run_json`, `run`, `create` | clients, a runtime, other threads with the same runner | which failure becomes an answer and which escapes; one thread for everybody and no timeout; a restart | a failed job is answered like any other; every request is settled; what was answered is counted |
| Ray runtime (`backends/ray_runtime.py`) | the flag `_initialized`, Ray | `run`, `shutdown` | Ray, `LocalRuntime` | threads that test the flag at once; a shutdown that stops Ray before it clears the flag | Ray runs whenever a job does, unless a shutdown overlapped a run |
| other commands of the CLI, data loaders, benchmark, report, GPU probe, resource plan | none | formatting and input | | | |

## 2. The modules

**Scheduler.** `FifoScheduler` has one action per statement that touches
shared state: `submit` builds the job, stores it, stores the status, appends the
id; `run_next` tests the queue (`RunCheck`), pops (`RunPop`, or `RunPopRaises` when another
worker was faster), marks (`RunMark`), and ends (`RunEnd`) or is interrupted by what
is no `Exception` (`RunInterrupted`). The two `JobStatus` objects of a job are
two variables, `first` and `final`, because `run_next` *mutates* the first and
*replaces* it by the second; `statuses` says which one the dictionary holds.
`appended` and `popped` are history. `JobQueue` is the abstract specification: a
log of accepted jobs, a cursor, an outcome per job; `ImplementsJobQueue` maps
the one to the other with `INSTANCE ... WITH log <- appended, cursor <-
Len(popped), outcome <- final`. The repository starts no threads on a scheduler:
several workers are the use the class invites and does not guard against; the
single-worker use of the tests is among its behaviours.

**Stores.** `FileCheckpointStore` splits `save` into the truncating `open`,
the writes of `pickle.dump` (`Blocks` of them, each at the writer's own offset,
so that a file truncated under a writer gets a hole) and `close`; `Abandon` is a
crash or an exception in between. `damage` and `latest` are history.
`ObjectCheckpointStore` has one action for the request of each call, one per
reply the client distinguishes, and `TimesOut`; `Serve`, `Refuse` and
`ServeLate` are the external store, which applies a request whole, refuses it,
or applies it after its client has given up.

**Runtimes.** `CheckpointedRuntime` composes the five runtimes with
`FileCheckpointStore` (an INSTANCE whose actions it conjoins) and a metrics
registry per process: `Begin`; for a resume `LookUp` and `Load`, with the file
able to change in between; for a recovery `MaybeRaise`; then `Compute`, the
save, `CountIterations`, `CountJob`, `SetGauges`, and for the partitioned
runtime `Merge` or `MergeRaises` — the raise of `hash_partition_edges` after
everything was recorded. A job stands for its output, since a plugin is a
function of its input; of the result the code reads the name and the
iterations, the key. `Load` raises over a file that cannot be unpickled; one that two saves
have mixed may also load as something nobody has saved (`Nobody`), which a resume returns like
any other result.

**Service.** `JobService` is a process that serves jobs: clients `Connect`, `Send` and `GiveUp`;
the only thread of the `HTTPServer` does `Accept` and then, for the request it has, `Receive`,
`ReceiveJob`, or `ReceiveNothing`. Requests are of the kinds the handlers tell apart: a job;
a job whose answer may be one that cannot be encoded, as a lone surrogate of the body in a result or an
error message (`surrogate`: the encoding is outside the `try` of `run_json`, and may fail or not);
a POST whose Content-Length or body cannot be read (`unreadable`); the metrics; any
other page. An exception in a handler closes the connection without an answer; so do
`unreadable` and the metrics of a `PregelRuntime` in `Receive`, and the encoding in `Respond`. A job goes
through `Begin`, `InitRay` and `SetFlag` (the lazy start of `RayRuntime`, as
the three statements it is), `Compute`, the counters and the gauges, or leaves by
`RunRaises`; `Respond` sends what `run_json` has made of it. Threads in `Others` run jobs
on the same runner, as the worker of a `FifoScheduler` does. `RayRuntime.shutdown`, which any
thread may call at any moment, is its test and its two statements, `ShutDown`, `StopRay`, `ClearFlag`:
between the two, a job that begins finds the flag set and Ray down. `Restart` kills the process
and what lived in it. `MetricsRegistry` is an INSTANCE inside: `+=` is its `Read`
and its `Store`, with other threads in between, so `CountIterations` and `CountJob` are two
steps each. `told`, `added`, `raced` and `overlapped` are history; the last says that a run and a shutdown
have been under way together since a shutdown last ended with no run under way. A scrape, of `/metrics` or of
`MetricsHTTPServer`, changes nothing; what it reads is a statement about `counters` at any moment.

**Ray actors.** `RayActorRuntime` EXTENDS `Partition` (`hash_partition_edges` as
operators on sequences; `Among` is the loop that fills a bucket). `BeginRun` asks for all actors, `GetEdges` and
`GetSummaries` are the two `ray.get`, `GetRaises` is either of them when an
actor has died, `RunLocal` is the rest. `Place`, `ActorDies` and `Reap` are Ray.

**Algorithms.** One module each; a step is one pass of the innermost loop that
changes shared dictionaries (SSSP: a message; components, label propagation,
Louvain, triangle count: a vertex; BFS and k-hop: a queue entry; k-core: a round;
PageRank and k-means, which replace all scores or centers at once: an iteration), and the end
of a superstep or pass is an action of its own, with the reset of its flags. Where
the code iterates over a dictionary or a list whose order carries no meaning,
the model takes any order; where it sorts, the order is kept. `EdgeList` holds
the undirected adjacency four of them build. Assumptions: weights and vertices
are integers (a NaN or infinite weight is left out); a dataset is a set of
edges, because repeated edges change nothing in these algorithms except in
Louvain, where an edge in both directions has the weight of a repeated one, and
in the array kernel of PageRank, for which `twice` says what is repeated;
a negative `max_iterations` behaves as 0. Louvain's score is multiplied by
(2m)^2, which makes it an integer; the tolerance of 1e-12 is below every
difference then. PageRank's scores are exact integers over the denominator
`scale`, which grows with every superstep; its `kernel` is the loop over sets (the
plugin's and its copy in `accelerated.py`, which are equal) or the one over arrays. The two are
translated each from its own lines: `SetScores` goes along sets of neighbours (`Outgoing`,
`Incoming`, `Received`), `ArrayScores` along the positions of the edges, of which a repeated
edge has two (`OutDegree`, `Contribution`, `Added`).
k-means runs on points that every size of a cluster divides, so that means are
integers; its loop occurs three times in the code with the same control, and
`tolerance` is off or below any shift but 0, so that `converged=True` of k-means is shown
to be a fixpoint for such tolerances only. Linear regression keeps
numerators over a denominator, its own `scale`, so that its steps are exact.

`JobRunner` composes BFS, k-hop, components, k-core, label propagation, Louvain, triangle
count, PageRank, k-means and linear regression as `JobRunner.run` does: the registry creates one plugin by
its name, and only that plugin runs. The plugins are instances that share the
variables of equal name; `Uses` says which groups of variables a plugin has, and
the others are `Unused`. Its properties are those of the plugins, and its proofs are
about them. Only SSSP, the one plugin on weighted edges, has a run and proofs of its own.

Every module has `Faulty...` variants before the definitions they vary. No
specification uses them; substituted for the definition, each makes one property
fail, so none of the properties holds by the shape of the model.

## 3. The runs

| run | instance | what it shows |
|---|---|---|
| `scheduler` | 3 jobs, 2 clients, 2 workers | `NoneLostNorReordered`, `StatusMatchesPosition`, `StaleHandleReadsRunning`, `ImplementsJobQueue`: in every interleaving jobs run once and in order, `status` is truthful, an old handle stays at RUNNING; `EveryJobSettles` |
| `file_store` | 2 processes, 2 keys, 2 outputs, 2 writes per pickle | `IntactUnlessDamaged`, `MixedOnlyByOverlap` |
| `object_store` | 2 clients, 1 object, 2 outputs, 5 calls | `SavedIsReadBack`: only a save that was sent while another one was under way, one that had timed out included, can be undone; `NothingIsForgotten`: what was told to exist is not denied |
| `runtimes` | 2 processes, 3 jobs of which 2 share a key and one is of another algorithm, 3 calls, a crash, all five runtimes | `CountersMatchCheckpoints`, `FinishedRunLeavesCheckpoint`; `ResumeReadsTheLastSave`: a resume hands out what the last save of its key has written, although it looks and reads at two moments, and raises over no intact file; where saves of the key have overlapped it may hand out an older output of the key or one nobody saved, and still none of another key |
| `service` | 2 connections, a backlog of 1, a job on another thread, 1 or 2 iterations, a restart; local and Pregel runtime | `AnsweredIsCounted`, `ScrapesAddUp`: completed jobs are counted, a scrape at any moment and the next one add up, and only overlapping increments lose counts; `FailuresAreAnswered`: jobs that can be read and whose answer can be encoded are answered, and so are pages, and metrics where there are any; `EverySentRequestSettles` |
| `ray_runtime` | a connection, jobs on 2 other threads, a restart, any number of shutdowns; Ray runtime | `RayIsUpForJobs`: Ray is up for every job of threads that race to start it, until a run and a shutdown have overlapped; then the flag may stay set over a Ray that is down, and a shutdown with no run under way makes it right again |
| `ray_actors` | 2 drivers, 2 GPUs, 3 runs of 1 or 2 actors, a death | `EdgesComeBack`, `StarvedOnlyByDemand`, `FittingRunsEnd` |
| `sssp` | all subsets of 10 edges on 4 vertices | `DistancesAreHopLimited` (superstep semantics in spite of updates in place), `RelaxedOrPending`, `ConvergedIsFixpoint` |
| `plugins` | `bfs`: all subsets of 9 edges, 3 sources; `k_hop`: of 8 edges, 4 lists of sources, 0..3 hops; `connected_components`: of 8 edges on 6 vertices, 5 supersteps; `k_core`: of 10 edges on 6 vertices, k = 0..3; `label_propagation`: of 10 edges, 4 passes; `louvain`: of 9 edges, 3 passes; `triangle_count`: of 8 edges; `pagerank`: of 6 edges, each once or twice, both kernels, damping 1/2, tolerance 1/8, 3 supersteps; `kmeans`: 4 points on 4 places, 1..3 clusters, 3 iterations; `linear_regression`: 1 or 2 samples with 2 features, 3 with 1, rate 1/2, 4 iterations | `QueueIsLayered`, `DistancesAreShortest`; `NeighborhoodsAreExact`; `LabelsAreHopLimited` (two dictionaries keep the supersteps of the components apart), `ConvergedIsComponents`; `ResultIsTheCore`; `EveryMoveHelps` (label propagation: updates in place never cycle); `EveryMoveGains` (Louvain: nor do its moves); `TrianglesAreCountedOnce`; `MassIsPreserved`, `SuperstepsContract` (a change that got small stays small, which is what `converged=True` promises), `KernelsAgree` (sets and arrays, where every vertex repeats all of its edges or none: else they differ, as a repeated edge then weighs more in the arrays than its neighbours); `EveryIterationGains` (k-means gets nearer, also when a cluster loses its members), `EveryStepFits` (gradient descent lowers its error if the rate fits the samples); `ConvergedIsSettled`: `converged=True` of the three clusterings is a fixpoint, of Louvain also a local maximum that survives the renumbering of the result |
| `resume_other_job` | 1 process, 3 jobs, 2 resumes | violation of `ResumedOutputIsOfThisJob`, see 4 |
| `louvain_modularity` | all subsets of 9 edges on 6 vertices | violation of `ReportedIsModularity`, see 4 |

The type invariants are theorems (`TypeCorrect`, `StoreTypeCorrect` in 5) and not
repeated in the runs but for that of the Ray actors, which also says how many actors a run has.

**Bounds.** `MaxCalls`, `MaxCrashes`, `MaxRestarts`, `MaxRuns`, `MaxDeaths` and `MaxPartitions`
are the only counters that are capped (shutdowns are not); `MaxIterations`, `MaxPasses`, `MaxHops`
are parameters of the code. Two of each actor are enough for every hazard
listed: each is a race of two. `Unit` makes PageRank's divisions exact; three
supersteps keep its integers within TLC's range. Three jobs make an order that can be wrong in the
middle; two writes per pickle make a prefix and a mixture; five calls are an
`ensure_bucket`, a save that times out, one that returns, one of another client and a
load. Two connections and a backlog of one let one client wait for the other and be
refused; one more thread is enough to overlap the increments of the server.
A learning rate of 1/2 fits the samples of the instance: with at most two features of at most 1 in magnitude, `Curvature` is at
most three times the number of samples and the premise `RateFits` holds in every state. The edges of the graph instances are chosen so that paths run against the
order of the vertices, the longest path needs more supersteps than some limits
allow, and cycles of even and odd length, loops, two-way edges and negative
cycles occur among the subsets. `CHECK_DEADLOCK FALSE` stands where the system
comes to rest: the loops end, the calls are used up, the scheduler has no job
left.

**Fairness.** Nothing in the repository loops over `run_next`, so no action that
*begins* a call is fair. `FairSpec` of the scheduler only lets a call that has
begun go on (threads are scheduled, plugins bound their loops), and
`EveryJobSettles` states the premise `RunNextKeepsBeingCalled` openly. `FairSpec`
of the Ray module lets Ray place an actor that fits, stop one without a handle,
and lets actors answer; these are promises of Ray. It does not assume that Ray is
fair among drivers for ever: runs are bounded by `MaxRuns`. No run has to begin, no actor to die.
`FairSpec` of the service is fair to `Accept` and to `Handle(r)` for every request: `serve_forever`
never rests while there is a connection, and handlers and plugins end. Clients and
other threads owe nothing. The premise `[]<>~Stalled` of `EverySentRequestSettles` is the one thing the
code needs and does not enforce: that no client keeps its connection open for ever
without a request, since the server reads without a timeout.

## 4. Findings

Two of the runs find a violation, as expected:

- `resume_other_job` — a resume returns the output of another job of the same
  algorithm: the key has no parameters and no data version, which the
  architecture document (`docs/architecture.md:243-251`) puts into the checkpoint.
- `louvain_modularity` — `_modularity` visits neighbouring pairs only, so what is
  maximised and reported as modularity is a larger number (0.5 instead of 0 for
  one edge).

Two more divergences are visible in the actions of `CheckpointedRuntime` and have no run of
their own: `Compute` returns for a `pregel` call without a checkpoint and
without metrics, although the README and `docs/architecture.md` draw both arrows from
Pregel; and `MaybeRaise` goes on to `compute` whatever is in the directory
— `run_with_recovery` never reads its checkpoint store, although the README says
that recovery is based on iteration state.

## 5. The proofs

Each theorem is `Spec => []P` for all values of the constants that satisfy the
named assumptions, unless noted.

- `FifoSchedulerProofs` (any number of jobs, clients, workers; assumes only that
  `NoJob` is no id). The invariant `Inv` adds to the checked properties which
  ids are in whose hands: an id is with exactly one of a client inside
  `submit`, the queue, a worker, or the past. Without it neither "no id is
  appended twice" nor "an ended job is held by nobody" is inductive. From it:
  `TypeCorrect`, `FifoOrder`, `StatusIsTrue`, `HandlesGoStale`, the action
  property `Forward` (a status never moves backwards), and `Refinement`: every step is a step or a stutter of `JobQueue`.
- `FileCheckpointStoreProofs` (any number of processes, keys, states, blocks).
  The strengthening `FileIsPrefix` says of an undamaged file how much of it is
  written, by whom. From it `LoneSaveIsReadBack`, `CrashesNeverMix`.
- `SSSPProofs` (any vertices, any finite dataset of edges with integer weights, any limit). The strengthening relates
  `active`, `next_active` and `distances` within a superstep; from it
  `ActiveIsCurrent`, `NothingForgotten`, `ConvergedRunIsDone`. `DistancesAreAbovePotentials`
  is half of correctness: a distance is never below a feasible
  potential, so with `ConvergedRunIsDone` a converged result is the greatest
  potential, the shortest distance. The other half, `SuperstepsAreHops`, is what a run
  that is cut short may promise: `HopInv` says of every vertex that its distance lies between the
  least over `iterations` edges and the least over one more, and of every edge of an active
  vertex that it has carried its message unless it is still unsent.
- `JobRunnerProofs` (any integers as vertices, any finite dataset for every plugin, all
  parameters; `SamplesAssumption` says that points have as many coordinates as each other and
  samples as many features, `ExactnessAssumption` that divisions leave no remainder). `PluginRuns`
  reduces a step of the job to one of its plugin, under whose hypothesis each has an
  invariant of its own:
  - components: `ComponentsInv`, a vertex visited in a superstep without a change has no
    neighbour with a smaller label, gives `LabelsStay` and `ConvergedRunIsRight`; `ComponentsHopInv` gives
    `SuperstepsAreHops`. `Reach`, what a number of edges reaches, stands for the recursive
    references of components, `bfs` and `k_hop`, which are shown to be it.
  - k-core: `GreatestCore` (no set of minimum degree k loses a member, although a round
    removes many at once), `FewRounds`.
  - `bfs`: `LayerInv` says that the distances are those of `Reach` and which layers are in the
    queue, in what order; from it `QueueHasTwoLayers`, `FirstDistanceIsLeast`. `k_hop`: `SearchesInv` is the
    same for the search of the current source and keeps the results of those before it;
    `SearchesAreExact`.
  - triangle count: `CountInv`, the count is the number of triangles whose least vertex is done;
    `EveryTriangleOnce`.
  - `pagerank`: one superstep is a product with a matrix whose rows sum up to the same
    (`Passed`), for both kernels: `SetScoresAreNext` adds up by neighbours,
    `ArrayScoresAreNext` by positions (`SumMap` says that a sum may be taken over what its terms are
    mapped to). That no score is lost (`NoScoreIsLost`) is the sum of the rows;
    that a small delta stays small (`DeltaStaysSmall`) is `PassedContracts`: such a matrix of natural numbers does not
    enlarge the sum of magnitudes. `KernelsComputeTheSame` compares the two matrices row by row (`SharesAgree`): a vertex that repeats
    all of its edges has twice the positions and twice the degree, and divisions are exact.
  - label propagation and Louvain: `LabelInv` and `LouvainInv` say that vertices visited in a
    pass without a change are settled, and of Louvain that the score carried along is the one of the communities. `UpdatesOnlyHelp` splits
    the agreeing pairs into those with and without the vertex that moves; `MovesOnlyGain`.
  - k-means: `CentersGetNearer` is that the nearest center is nearest and the mean of a cluster has the
    least sum of squares, for which rows and columns of a double sum are
    swapped (`CrossingsCancel`). With `LabelInv` and `LouvainInv`, `FitInv` gives
    `ConvergedRunsAreSettled`.
  - linear regression: `StepsLowerTheError`, for all samples, dimensions and learning rates. The property
    has the premise `RateFits`, since the code accepts every rate and too large a one diverges; it bounds the rate by
    the trace of the second derivatives, and each dataset of the run meets it.
    What a step adds to the squared error is the square of the gradient, once negative and linear in
    the rate (`GradientMeetsErrors`), once positive and quadratic (`GradientIsBounded`, from the inequality of Cauchy and
    Schwarz, `ProductIsBounded`); below the bound the first outweighs the second (`SquaresFall`).
  - `TypeCorrect` for all ten.

  The sums are `SumFunction` of the community modules, which adds in an order that is left
  open; `AddsAgree` and `AddsExists` show that its recursive definition has one solution on
  finite sets, and the rest of the lemmas (`SumRemove`, `SumAdd`, `SumSwap`, ...) what every order has in common.
  Where these proofs need an induction they take the least counterexample, a
  least number or a smallest set (`SmallestSet`), instead of the induction theorems.

- `CheckpointedRuntimeProofs` (any number of processes, jobs, algorithms, blocks, calls and
  crashes; `StoreAssumption` says that the markers of the store are no jobs). `ImplementsStore`:
  every step of a runtime, a crash included, is a step of `FileCheckpointStore` on the four variables
  of the store or leaves them alone, so the theorems of the store, which the module takes as an instance of
  their proofs, hold under the runtimes. The invariant adds to the store's own who holds which
  file (a driver is inside `save` exactly at the write of its call, with its job's
  key), that every block lies in a file of its job's key, and by how much the
  counters of a process lag behind its checkpoints. From it `TypeCorrect`,
  `CountersAgree`, `FinishedRunIsSaved`, and the action property `ResumeReadsItsFile`, for which the invariant
  says that the file a resume has found stays there until it is read, and takes from the store what an
  undamaged file holds.
- `ObjectCheckpointStoreProofs` (any number of clients, objects, outputs). No request removes
  anything, and one that is late puts something; the invariant carries what a client
  was told through its request, the store's reply and its answer. From it `TypeCorrect`,
  `NothingToldIsForgotten`. `ReturnedSaveIsRead` needs `Alone` besides: of a key whose latest save was alone, every PUT on
  its way, late or not, carries what that save wrote.
- `JobServiceProofs` (any number of connections, threads, restarts, any backlog). `TypeCorrect`, which
  includes that the served connection is the only one with a job; `RayComesFirst`, where the
  invariant says that, unless a shutdown has overlapped a run, no shutdown is under way with a run, a thread on its
  way to set the flag has started Ray, and the flag implies Ray but between the two statements of a shutdown; `CountsAreTrue`, where it says which threads are inside an
  increment, with the value they read being current unless the key is marked as overlapped, and
  that a job completed and not yet answered is already counted; `JobsAreAnswered`, where it says
  that a client that has sent nothing has asked for nothing. `ScrapesAreConsistent`, an action property as well
  as a state property, says by how much the
  counter of iterations may be ahead of that of jobs, for a finite set of iteration counts (`IterationsAssumption`).
- `RayActorRuntimeProofs` (finitely many drivers, any GPUs, partitions, runs and deaths, any lists of
  integer lists as datasets, `DatasetsAssumption`). `PlacementInv` says
  that a run in progress has one actor per partition and that the actors in place or being
  stopped fit into the cluster; `OnlyDemandStarves` counts those of all drivers. `AnswersInv` adds
  what a run has got from its actors: the buckets of its own arguments after the first round of answers,
  the count of its own edges after the second. `EdgesReturn` and `TypeCorrect` follow from it with two
  facts about `hash_partition_edges` alone, for every edge list and number of partitions:
  `MergedKeeps` (the concatenated buckets have the edges with each smaller end as often and in the order in
  which they were given: such edges are all in one bucket) and `TotalKeeps` (the lengths of the buckets
  add up). Both go bucket by bucket, over lemmas on `Among`, the members of a sequence that lie in a set
  (`AmongConcat`, `AmongTwice`, `AmongEither`, ...). `Among`, `FlattenSeq` and `TotalEdges` are recursive functions;
  `RecursionExists` shows that what they choose exists. The induction theorems of the library take an
  operator and cannot be cited; `AllNaturals` and `AllSequences` say the same of a set
  and are proved from a least element.

Only model-checked: liveness (`EveryJobSettles`, `FittingRunsEnd`,
`EverySentRequestSettles`), which is outside the prover. All other properties of the passing runs are theorems.

## 6. Not modelled

Floating-point rounding in PageRank, k-means and linear regression, and a tolerance of
k-means that is coarser than the smallest shift; a learning rate that does not fit the
samples, with which gradient descent diverges as it must; the choice of an array library and device; request
signing and URL quoting, the text of metrics, reports and answers, the CLI but for `serve`, and
data loaders (formatting and input); the GPU probe, resource plan and registry
tables (no state); `deploy/`, `scripts/`, `examples/` and the documentation.
`MemoryCheckpointStore` is a dictionary and saves in one step; it is the file
store with one block and no crash. What Ray makes of a job whose Ray is
stopped under it is Ray's to handle, and of calls of `shutdown` one is under way at a time.

## 7. The plan

Done, in this order: scheduler and its abstract queue; file store; runtimes over
it; SSSP; components, k-core, label propagation; BFS, k-hop; Ray actors;
Louvain; object store; triangle count, PageRank, k-means;
the registry on threads and the service; linear regression; the proofs of the scheduler, the
stores, the runtimes over their store and the service; those of the Ray actors' placement; those
of the ten plugins; what the Ray actors give back and the descent of linear regression.

What remains is smaller:

1. `CheckpointedRuntime` over `ObjectCheckpointStore` instead of the file store. The calls are
   the same; a save that times out raises, as `SaveRaises` does.
2. `EveryStepFits` up to the largest eigenvalue instead of the trace: between the two a run on correlated
   features converges and the theorem is silent.
