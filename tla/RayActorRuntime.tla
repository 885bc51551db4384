-------------------------- MODULE RayActorRuntime ---------------------------
(***************************************************************************)
(* RayActorRuntime of backends/ray_actor_runtime.py: several drivers that  *)
(* use one Ray cluster.                                                    *)
(*                                                                         *)
(* A run hashes the edge list into partitions, asks Ray for one actor per  *)
(* partition, waits for the edge lists of all of them, then for their      *)
(* summaries, and runs the plugin on the concatenation.  Creating an actor *)
(* returns at once; Ray places it when num_gpus_per_actor of the GPUs are  *)
(* free and the actor keeps them until the run ends.  The two ray.get have *)
(* no timeout.                                                             *)
(*                                                                         *)
(* Ray itself is external: it places a pending actor of any driver that    *)
(* fits, an actor may die at any time, and an actor nobody refers to any   *)
(* more is stopped later.  GPUs are counted in the unit of which           *)
(* num_gpus_per_actor is a multiple.                                       *)
(***************************************************************************)
EXTENDS Partition, FiniteSetsExt

CONSTANTS
  Drivers,          \* processes with a RayActorRuntime
  Datasets,         \* edge lists a run may be given
  MaxPartitions,    \* bound on the parameter partitions
  Gpus,             \* GPUs of the cluster
  GpusPerActor,     \* num_gpus_per_actor of all drivers
  MaxRuns,          \* bound on the runs of all drivers
  MaxDeaths         \* bound on the actors that die

ASSUME DriversAssumption == IsFiniteSet(Drivers)
ASSUME DatasetsAssumption == Datasets \subseteq Seq(Seq(Int))
ASSUME GpusAssumption == Gpus \in Nat /\ GpusPerActor \in Nat
ASSUME BoundsAssumption ==
  MaxPartitions \in Nat /\ MaxRuns \in Nat /\ MaxDeaths \in Nat

VARIABLES
  pc,               \* where run of each driver is
  data, partitions, \* its arguments
  actors,           \* its workers, in order: the state of each
  leaving,          \* actors without a handle that Ray has not stopped yet
  merged,           \* merged_edges of the last run of each driver
  counted,          \* the metric ray_partition_edges of the last run
  runs,             \* runs begun
  deaths            \* actors that died

vars == <<pc, data, partitions, actors, leaving, merged, counted, runs, deaths>>

\* What an actor has done.  It answers get_edges before summary.
Placed  == {"alive", "gave_edges", "gave_both"}
AllStates == Placed \cup {"pending", "died", "died_after_edges"}
HaveEdges == {"gave_edges", "gave_both", "died_after_edges"}

\* The actors of d in one of the states S.
HasOf(d, S) == Cardinality({i \in DOMAIN actors[d] : actors[d][i] \in S})

AllPlaced ==
  UNION {{<<d, i>> : i \in {j \in DOMAIN actors[d] : actors[d][j] \in Placed}} : d \in Drivers}

Used == GpusPerActor * (leaving + Cardinality(AllPlaced))

Parts(d) == HashPartitionEdges(data[d], partitions[d])

\* The sum of the edges that the summaries give.
TotalEdges(parts) ==
  LET total[n \in 0 .. Len(parts)] ==
        IF n = 0 THEN 0 ELSE total[n - 1] + Len(parts[n])
  IN  total[Len(parts)]

\* run ends, by a return or a raise: the list of workers goes out of scope.
LeaveRun(d) ==
  /\ pc' = [pc EXCEPT ![d] = "idle"]
  /\ actors' = [actors EXCEPT ![d] = <<>>]
  /\ leaving' = leaving + HasOf(d, Placed)

-----------------------------------------------------------------------------
(* Faulty variants of the definitions below.                               *)

\* Each bucket is filled from its front.
FaultyGetEdges(d) ==
  /\ pc[d] = "get_edges"
  /\ \A i \in DOMAIN actors[d] : actors[d][i] \in HaveEdges
  /\ merged' = [merged EXCEPT ![d] =
                  FlattenSeq([i \in DOMAIN Parts(d) |-> Reverse(Parts(d)[i])])]
  /\ pc' = [pc EXCEPT ![d] = "get_summaries"]
  /\ UNCHANGED <<data, partitions, actors, leaving, counted, runs, deaths>>

\* The handles of a run that raised are kept.
FaultyGetRaises(d) ==
  /\ \/ pc[d] = "get_edges" /\ HasOf(d, {"died"}) > 0
     \/ pc[d] = "get_summaries" /\ HasOf(d, {"died", "died_after_edges"}) > 0
  /\ pc' = [pc EXCEPT ![d] = "idle"]
  /\ UNCHANGED <<data, partitions, actors, leaving, merged, counted, runs, deaths>>

\* run asks again after an actor died.
FaultyGetWaits(d) ==
  /\ pc[d] = "get_summaries"
  /\ HasOf(d, {"died", "died_after_edges"}) > 0
  /\ pc' = [pc EXCEPT ![d] = "get_edges"]
  /\ UNCHANGED <<data, partitions, actors, leaving, merged, counted, runs, deaths>>

-----------------------------------------------------------------------------
Init ==
  /\ pc = [d \in Drivers |-> "idle"]
  /\ data = [d \in Drivers |-> <<>>]
  /\ partitions = [d \in Drivers |-> 0]
  /\ actors = [d \in Drivers |-> <<>>]
  /\ leaving = 0
  /\ merged = [d \in Drivers |-> <<>>]
  /\ counted = [d \in Drivers |-> 0]
  /\ runs = 0
  /\ deaths = 0

\* One actor per partition and both requests to each: none of this waits.  An
\* edge list that does not unpack makes run raise before the first actor.
BeginRun(d) ==
  /\ pc[d] = "idle"
  /\ runs < MaxRuns
  /\ \E edges \in Datasets, p \in 1 .. MaxPartitions :
       /\ Unpacks(edges)
       /\ data' = [data EXCEPT ![d] = edges]
       /\ partitions' = [partitions EXCEPT ![d] = p]
       /\ actors' = [actors EXCEPT ![d] = [i \in 1 .. p |-> "pending"]]
  /\ pc' = [pc EXCEPT ![d] = "get_edges"]
  /\ runs' = runs + 1
  /\ UNCHANGED <<leaving, merged, counted, deaths>>

\* Ray, of the pending actors that fit, places any; free ones always fit.
Place(d) ==
  /\ Used + GpusPerActor <= Gpus
  /\ \E i \in DOMAIN actors[d] :
       /\ actors[d][i] = "pending"
       /\ actors' = [actors EXCEPT ![d][i] = "alive"]
  /\ UNCHANGED <<pc, data, partitions, leaving, merged, counted, runs, deaths>>

Answer(d) ==
  /\ \E i \in DOMAIN actors[d] :
       \/ /\ actors[d][i] = "alive"
          /\ actors' = [actors EXCEPT ![d][i] = "gave_edges"]
       \/ /\ actors[d][i] = "gave_edges"
          /\ actors' = [actors EXCEPT ![d][i] = "gave_both"]
  /\ UNCHANGED <<pc, data, partitions, leaving, merged, counted, runs, deaths>>

\* An actor that has answered both requests may die too: nobody would notice.
ActorDies(d) ==
  /\ deaths < MaxDeaths
  /\ \E i \in DOMAIN actors[d] :
       \/ /\ actors[d][i] = "alive"
          /\ actors' = [actors EXCEPT ![d][i] = "died"]
       \/ /\ actors[d][i] = "gave_edges"
          /\ actors' = [actors EXCEPT ![d][i] = "died_after_edges"]
  /\ deaths' = deaths + 1
  /\ UNCHANGED <<pc, data, partitions, leaving, merged, counted, runs>>

\* ray.get gives the answers in the order of the references.
GetEdges(d) ==
  /\ pc[d] = "get_edges"
  /\ \A i \in DOMAIN actors[d] : actors[d][i] \in HaveEdges
  /\ merged' = [merged EXCEPT ![d] = FlattenSeq(Parts(d))]
  /\ pc' = [pc EXCEPT ![d] = "get_summaries"]
  /\ UNCHANGED <<data, partitions, actors, leaving, counted, runs, deaths>>

GetSummaries(d) ==
  /\ pc[d] = "get_summaries"
  /\ \A i \in DOMAIN actors[d] : actors[d][i] = "gave_both"
  /\ counted' = [counted EXCEPT ![d] = TotalEdges(Parts(d))]
  /\ pc' = [pc EXCEPT ![d] = "local"]
  /\ UNCHANGED <<data, partitions, actors, leaving, merged, runs, deaths>>

\* ray.get raises for an actor that died before it answered.
GetRaises(d) ==
  /\ \/ pc[d] = "get_edges" /\ HasOf(d, {"died"}) > 0
     \/ pc[d] = "get_summaries" /\ HasOf(d, {"died", "died_after_edges"}) > 0
  /\ LeaveRun(d)
  /\ UNCHANGED <<data, partitions, merged, counted, runs, deaths>>

\* self.local.run and the rest of run; it may raise.
RunLocal(d) ==
  /\ pc[d] = "local"
  /\ LeaveRun(d)
  /\ UNCHANGED <<data, partitions, merged, counted, runs, deaths>>

\* Ray stops an actor to which no handle is left.
Reap ==
  /\ leaving > 0
  /\ leaving' = leaving - 1
  /\ UNCHANGED <<pc, data, partitions, actors, merged, counted, runs, deaths>>

InsideRun(d) == GetEdges(d) \/ GetSummaries(d) \/ GetRaises(d) \/ RunLocal(d)

Next ==
  \/ \E d \in Drivers : BeginRun(d) \/ Place(d) \/ Answer(d) \/ ActorDies(d) \/ InsideRun(d)
  \/ Reap

Spec == Init /\ [][Next]_vars

\* Ray places what fits and stops what nobody holds, its actors answer, and a
\* run goes on when it can.  No run has to begin and no actor has to die.
FairSpec ==
  /\ Spec
  /\ WF_vars(Reap)
  /\ \A d \in Drivers :
       WF_vars(Place(d)) /\ WF_vars(Answer(d)) /\ WF_vars(InsideRun(d))

-----------------------------------------------------------------------------
Running == {d \in Drivers : pc[d] # "idle"}

\* What the runs in progress hold or still need.
Demand == GpusPerActor * Cardinality(
  {s \in Drivers \X (1 .. MaxPartitions) : s[1] \in Running /\ s[2] <= partitions[s[1]]})

Overbooked == Demand > Gpus

\* The variables have their types, only a run in progress has actors, one for
\* each partition, and the actors in place fit into the cluster.
TypeOK ==
  /\ pc \in [Drivers -> {"idle", "get_edges", "get_summaries", "local"}]
  /\ data \in [Drivers -> Datasets \cup {<<>>}]
  /\ partitions \in [Drivers -> 0 .. MaxPartitions]
  /\ \A d \in Drivers :
       actors[d] \in [1 .. (IF d \in Running THEN partitions[d] ELSE 0) -> AllStates]
  /\ leaving \in Nat
  /\ Used <= Gpus
  /\ \A d \in Drivers : counted[d] \in Nat
  /\ runs \in 0 .. MaxRuns
  /\ deaths \in 0 .. MaxDeaths

FromSmaller(edges, v) == Among(edges, {e \in Range(edges) : Smaller(e) = v})

\* The edge list the plugin gets back from the actors is the one the caller
\* gave but for the order of the buckets: the edges with the same smaller end
\* are all there, as often, in the order of the caller, and the metric
\* ray_partition_edges, from the second round of answers, counts all of them.
EdgesComeBack ==
  \A d \in Drivers : pc[d] \in {"get_summaries", "local"} =>
    /\ pc[d] = "local" => counted[d] = Len(data[d])
    /\ \A v \in {Smaller(data[d][i]) : i \in DOMAIN data[d]}
                  \cup {Smaller(merged[d][i]) : i \in DOMAIN merged[d]} :
         FromSmaller(merged[d], v) = FromSmaller(data[d], v)

\* Runs wait for an actor that cannot be placed only if together they want
\* more than the cluster has: no run that has ended, not even by a raise,
\* keeps a GPU for good.
StarvedOnlyByDemand ==
  (/\ leaving = 0
   /\ Used + GpusPerActor > Gpus
   /\ \E d \in Drivers : HasOf(d, {"pending"}) > 0) => Overbooked

EndedOrOverbooked(d) == d \notin Running \/ Overbooked

\* A run returns or raises, unless it meets another run with which it does not
\* fit into the cluster: two such runs may hold what the other waits for.
FittingRunsEnd == \A d \in Drivers : (d \in Running) ~> EndedOrOverbooked(d)
=============================================================================
