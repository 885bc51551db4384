------------------------ MODULE RayActorRuntimeProofs ------------------------
(***************************************************************************)
(* Theorems about RayActorRuntime, for any drivers, datasets, bounds and   *)
(* GPUs.                                                                   *)
(*                                                                         *)
(* The actors in place are counted one driver at a time: a step changes    *)
(* those of one driver, and AllPlaced is the disjoint union of what all    *)
(* drivers have in place.                                                  *)
(*                                                                         *)
(* What the actors give back is followed bucket by bucket.  Among, the     *)
(* concatenation of the buckets and the sum of their lengths are functions *)
(* defined by recursion: that they exist and what they are comes from      *)
(* induction over numbers and over sequences, both from                    *)
(* WellFoundedInduction, stated for sets instead of predicates.            *)
(***************************************************************************)
EXTENDS RayActorRuntime, FiniteSetTheorems, SequenceTheorems, WellFoundedInduction, TLAPS

\* The actors that a driver may have, and those that count as placed.
Slots == Drivers \X (1 .. MaxPartitions)

InPlace(d) == {i \in DOMAIN actors[d] : actors[d][i] \in Placed}

\* The inductive invariant: types, one actor for each partition of a run in
\* progress and none of another, and no more actors in place than GPUs.
PlacementInv ==
  /\ pc \in [Drivers -> {"idle", "get_edges", "get_summaries", "local"}]
  /\ data \in [Drivers -> Datasets \cup {<<>>}]
  /\ partitions \in [Drivers -> 0 .. MaxPartitions]
  /\ actors \in [Drivers -> Seq(AllStates)]
  /\ \A d \in Drivers : Len(actors[d]) = IF d \in Running THEN partitions[d] ELSE 0
  /\ leaving \in Nat
  /\ Used <= Gpus
  /\ runs \in 0 .. MaxRuns
  /\ deaths \in 0 .. MaxDeaths

\* A multiple grows with its factor.
LEMMA MoreTimes ==
  ASSUME NEW m \in Nat, NEW n \in Nat, m <= n
  PROVE  /\ GpusPerActor * m \in Nat
         /\ GpusPerActor * m <= GpusPerActor * n
         /\ GpusPerActor * (m + 1) = GpusPerActor * m + GpusPerActor
PROOF
  <1>1. GpusPerActor \in Nat
    BY GpusAssumption
  <1>2. n = m + (n - m) /\ n - m \in Nat
    OBVIOUS
  <1>3. GpusPerActor * (m + (n - m)) = GpusPerActor * m + GpusPerActor * (n - m)
    BY <1>1, <1>2
  <1>4. GpusPerActor * m \in Nat /\ GpusPerActor * (n - m) \in Nat
    BY <1>1, <1>2
  <1> QED
    BY <1>1, <1>2, <1>3, <1>4

\* What the actors in place are, and that they are finitely many.
LEMMA PlacedActors ==
  ASSUME PlacementInv
  PROVE  /\ IsFiniteSet(Slots)
         /\ AllPlaced \subseteq Slots /\ IsFiniteSet(AllPlaced) /\ Cardinality(AllPlaced) \in Nat
         /\ \A d, i : <<d, i>> \in AllPlaced <=> d \in Drivers /\ i \in InPlace(d)
         /\ \A d \in Drivers :
              /\ DOMAIN actors[d] = 1 .. Len(actors[d])
              /\ DOMAIN actors[d] \subseteq 1 .. MaxPartitions
              /\ IsFiniteSet(InPlace(d)) /\ Cardinality(InPlace(d)) \in Nat
PROOF
  <1>1. IsFiniteSet(Slots)
    <2>1. IsFiniteSet(1 .. MaxPartitions)
      BY BoundsAssumption, FS_Interval
    <2> QED
      BY <2>1, DriversAssumption, FS_Product DEF Slots
  <1>2. ASSUME NEW d \in Drivers
        PROVE  /\ DOMAIN actors[d] = 1 .. Len(actors[d])
               /\ DOMAIN actors[d] \subseteq 1 .. MaxPartitions
               /\ IsFiniteSet(InPlace(d)) /\ Cardinality(InPlace(d)) \in Nat
    <2>1. actors[d] \in Seq(AllStates) /\ partitions[d] \in 0 .. MaxPartitions
          /\ Len(actors[d]) = IF d \in Running THEN partitions[d] ELSE 0
      BY DEF PlacementInv
    <2> DEFINE l == Len(actors[d])
    <2>2. DOMAIN actors[d] = 1 .. l /\ l \in Nat
      BY <2>1
    <2>3. l <= MaxPartitions
      BY <2>1, <2>2, BoundsAssumption
    <2> HIDE DEF l
    <2>4. 1 .. l \subseteq 1 .. MaxPartitions
      BY <2>2, <2>3, BoundsAssumption
    <2>5. IsFiniteSet(1 .. l)
      BY <2>2, FS_Interval
    <2>6. IsFiniteSet(InPlace(d))
      BY <2>2, <2>5, FS_Subset DEF InPlace
    <2> QED
      BY <2>2, <2>4, <2>6, FS_CardinalityType DEF l
  <1>3. \A d, i : <<d, i>> \in AllPlaced <=> d \in Drivers /\ i \in InPlace(d)
    BY DEF AllPlaced, InPlace
  <1>4. AllPlaced \subseteq Slots
    BY <1>2 DEF AllPlaced, Slots
  <1> QED
    BY <1>1, <1>2, <1>3, <1>4, FS_Subset, FS_CardinalityType

\* A step that changes the actors of d leaves those of the others in place.
LEMMA OthersStay ==
  ASSUME NEW d \in Drivers, \A e \in Drivers \ {d} : actors'[e] = actors[e]
  PROVE  /\ \A i : <<d, i>> \in AllPlaced' <=> i \in InPlace(d)'
         /\ \A e, i : e # d => (<<e, i>> \in AllPlaced' <=> <<e, i>> \in AllPlaced)
BY DEF AllPlaced, InPlace

LEMMA PlacedArePairs ==
  \A s : (s \in AllPlaced \/ s \in AllPlaced') => s = <<s[1], s[2]>>
BY DEF AllPlaced

\* Steps after which no more actors are in place or about to be stopped keep
\* within the cluster.
LEMMA NoMoreUsed ==
  ASSUME PlacementInv, leaving' \in Nat, IsFiniteSet(AllPlaced'),
         leaving' + Cardinality(AllPlaced') <= leaving + Cardinality(AllPlaced)
  PROVE  (Used <= Gpus)'
PROOF
  <1> DEFINE old == leaving + Cardinality(AllPlaced)
             new == leaving' + Cardinality(AllPlaced')
  <1>1. old \in Nat /\ new \in Nat /\ new <= old
    BY PlacedActors, FS_CardinalityType DEF PlacementInv
  <1>2. GpusPerActor * old <= Gpus
    BY DEF PlacementInv, Used
  <1> HIDE DEF old, new
  <1>3. GpusPerActor * new <= GpusPerActor * old /\ GpusPerActor * new \in Nat
        /\ GpusPerActor * old \in Nat
    BY <1>1, MoreTimes
  <1>4. GpusPerActor * new <= Gpus
    BY <1>2, <1>3, GpusAssumption
  <1> QED
    BY <1>4 DEF new, Used

LEMMA PlacementInitInv == Init => PlacementInv
PROOF
  <1> SUFFICES ASSUME Init PROVE PlacementInv
    OBVIOUS
  <1>1. AllPlaced = {}
    BY DEF Init, AllPlaced
  <1>2. Used = GpusPerActor * 0 /\ GpusPerActor * 0 = 0
    BY <1>1, FS_EmptySet, GpusAssumption DEF Used, Init
  <1>3. Used <= Gpus
    BY <1>2, GpusAssumption
  <1>4. Running = {}
    BY DEF Running, Init
  <1>5. actors \in [Drivers -> Seq(AllStates)] /\ \A d \in Drivers : Len(actors[d]) = 0
    BY DEF Init
  <1> QED
    BY <1>3, <1>4, <1>5, BoundsAssumption DEF Init, PlacementInv

LEMMA BeginRunInv ==
  ASSUME PlacementInv, NEW d \in Drivers, BeginRun(d)
  PROVE  PlacementInv'
PROOF
  <1>1. PICK edges \in Datasets, p \in 1 .. MaxPartitions :
          /\ data' = [data EXCEPT ![d] = edges]
          /\ partitions' = [partitions EXCEPT ![d] = p]
          /\ actors' = [actors EXCEPT ![d] = [i \in 1 .. p |-> "pending"]]
    BY DEF BeginRun
  <1>2. /\ pc' = [pc EXCEPT ![d] = "get_edges"] /\ pc[d] = "idle" /\ runs' = runs + 1
        /\ runs < MaxRuns /\ UNCHANGED <<leaving, merged, counted, deaths>>
    BY DEF BeginRun
  <1> DEFINE new == [i \in 1 .. p |-> "pending"]
  <1>3. new \in Seq(AllStates) /\ Len(new) = p /\ DOMAIN new = 1 .. p
        /\ \A i \in 1 .. p : new[i] \notin Placed
    BY BoundsAssumption DEF AllStates, Placed
  <1> HIDE DEF new
  <1>4. /\ actors' \in [Drivers -> Seq(AllStates)] /\ actors'[d] = new
        /\ \A e \in Drivers \ {d} : actors'[e] = actors[e]
    BY <1>1, <1>3 DEF PlacementInv, new
  <1>5. \A e \in Drivers : Len(actors'[e]) = IF e \in Running' THEN partitions'[e] ELSE 0
    BY <1>1, <1>2, <1>3, <1>4 DEF PlacementInv, Running
  <1>6. AllPlaced' = AllPlaced
    <2>1. InPlace(d)' = {}
      BY <1>3, <1>4 DEF InPlace
    <2>2. InPlace(d) = {}
      <3>1. Len(actors[d]) = 0 /\ DOMAIN actors[d] = 1 .. Len(actors[d])
        BY <1>2, PlacedActors DEF PlacementInv, Running
      <3> QED
        BY <3>1 DEF InPlace
    <2>3. \A e, i : <<e, i>> \in AllPlaced' <=> <<e, i>> \in AllPlaced
      BY <1>4, <2>1, <2>2, OthersStay, PlacedActors
    <2> QED
      BY <2>3, PlacedArePairs
  <1>7. (Used <= Gpus)'
    BY <1>2, <1>6 DEF Used, PlacementInv
  <1> QED
    BY <1>1, <1>2, <1>4, <1>5, <1>7, BoundsAssumption DEF PlacementInv

\* A step that puts another state into the place of one actor of d.
LEMMA OneActorChanges ==
  ASSUME PlacementInv, NEW d \in Drivers, NEW i \in DOMAIN actors[d],
         NEW state \in AllStates, actors' = [actors EXCEPT ![d][i] = state],
         UNCHANGED <<pc, partitions>>
  PROVE  /\ actors' \in [Drivers -> Seq(AllStates)]
         /\ \A e \in Drivers : Len(actors'[e]) = IF e \in Running' THEN partitions'[e] ELSE 0
         /\ state \in Placed => AllPlaced' = AllPlaced \cup {<<d, i>>}
         /\ state \notin Placed => AllPlaced' = AllPlaced \ {<<d, i>>}
PROOF
  <1> DEFINE new == [actors[d] EXCEPT ![i] = state]
  <1>1. actors[d] \in Seq(AllStates)
    BY DEF PlacementInv
  <1>2. /\ new \in Seq(AllStates) /\ Len(new) = Len(actors[d])
        /\ DOMAIN new = DOMAIN actors[d] /\ new[i] = state
        /\ \A j \in DOMAIN actors[d] : j # i => new[j] = actors[d][j]
    BY <1>1
  <1> HIDE DEF new
  <1>3. /\ actors' \in [Drivers -> Seq(AllStates)] /\ actors'[d] = new
        /\ \A e \in Drivers \ {d} : actors'[e] = actors[e]
    BY <1>2 DEF PlacementInv, new
  <1>4. \A e \in Drivers : Len(actors'[e]) = IF e \in Running' THEN partitions'[e] ELSE 0
    BY <1>2, <1>3 DEF PlacementInv, Running
  <1>5. \A j : j # i => (j \in InPlace(d)' <=> j \in InPlace(d))
    BY <1>2, <1>3 DEF InPlace
  <1>6. i \in InPlace(d)' <=> state \in Placed
    BY <1>2, <1>3 DEF InPlace
  <1>7. \A j : /\ <<d, j>> \in AllPlaced' <=> j \in InPlace(d)'
               /\ <<d, j>> \in AllPlaced <=> j \in InPlace(d)
    BY <1>3, OthersStay, PlacedActors
  <1>8. \A e, j : e # d => (<<e, j>> \in AllPlaced' <=> <<e, j>> \in AllPlaced)
    BY <1>3, OthersStay
  <1>9. \A e, j : <<e, j>> \in AllPlaced' <=>
                    IF e = d /\ j = i THEN state \in Placed ELSE <<e, j>> \in AllPlaced
    BY <1>5, <1>6, <1>7, <1>8
  <1>10. state \in Placed => AllPlaced' = AllPlaced \cup {<<d, i>>}
    BY <1>9, PlacedArePairs
  <1>11. state \notin Placed => AllPlaced' = AllPlaced \ {<<d, i>>}
    BY <1>9, PlacedArePairs
  <1> QED
    BY <1>3, <1>4, <1>10, <1>11

LEMMA PlaceInv ==
  ASSUME PlacementInv, NEW d \in Drivers, Place(d)
  PROVE  PlacementInv'
PROOF
  <1>1. PICK i \in DOMAIN actors[d] :
          actors[d][i] = "pending" /\ actors' = [actors EXCEPT ![d][i] = "alive"]
    BY DEF Place
  <1>2. /\ UNCHANGED <<pc, data, partitions, leaving, merged, counted, runs, deaths>>
        /\ Used + GpusPerActor <= Gpus
    BY DEF Place
  <1>3. "alive" \in AllStates /\ "alive" \in Placed
    BY DEF AllStates, Placed
  <1>4. /\ actors' \in [Drivers -> Seq(AllStates)]
        /\ \A e \in Drivers : Len(actors'[e]) = IF e \in Running' THEN partitions'[e] ELSE 0
        /\ AllPlaced' = AllPlaced \cup {<<d, i>>}
    BY <1>1, <1>2, <1>3, OneActorChanges
  <1>5. /\ IsFiniteSet(AllPlaced') /\ Cardinality(AllPlaced') \in Nat
        /\ Cardinality(AllPlaced') <= Cardinality(AllPlaced) + 1
    <2> DEFINE grown == AllPlaced \cup {<<d, i>>}
    <2>1. IsFiniteSet(AllPlaced) /\ Cardinality(AllPlaced) \in Nat
      BY PlacedActors
    <2>2. /\ IsFiniteSet(grown)
          /\ Cardinality(grown) = Cardinality(AllPlaced) \/ Cardinality(grown) = Cardinality(AllPlaced) + 1
      BY <2>1, FS_AddElement
    <2>3. AllPlaced' = grown
      BY <1>4
    <2> HIDE DEF grown
    <2> QED
      BY <2>1, <2>2, <2>3
  <1>6. (Used <= Gpus)'
    <2> DEFINE old == leaving + Cardinality(AllPlaced)
               new == leaving' + Cardinality(AllPlaced')
    <2>1. old \in Nat /\ new \in Nat /\ new <= old + 1
      <3>1. leaving \in Nat /\ leaving' = leaving
        BY <1>2 DEF PlacementInv
      <3>2. Cardinality(AllPlaced) \in Nat
        BY PlacedActors
      <3> QED
        BY <1>5, <3>1, <3>2
    <2>2. GpusPerActor * old + GpusPerActor <= Gpus
      BY <1>2 DEF Used
    <2>3. Used' = GpusPerActor * new
      BY DEF Used
    <2> HIDE DEF old, new
    <2>4. GpusPerActor * (old + 1) = GpusPerActor * old + GpusPerActor
      BY <2>1, MoreTimes
    <2>5. GpusPerActor * new <= GpusPerActor * (old + 1)
      BY <2>1, MoreTimes
    <2>6. GpusPerActor * new \in Nat /\ GpusPerActor * old \in Nat /\ GpusPerActor \in Nat
      BY <2>1, MoreTimes, GpusAssumption
    <2> QED
      BY <2>2, <2>3, <2>4, <2>5, <2>6, GpusAssumption
  <1> QED
    BY <1>2, <1>4, <1>6 DEF PlacementInv

LEMMA AnswerInv ==
  ASSUME PlacementInv, NEW d \in Drivers, Answer(d)
  PROVE  PlacementInv'
PROOF
  <1>1. UNCHANGED <<pc, data, partitions, leaving, merged, counted, runs, deaths>>
    BY DEF Answer
  <1>2. PICK i \in DOMAIN actors[d], state \in {"gave_edges", "gave_both"} :
          actors[d][i] \in Placed /\ actors' = [actors EXCEPT ![d][i] = state]
    BY DEF Answer, Placed
  <1>3. state \in AllStates /\ state \in Placed
    BY DEF AllStates, Placed
  <1>4. /\ actors' \in [Drivers -> Seq(AllStates)]
        /\ \A e \in Drivers : Len(actors'[e]) = IF e \in Running' THEN partitions'[e] ELSE 0
        /\ AllPlaced' = AllPlaced \cup {<<d, i>>}
    BY <1>1, <1>2, <1>3, OneActorChanges
  <1>5. AllPlaced' = AllPlaced
    BY <1>2, <1>4, PlacedActors DEF InPlace
  <1>6. (Used <= Gpus)'
    BY <1>1, <1>5 DEF Used, PlacementInv
  <1> QED
    BY <1>1, <1>4, <1>6 DEF PlacementInv

LEMMA ActorDiesInv ==
  ASSUME PlacementInv, NEW d \in Drivers, ActorDies(d)
  PROVE  PlacementInv'
PROOF
  <1>1. /\ UNCHANGED <<pc, data, partitions, leaving, merged, counted, runs>>
        /\ deaths < MaxDeaths /\ deaths' = deaths + 1
    BY DEF ActorDies
  <1>2. PICK i \in DOMAIN actors[d], state \in {"died", "died_after_edges"} :
          actors' = [actors EXCEPT ![d][i] = state]
    BY DEF ActorDies
  <1>3. state \in AllStates /\ state \notin Placed
    BY DEF AllStates, Placed
  <1>4. /\ actors' \in [Drivers -> Seq(AllStates)]
        /\ \A e \in Drivers : Len(actors'[e]) = IF e \in Running' THEN partitions'[e] ELSE 0
        /\ AllPlaced' = AllPlaced \ {<<d, i>>}
    BY <1>1, <1>2, <1>3, OneActorChanges
  <1>5. /\ IsFiniteSet(AllPlaced') /\ Cardinality(AllPlaced') \in Nat
        /\ Cardinality(AllPlaced') <= Cardinality(AllPlaced)
    BY <1>4, PlacedActors, FS_Subset, FS_CardinalityType
  <1>6. (Used <= Gpus)'
    BY <1>1, <1>5, PlacedActors, NoMoreUsed DEF PlacementInv
  <1> QED
    BY <1>1, <1>4, <1>6, BoundsAssumption DEF PlacementInv

\* The actors that a run leaves behind are those that Ray has to stop.
LEMMA LeaveRunInv ==
  ASSUME PlacementInv, NEW d \in Drivers, LeaveRun(d),
         UNCHANGED <<data, partitions, runs, deaths>>
  PROVE  PlacementInv'
PROOF
  <1>1. /\ pc' = [pc EXCEPT ![d] = "idle"] /\ actors' = [actors EXCEPT ![d] = <<>>]
        /\ leaving' = leaving + Cardinality(InPlace(d))
    BY DEF LeaveRun, HasOf, InPlace
  <1>2. /\ actors' \in [Drivers -> Seq(AllStates)] /\ actors'[d] = <<>>
        /\ \A e \in Drivers \ {d} : actors'[e] = actors[e]
    BY <1>1 DEF PlacementInv
  <1>3. \A e \in Drivers : Len(actors'[e]) = IF e \in Running' THEN partitions'[e] ELSE 0
    BY <1>1, <1>2 DEF PlacementInv, Running
  <1> DEFINE left == {d} \X InPlace(d)
  <1>4. /\ IsFiniteSet(left) /\ Cardinality(left) = Cardinality(InPlace(d))
        /\ Cardinality(InPlace(d)) \in Nat
    <2>1. IsFiniteSet({d}) /\ Cardinality({d}) = 1
      BY FS_Singleton
    <2>2. IsFiniteSet(InPlace(d)) /\ Cardinality(InPlace(d)) \in Nat
      BY PlacedActors
    <2>3. /\ IsFiniteSet({d} \X InPlace(d))
          /\ Cardinality({d} \X InPlace(d)) = Cardinality({d}) * Cardinality(InPlace(d))
      BY <2>1, <2>2, FS_Product
    <2> QED
      BY <2>1, <2>2, <2>3
  <1>5. AllPlaced = AllPlaced' \cup left /\ AllPlaced' \cap left = {}
    <2>1. \A i : /\ <<d, i>> \notin AllPlaced'
                 /\ <<d, i>> \in AllPlaced <=> i \in InPlace(d)
      BY <1>2, OthersStay, PlacedActors DEF InPlace
    <2>2. \A e, i : e # d => (<<e, i>> \in AllPlaced' <=> <<e, i>> \in AllPlaced)
      BY <1>2, OthersStay
    <2>3. \A e, i : <<e, i>> \in left <=> e = d /\ i \in InPlace(d)
      OBVIOUS
    <2>4. \A s \in left : s = <<s[1], s[2]>>
      OBVIOUS
    <2> HIDE DEF left
    <2>5. \A e, i : /\ <<e, i>> \in AllPlaced <=> <<e, i>> \in AllPlaced' \/ <<e, i>> \in left
                    /\ ~(<<e, i>> \in AllPlaced' /\ <<e, i>> \in left)
      BY <2>1, <2>2, <2>3
    <2> QED
      BY <2>4, <2>5, PlacedArePairs
  <1>6. IsFiniteSet(AllPlaced') /\ Cardinality(AllPlaced') \in Nat
    BY <1>5, PlacedActors, FS_Subset, FS_CardinalityType
  <1>7. Cardinality(AllPlaced) = Cardinality(AllPlaced') + Cardinality(InPlace(d))
    <2> HIDE DEF left
    <2>1. Cardinality(AllPlaced' \cup left) =
            Cardinality(AllPlaced') + Cardinality(left) - Cardinality(AllPlaced' \cap left)
      BY <1>4, <1>6, FS_Union
    <2>2. Cardinality(AllPlaced' \cap left) = 0
      BY <1>5, FS_EmptySet
    <2>3. Cardinality(AllPlaced' \cup left) = Cardinality(AllPlaced)
      BY <1>5
    <2> QED
      BY <1>4, <1>6, <2>1, <2>2, <2>3
  <1>8. leaving' \in Nat /\ leaving' + Cardinality(AllPlaced') = leaving + Cardinality(AllPlaced)
    BY <1>1, <1>4, <1>6, <1>7 DEF PlacementInv
  <1>9. (Used <= Gpus)'
    BY <1>6, <1>8, PlacedActors, NoMoreUsed DEF PlacementInv
  <1> QED
    BY <1>1, <1>2, <1>3, <1>8, <1>9 DEF PlacementInv

THEOREM Placement == Spec => []PlacementInv
PROOF
  <1>1. PlacementInv /\ [Next]_vars => PlacementInv'
    <2> SUFFICES ASSUME PlacementInv, [Next]_vars PROVE PlacementInv'
      OBVIOUS
    <2>1. CASE UNCHANGED vars
      BY <2>1 DEF vars, PlacementInv, Running, Used, AllPlaced
    <2>2. ASSUME NEW d \in Drivers, BeginRun(d) \/ Place(d) \/ Answer(d) \/ ActorDies(d)
          PROVE  PlacementInv'
      BY <2>2, BeginRunInv, PlaceInv, AnswerInv, ActorDiesInv
    <2>3. ASSUME NEW d \in Drivers, GetEdges(d) \/ GetSummaries(d)
          PROVE  PlacementInv'
      <3>1. /\ UNCHANGED <<data, partitions, actors, leaving, runs, deaths>>
            /\ pc[d] # "idle"
            /\ pc' = [pc EXCEPT ![d] = "get_summaries"] \/ pc' = [pc EXCEPT ![d] = "local"]
        BY <2>3 DEF GetEdges, GetSummaries
      <3>2. pc' \in [Drivers -> {"idle", "get_edges", "get_summaries", "local"}]
        BY <3>1 DEF PlacementInv
      <3>3. Running' = Running
        BY <3>1 DEF Running, PlacementInv
      <3>4. Used' = Used
        BY <3>1 DEF Used, AllPlaced
      <3> QED
        BY <3>1, <3>2, <3>3, <3>4 DEF PlacementInv
    <2>4. ASSUME NEW d \in Drivers, GetRaises(d) \/ RunLocal(d)
          PROVE  PlacementInv'
      BY <2>4, LeaveRunInv DEF GetRaises, RunLocal
    <2>5. CASE Reap
      <3>1. /\ UNCHANGED <<pc, data, partitions, actors, merged, counted, runs, deaths>>
            /\ leaving' \in Nat /\ leaving' <= leaving
        BY <2>5 DEF Reap, PlacementInv
      <3>2. AllPlaced' = AllPlaced /\ Running' = Running
        BY <3>1 DEF AllPlaced, Running
      <3>3. (Used <= Gpus)'
        BY <3>1, <3>2, PlacedActors, NoMoreUsed DEF PlacementInv
      <3> QED
        BY <3>1, <3>2, <3>3 DEF PlacementInv
    <2> QED
      BY <2>1, <2>2, <2>3, <2>4, <2>5 DEF Next, InsideRun
  <1> QED
    BY <1>1, PlacementInitInv, PTL DEF Spec

\* Nothing that has ended starves a run: an actor that does not fit, when no
\* actor is about to be stopped, waits for runs that want more than there is.
THEOREM OnlyDemandStarves == Spec => []StarvedOnlyByDemand
PROOF
  <1> DEFINE Wanted == {s \in Drivers \X (1 .. MaxPartitions) :
                          s[1] \in Running /\ s[2] <= partitions[s[1]]}
  <1>1. PlacementInv => StarvedOnlyByDemand
    <2> SUFFICES ASSUME PlacementInv, leaving = 0, Used + GpusPerActor > Gpus,
                        NEW d \in Drivers, HasOf(d, {"pending"}) > 0
                 PROVE  Demand > Gpus
      BY DEF StarvedOnlyByDemand, Overbooked
    <2>1. PICK i \in DOMAIN actors[d] : actors[d][i] = "pending"
      <3>1. {i \in DOMAIN actors[d] : actors[d][i] \in {"pending"}} # {}
        BY FS_EmptySet DEF HasOf
      <3> QED
        BY <3>1
    <2>2. ASSUME NEW e \in Drivers, NEW j \in DOMAIN actors[e]
          PROVE  <<e, j>> \in Wanted
      <3>1. /\ Len(actors[e]) = IF e \in Running THEN partitions[e] ELSE 0
            /\ DOMAIN actors[e] = 1 .. Len(actors[e]) /\ DOMAIN actors[e] \subseteq 1 .. MaxPartitions
        BY PlacedActors DEF PlacementInv
      <3>2. e \in Running /\ j <= partitions[e] /\ j \in 1 .. MaxPartitions
        BY <3>1
      <3> QED
        BY <3>2
    <2>3. <<d, i>> \notin AllPlaced
      <3>1. "pending" \notin Placed
        BY DEF Placed
      <3> QED
        BY <2>1, <3>1, PlacedActors DEF InPlace
    <2>4. AllPlaced \cup {<<d, i>>} \subseteq Wanted
      <3>1. \A e, j : <<e, j>> \in AllPlaced => <<e, j>> \in Wanted
        BY <2>2, PlacedActors DEF InPlace
      <3> HIDE DEF Wanted
      <3> QED
        BY <2>1, <2>2, <3>1, PlacedArePairs
    <2>5. IsFiniteSet(Wanted) /\ Cardinality(Wanted) \in Nat
      <3>1. Wanted \subseteq Slots
        BY DEF Slots
      <3> HIDE DEF Wanted
      <3> QED
        BY <3>1, PlacedActors, FS_Subset, FS_CardinalityType
    <2> HIDE DEF Wanted
    <2>6. Cardinality(AllPlaced) + 1 <= Cardinality(Wanted) /\ Cardinality(AllPlaced) \in Nat
      <3>1. Cardinality(AllPlaced \cup {<<d, i>>}) = Cardinality(AllPlaced) + 1
        BY <2>3, PlacedActors, FS_AddElement
      <3>2. Cardinality(AllPlaced \cup {<<d, i>>}) <= Cardinality(Wanted)
        BY <2>4, <2>5, FS_Subset
      <3> QED
        BY <3>1, <3>2, PlacedActors
    <2> DEFINE n == Cardinality(AllPlaced)
               w == Cardinality(Wanted)
    <2>7. Demand = GpusPerActor * w
      BY DEF Demand, Wanted
    <2>8. Used = GpusPerActor * n
      <3>1. 0 + n = n
        BY <2>6
      <3> QED
        BY <3>1 DEF Used
    <2>9. n \in Nat /\ w \in Nat /\ n + 1 <= w
      BY <2>5, <2>6
    <2> HIDE DEF n, w
    <2>10. GpusPerActor * (n + 1) <= GpusPerActor * w
      BY <2>9, MoreTimes
    <2>11. /\ GpusPerActor * (n + 1) = GpusPerActor * n + GpusPerActor
           /\ GpusPerActor * n \in Nat /\ GpusPerActor * w \in Nat
      BY <2>9, MoreTimes
    <2> QED
      BY <2>7, <2>8, <2>10, <2>11, GpusAssumption
  <1> QED
    BY <1>1, Placement, PTL

-----------------------------------------------------------------------------
(* Numbers and sequences, one after the other: what holds of the first one *)
(* and of the next with each holds of all.                                 *)

Before == {p \in Nat \X Nat : p[1] < p[2]}

LEMMA AllNaturals ==
  ASSUME NEW C, 0 \in C, \A n \in Nat : n \in C => n + 1 \in C
  PROVE  \A n \in Nat : n \in C
PROOF
  <1> DEFINE Missing == {n \in Nat : n \notin C}
  <1> SUFFICES ASSUME Missing # {} PROVE FALSE
    OBVIOUS
  <1>1. IsWellFoundedOn(Before, Nat)
    BY NatLessThanWellFounded DEF OpToRel, Before
  <1>2. PICK m \in Missing : \A n \in Missing : ~ (<<n, m>> \in Before)
    <2>1. Missing \subseteq Nat
      OBVIOUS
    <2> HIDE DEF Missing
    <2> QED
      BY <1>1, <2>1, WFMin
  <1>3. m \in Nat /\ m \notin C /\ m # 0
    OBVIOUS
  <1>4. m - 1 \in Nat /\ (m - 1) + 1 = m /\ m - 1 < m
    BY <1>3
  <1>5. m - 1 \notin C
    BY <1>3, <1>4
  <1>6. <<m - 1, m>> \in Before
    BY <1>3, <1>4 DEF Before
  <1> QED
    BY <1>2, <1>4, <1>5, <1>6

LEMMA AllSequences ==
  ASSUME NEW E, NEW C, <<>> \in C, \A s \in Seq(E), e \in E : s \in C => Append(s, e) \in C
  PROVE  \A s \in Seq(E) : s \in C
PROOF
  <1> DEFINE OfLength(n) == \A s \in Seq(E) : Len(s) = n => s \in C
             Lengths == {n \in Nat : OfLength(n)}
  <1>1. OfLength(0)
    BY EmptySeq
  <1>2. ASSUME NEW n \in Nat, OfLength(n)
        PROVE  OfLength(n + 1)
    <2> SUFFICES ASSUME NEW s \in Seq(E), Len(s) = n + 1 PROVE s \in C
      OBVIOUS
    <2>1. s # <<>>
      OBVIOUS
    <2>2. PICK t \in Seq(E), e \in E : s = Append(t, e)
      BY <2>1, SequenceEmptyOrAppend
    <2>3. Len(t) \in Nat /\ Len(s) = Len(t) + 1
      BY <2>2, AppendProperties
    <2>4. t \in C
      BY <1>2, <2>3
    <2> QED
      BY <2>2, <2>4
  <1> HIDE DEF OfLength
  <1>3. \A n \in Nat : n \in Lengths
    <2>1. 0 \in Lengths /\ \A n \in Nat : n \in Lengths => n + 1 \in Lengths
      BY <1>1, <1>2
    <2> HIDE DEF Lengths
    <2> QED
      BY <2>1, AllNaturals
  <1> QED
    BY <1>3 DEF OfLength

\* A recursion over 0 .. last has a solution.
Recursions(S, first, last, step) ==
  {g \in [0 .. last -> S] :
     g[0] = first /\ \A n \in 1 .. last : g[n] = step[n][g[n - 1]]}

LEMMA RecursionExists ==
  ASSUME NEW S, NEW first \in S, NEW last \in Nat, NEW step \in [1 .. last -> [S -> S]]
  PROVE  Recursions(S, first, last, step) # {}
PROOF
  <1> DEFINE Upto(m) == \E g \in [0 .. m -> S] :
                          g[0] = first /\ \A n \in 1 .. m : g[n] = step[n][g[n - 1]]
             Solved == {m \in Nat : m <= last => Upto(m)}
  <1>1. Upto(0)
    <2> DEFINE g == [n \in 0 .. 0 |-> first]
    <2>1. g \in [0 .. 0 -> S] /\ g[0] = first /\ 1 .. 0 = {}
      OBVIOUS
    <2>2. \A n \in 1 .. 0 : g[n] = step[n][g[n - 1]]
      BY <2>1
    <2> HIDE DEF g
    <2> QED
      BY <2>1, <2>2
  <1>2. ASSUME NEW m \in Nat, m + 1 <= last, Upto(m)
        PROVE  Upto(m + 1)
    <2>1. PICK g \in [0 .. m -> S] :
            g[0] = first /\ \A n \in 1 .. m : g[n] = step[n][g[n - 1]]
      BY <1>2
    <2> DEFINE h == [n \in 0 .. m + 1 |-> IF n <= m THEN g[n] ELSE step[m + 1][g[m]]]
    <2>2. g[m] \in S /\ m + 1 \in 1 .. last /\ step[m + 1] \in [S -> S]
      BY <1>2
    <2>3. h \in [0 .. m + 1 -> S] /\ h[0] = first
      BY <2>1, <2>2
    <2>4. ASSUME NEW n \in 1 .. m + 1
          PROVE  h[n] = step[n][h[n - 1]]
      <3>1. CASE n = m + 1
        BY <3>1
      <3>2. CASE n # m + 1
        <4>1. n \in 1 .. m /\ n - 1 \in 0 .. m /\ n <= m /\ n - 1 <= m
          BY <3>2
        <4> QED
          BY <2>1, <4>1
      <3> QED
        BY <3>1, <3>2
    <2> HIDE DEF h
    <2> QED
      BY <2>3, <2>4
  <1> HIDE DEF Upto
  <1>3. 0 \in Solved /\ \A m \in Nat : m \in Solved => m + 1 \in Solved
    BY <1>1, <1>2
  <1>4. \A m \in Nat : m \in Solved
    <2> HIDE DEF Solved
    <2> QED
      BY <1>3, AllNaturals
  <1> QED
    BY <1>4 DEF Upto, Recursions

-----------------------------------------------------------------------------
(* What Among takes from a sequence.                                       *)

Taking(s, S, taken) ==
  [n \in 0 .. Len(s) |->
     IF n = 0 THEN <<>>
     ELSE IF s[n] \in S THEN Append(taken[n - 1], s[n]) ELSE taken[n - 1]]

LEMMA TakingExists ==
  ASSUME NEW E, NEW s \in Seq(E), NEW S
  PROVE  \E f : f = Taking(s, S, f)
PROOF
  <1> DEFINE Taken(n) == [x \in Seq(E) |-> IF s[n] \in S THEN Append(x, s[n]) ELSE x]
             step == [n \in 1 .. Len(s) |-> Taken(n)]
  <1>1. Len(s) \in Nat /\ <<>> \in Seq(E)
    OBVIOUS
  <1>2. ASSUME NEW n \in 1 .. Len(s)
        PROVE  Taken(n) \in [Seq(E) -> Seq(E)]
    <2>1. s[n] \in E
      OBVIOUS
    <2> QED
      BY <2>1, AppendProperties
  <1>3. step \in [1 .. Len(s) -> [Seq(E) -> Seq(E)]]
    BY <1>2
  <1>4. PICK g \in [0 .. Len(s) -> Seq(E)] :
          g[0] = <<>> /\ \A n \in 1 .. Len(s) : g[n] = step[n][g[n - 1]]
    <2> DEFINE first == <<>>
               Q == Seq(E)
               l == Len(s)
    <2>1. first \in Q /\ l \in Nat /\ step \in [1 .. l -> [Q -> Q]]
      BY <1>1, <1>3
    <2> HIDE DEF first, Q, step, l
    <2>2. Recursions(Q, first, l, step) # {}
      BY <2>1, RecursionExists
    <2> QED
      BY <2>2 DEF first, Q, l, Recursions
  <1>5. ASSUME NEW n \in 0 .. Len(s)
        PROVE  g[n] = IF n = 0 THEN <<>>
                      ELSE IF s[n] \in S THEN Append(g[n - 1], s[n]) ELSE g[n - 1]
    <2>1. CASE n = 0
      BY <1>4, <2>1
    <2>2. CASE n # 0
      <3>1. n \in 1 .. Len(s) /\ n - 1 \in 0 .. Len(s)
        BY <1>1, <2>2
      <3>2. g[n] = Taken(n)[g[n - 1]] /\ g[n - 1] \in Seq(E)
        BY <1>4, <3>1
      <3> QED
        BY <2>2, <3>2
    <2> QED
      BY <2>1, <2>2
  <1>6. g = [n \in 0 .. Len(s) |-> g[n]]
    BY <1>4
  <1>7. g = Taking(s, S, g)
    <2> HIDE DEF step
    <2> QED
      BY <1>5, <1>6, Zenon DEF Taking
  <1> QED
    BY <1>7

LEMMA TakingTyped ==
  ASSUME NEW E, NEW s \in Seq(E), NEW S, NEW f, f = Taking(s, S, f)
  PROVE  f[0] = <<>> /\ \A n \in 0 .. Len(s) : f[n] \in Seq(E)
PROOF
  <1> DEFINE Fine(n) == n <= Len(s) => f[n] \in Seq(E)
             Typed == {n \in Nat : Fine(n)}
  <1>1. f[0] = <<>>
    BY DEF Taking
  <1>2. ASSUME NEW n \in Nat, Fine(n), n + 1 <= Len(s)
        PROVE  f[n + 1] \in Seq(E)
    <2>1. f[n] \in Seq(E) /\ n + 1 \in 0 .. Len(s) /\ n + 1 # 0 /\ (n + 1) - 1 = n
      BY <1>2
    <2>2. f[n + 1] = IF s[n + 1] \in S THEN Append(f[n], s[n + 1]) ELSE f[n]
      BY <2>1 DEF Taking
    <2>3. s[n + 1] \in E
      BY <2>1
    <2> QED
      BY <2>1, <2>2, <2>3, AppendProperties
  <1>3. Fine(0) /\ \A n \in Nat : Fine(n) => Fine(n + 1)
    BY <1>1, <1>2, EmptySeq
  <1>4. \A n \in Nat : n \in Typed
    <2> HIDE DEF Fine
    <2>1. 0 \in Typed /\ \A n \in Nat : n \in Typed => n + 1 \in Typed
      BY <1>3
    <2> HIDE DEF Typed
    <2> QED
      BY <2>1, AllNaturals
  <1> QED
    BY <1>1, <1>4

\* Two sequences with a common beginning: the same is taken from it.
LEMMA TakingAgrees ==
  ASSUME NEW E, NEW s \in Seq(E), NEW t \in Seq(E), NEW S, NEW last \in Nat,
         last <= Len(s), last <= Len(t), \A i \in 1 .. last : s[i] = t[i],
         NEW f, f = Taking(s, S, f), NEW g, g = Taking(t, S, g)
  PROVE  f[last] = g[last]
PROOF
  <1> DEFINE Same == {n \in Nat : n <= last => f[n] = g[n]}
  <1>1. f[0] = g[0]
    BY TakingTyped
  <1>2. ASSUME NEW n \in Nat, n \in Same, n + 1 <= last
        PROVE  f[n + 1] = g[n + 1]
    <2>1. /\ n + 1 \in 0 .. Len(s) /\ n + 1 \in 0 .. Len(t) /\ n + 1 # 0 /\ (n + 1) - 1 = n
          /\ n + 1 \in 1 .. last /\ f[n] = g[n]
      BY <1>2
    <2>2. f[n + 1] = IF s[n + 1] \in S THEN Append(f[n], s[n + 1]) ELSE f[n]
      BY <2>1 DEF Taking
    <2>3. g[n + 1] = IF t[n + 1] \in S THEN Append(g[n], t[n + 1]) ELSE g[n]
      BY <2>1 DEF Taking
    <2> QED
      BY <2>1, <2>2, <2>3
  <1>3. 0 \in Same /\ \A n \in Nat : n \in Same => n + 1 \in Same
    BY <1>1, <1>2
  <1>4. \A n \in Nat : n \in Same
    <2> HIDE DEF Same
    <2> QED
      BY <1>3, AllNaturals
  <1> QED
    BY <1>4

LEMMA AmongIs ==
  ASSUME NEW E, NEW s \in Seq(E), NEW S
  PROVE  \E f : f = Taking(s, S, f) /\ Among(s, S) = f[Len(s)]
PROOF
  <1> DEFINE f == CHOOSE taken : taken = Taking(s, S, taken)
  <1>1. f = Taking(s, S, f)
    BY TakingExists, Zenon
  <1>2. Among(s, S) = f[Len(s)]
    BY Zenon DEF Among, Taking
  <1> QED
    BY <1>1, <1>2, Zenon

LEMMA AmongTyped ==
  ASSUME NEW E, NEW s \in Seq(E), NEW S
  PROVE  Among(s, S) \in Seq(E)
PROOF
  <1>1. PICK f : f = Taking(s, S, f) /\ Among(s, S) = f[Len(s)]
    BY AmongIs
  <1>2. Len(s) \in 0 .. Len(s)
    OBVIOUS
  <1> QED
    BY <1>1, <1>2, TakingTyped

LEMMA AmongEmpty ==
  \A S : Among(<<>>, S) = <<>>
PROOF
  <1> TAKE S
  <1>1. <<>> \in Seq({}) /\ Len(<<>>) = 0
    OBVIOUS
  <1>2. PICK f : f = Taking(<<>>, S, f) /\ Among(<<>>, S) = f[Len(<<>>)]
    BY <1>1, AmongIs
  <1> QED
    BY <1>1, <1>2, TakingTyped

LEMMA AmongAppend ==
  ASSUME NEW E, NEW s \in Seq(E), NEW e \in E, NEW S
  PROVE  Among(Append(s, e), S) = IF e \in S THEN Append(Among(s, S), e) ELSE Among(s, S)
PROOF
  <1> DEFINE t == Append(s, e)
             l == Len(s)
  <1>1. t \in Seq(E) /\ Len(t) = l + 1 /\ l \in Nat /\ t[l + 1] = e /\ \A i \in 1 .. l : t[i] = s[i]
    BY AppendProperties
  <1> HIDE DEF t
  <1>2. PICK f : f = Taking(s, S, f) /\ Among(s, S) = f[l]
    BY AmongIs
  <1>3. PICK g : g = Taking(t, S, g) /\ Among(t, S) = g[l + 1]
    <2>1. \E g : g = Taking(t, S, g) /\ Among(t, S) = g[Len(t)]
      BY <1>1, AmongIs
    <2> QED
      BY <1>1, <2>1
  <1>4. f[l] = g[l]
    <2>1. l <= Len(s) /\ l <= Len(t) /\ \A i \in 1 .. l : s[i] = t[i]
      BY <1>1
    <2> HIDE DEF l
    <2> QED
      BY <1>1, <1>2, <1>3, <2>1, TakingAgrees
  <1>5. g[l + 1] = IF t[l + 1] \in S THEN Append(g[l], t[l + 1]) ELSE g[l]
    <2>1. l + 1 \in 0 .. Len(t) /\ l + 1 # 0 /\ (l + 1) - 1 = l
      BY <1>1
    <2> QED
      BY <1>3, <2>1 DEF Taking
  <1> QED
    BY <1>1, <1>2, <1>3, <1>4, <1>5 DEF t

LEMMA AmongConcat ==
  ASSUME NEW E, NEW s \in Seq(E), NEW t \in Seq(E), NEW S
  PROVE  Among(s \o t, S) = Among(s, S) \o Among(t, S)
PROOF
  <1> DEFINE Fine(x) == Among(s \o x, S) = Among(s, S) \o Among(x, S)
             C == {x \in Seq(E) : Fine(x)}
             a == Among(s, S)
  <1>1. a \in Seq(E)
    BY AmongTyped
  <1>2. Fine(<<>>)
    <2>1. s \o <<>> = s /\ a \o <<>> = a
      BY <1>1, ConcatEmptySeq
    <2> HIDE DEF a
    <2> QED
      BY <2>1, AmongEmpty DEF a
  <1>3. ASSUME NEW x \in Seq(E), NEW e \in E, Fine(x)
        PROVE  Fine(Append(x, e)) /\ Append(x, e) \in Seq(E)
    <2> DEFINE y == s \o x
               b == Among(x, S)
               c == Among(y, S)
    <2>1. y \in Seq(E) /\ b \in Seq(E) /\ Append(x, e) \in Seq(E)
      BY AmongTyped, ConcatProperties, AppendProperties
    <2>2. s \o Append(x, e) = Append(y, e) /\ a \o Append(b, e) = Append(a \o b, e)
      BY <1>1, <2>1
    <2>3. c = a \o b
      BY <1>3
    <2>4. Among(Append(x, e), S) = IF e \in S THEN Append(b, e) ELSE b
      BY AmongAppend
    <2> HIDE DEF y
    <2>5. Among(Append(y, e), S) = IF e \in S THEN Append(c, e) ELSE c
      BY <2>1, AmongAppend
    <2> HIDE DEF a, b, c
    <2>6. Among(s \o Append(x, e), S) = a \o Among(Append(x, e), S)
      BY <2>2, <2>3, <2>4, <2>5
    <2> QED
      BY <2>1, <2>6 DEF a
  <1> HIDE DEF Fine, a
  <1>4. <<>> \in C /\ \A x \in Seq(E), e \in E : x \in C => Append(x, e) \in C
    BY <1>2, <1>3, EmptySeq
  <1>5. t \in C
    <2> HIDE DEF C
    <2> QED
      BY <1>4, AllSequences
  <1> QED
    BY <1>5 DEF Fine

LEMMA AmongTwice ==
  ASSUME NEW E, NEW s \in Seq(E), NEW S, NEW T
  PROVE  Among(Among(s, S), T) = Among(s, S \cap T)
PROOF
  <1> DEFINE Fine(x) == Among(Among(x, S), T) = Among(x, S \cap T)
             C == {x \in Seq(E) : Fine(x)}
  <1>1. Fine(<<>>)
    BY AmongEmpty
  <1>2. ASSUME NEW x \in Seq(E), NEW e \in E, Fine(x)
        PROVE  Fine(Append(x, e)) /\ Append(x, e) \in Seq(E)
    <2> DEFINE U == S \cap T
               b == Among(x, S)
    <2>1. b \in Seq(E) /\ Append(x, e) \in Seq(E)
      BY AmongTyped, AppendProperties
    <2>2. Among(Append(x, e), S) = IF e \in S THEN Append(b, e) ELSE b
      BY AmongAppend
    <2>3. e \in U <=> e \in S /\ e \in T
      OBVIOUS
    <2>4. Among(b, T) = Among(x, U)
      BY <1>2
    <2> HIDE DEF U, b
    <2>5. Among(Append(x, e), U) = IF e \in U THEN Append(Among(x, U), e) ELSE Among(x, U)
      BY AmongAppend
    <2>6. Among(Append(b, e), T) = IF e \in T THEN Append(Among(b, T), e) ELSE Among(b, T)
      BY <2>1, AmongAppend
    <2>7. Among(Among(Append(x, e), S), T) = Among(Append(x, e), U)
      BY <2>2, <2>3, <2>4, <2>5, <2>6
    <2> QED
      BY <2>1, <2>7 DEF U
  <1> HIDE DEF Fine
  <1>3. <<>> \in C /\ \A x \in Seq(E), e \in E : x \in C => Append(x, e) \in C
    BY <1>1, <1>2, EmptySeq
  <1>4. s \in C
    <2> HIDE DEF C
    <2> QED
      BY <1>3, AllSequences
  <1> QED
    BY <1>4 DEF Fine

LEMMA AmongSame ==
  ASSUME NEW E, NEW s \in Seq(E), NEW S, NEW T, \A e \in E : e \in S <=> e \in T
  PROVE  Among(s, S) = Among(s, T)
PROOF
  <1> DEFINE Fine(x) == Among(x, S) = Among(x, T)
             C == {x \in Seq(E) : Fine(x)}
  <1>1. Fine(<<>>)
    BY AmongEmpty
  <1>2. ASSUME NEW x \in Seq(E), NEW e \in E, Fine(x)
        PROVE  Fine(Append(x, e)) /\ Append(x, e) \in Seq(E)
    <2>1. /\ Among(Append(x, e), S) = IF e \in S THEN Append(Among(x, S), e) ELSE Among(x, S)
          /\ Among(Append(x, e), T) = IF e \in T THEN Append(Among(x, T), e) ELSE Among(x, T)
      BY AmongAppend
    <2> QED
      BY <1>2, <2>1, AppendProperties
  <1> HIDE DEF Fine
  <1>3. <<>> \in C /\ \A x \in Seq(E), e \in E : x \in C => Append(x, e) \in C
    BY <1>1, <1>2, EmptySeq
  <1>4. s \in C
    <2> HIDE DEF C
    <2> QED
      BY <1>3, AllSequences
  <1> QED
    BY <1>4 DEF Fine

LEMMA AmongAll ==
  ASSUME NEW E, NEW s \in Seq(E), NEW S, \A e \in E : e \in S
  PROVE  Among(s, S) = s
PROOF
  <1> DEFINE Fine(x) == Among(x, S) = x
             C == {x \in Seq(E) : Fine(x)}
  <1>1. Fine(<<>>)
    BY AmongEmpty
  <1>2. ASSUME NEW x \in Seq(E), NEW e \in E, Fine(x)
        PROVE  Fine(Append(x, e)) /\ Append(x, e) \in Seq(E)
    <2>1. Among(Append(x, e), S) = IF e \in S THEN Append(Among(x, S), e) ELSE Among(x, S)
      BY AmongAppend
    <2> QED
      BY <1>2, <2>1, AppendProperties
  <1> HIDE DEF Fine
  <1>3. <<>> \in C /\ \A x \in Seq(E), e \in E : x \in C => Append(x, e) \in C
    BY <1>1, <1>2, EmptySeq
  <1>4. s \in C
    <2> HIDE DEF C
    <2> QED
      BY <1>3, AllSequences
  <1> QED
    BY <1>4 DEF Fine

LEMMA AmongNone ==
  ASSUME NEW E, NEW s \in Seq(E), NEW S, \A e \in E : e \notin S
  PROVE  Among(s, S) = <<>>
PROOF
  <1> DEFINE Fine(x) == Among(x, S) = <<>>
             C == {x \in Seq(E) : Fine(x)}
  <1>1. Fine(<<>>)
    BY AmongEmpty
  <1>2. ASSUME NEW x \in Seq(E), NEW e \in E, Fine(x)
        PROVE  Fine(Append(x, e)) /\ Append(x, e) \in Seq(E)
    <2>1. Among(Append(x, e), S) = IF e \in S THEN Append(Among(x, S), e) ELSE Among(x, S)
      BY AmongAppend
    <2> QED
      BY <1>2, <2>1, AppendProperties
  <1> HIDE DEF Fine
  <1>3. <<>> \in C /\ \A x \in Seq(E), e \in E : x \in C => Append(x, e) \in C
    BY <1>1, <1>2, EmptySeq
  <1>4. s \in C
    <2> HIDE DEF C
    <2> QED
      BY <1>3, AllSequences
  <1> QED
    BY <1>4 DEF Fine

\* What lies in one of two disjoint sets is counted once.
LEMMA AmongEither ==
  ASSUME NEW E, NEW s \in Seq(E), NEW S, NEW T, S \cap T = {}
  PROVE  Len(Among(s, S \cup T)) = Len(Among(s, S)) + Len(Among(s, T))
PROOF
  <1> DEFINE Fine(x) == Len(Among(x, S \cup T)) = Len(Among(x, S)) + Len(Among(x, T))
             C == {x \in Seq(E) : Fine(x)}
  <1>1. Fine(<<>>)
    BY AmongEmpty
  <1>2. ASSUME NEW x \in Seq(E), NEW e \in E, Fine(x)
        PROVE  Fine(Append(x, e)) /\ Append(x, e) \in Seq(E)
    <2> DEFINE U == S \cup T
               y == Append(x, e)
    <2>1. /\ Among(x, S) \in Seq(E) /\ Among(x, T) \in Seq(E) /\ Among(x, U) \in Seq(E)
          /\ y \in Seq(E)
      BY AmongTyped, AppendProperties
    <2>2. /\ Among(y, S) = IF e \in S THEN Append(Among(x, S), e) ELSE Among(x, S)
          /\ Among(y, T) = IF e \in T THEN Append(Among(x, T), e) ELSE Among(x, T)
          /\ Among(y, U) = IF e \in U THEN Append(Among(x, U), e) ELSE Among(x, U)
      BY AmongAppend
    <2>3. (e \in U <=> e \in S \/ e \in T) /\ ~(e \in S /\ e \in T)
      OBVIOUS
    <2>4. Len(Among(x, U)) = Len(Among(x, S)) + Len(Among(x, T))
      BY <1>2
    <2> HIDE DEF U, y
    <2> DEFINE m == Len(Among(x, S))
               n == Len(Among(x, T))
    <2>5. m \in Nat /\ n \in Nat /\ Len(Among(x, U)) = m + n
      BY <2>1, <2>4
    <2>6. /\ Len(Append(Among(x, S), e)) = m + 1
          /\ Len(Append(Among(x, T), e)) = n + 1
          /\ Len(Append(Among(x, U), e)) = (m + n) + 1
      <3>1. \A b \in Seq(E) : Len(Append(b, e)) = Len(b) + 1
        BY AppendProperties
      <3> QED
        BY <2>1, <2>5, <3>1
    <2>7. /\ Len(Among(y, S)) = IF e \in S THEN m + 1 ELSE m
          /\ Len(Among(y, T)) = IF e \in T THEN n + 1 ELSE n
          /\ Len(Among(y, U)) = IF e \in U THEN (m + n) + 1 ELSE m + n
      BY <2>2, <2>5, <2>6
    <2> HIDE DEF m, n
    <2>8. Len(Among(y, U)) = Len(Among(y, S)) + Len(Among(y, T))
      BY <2>3, <2>5, <2>7
    <2> QED
      BY <2>1, <2>8 DEF U, y
  <1> HIDE DEF Fine
  <1>3. <<>> \in C /\ \A x \in Seq(E), e \in E : x \in C => Append(x, e) \in C
    BY <1>1, <1>2, EmptySeq
  <1>4. s \in C
    <2> HIDE DEF C
    <2> QED
      BY <1>3, AllSequences
  <1> QED
    BY <1>4 DEF Fine

-----------------------------------------------------------------------------
(* The buckets of hash_partition_edges and what the actors give back.      *)

Edges == {e \in Seq(Int) : Len(e) = 2}

InBucket(p, i) == {e \in Edges : Bucket(e, p) = i}
BelowBucket(p, i) == {e \in Edges : Bucket(e, p) < i}
AtVertex(v) == {e \in Edges : Smaller(e) = v}

LEMMA BucketsAreNumbers ==
  ASSUME NEW e \in Edges, NEW p \in Nat \ {0}
  PROVE  Smaller(e) \in Int /\ Bucket(e, p) \in 0 .. p - 1
PROOF
  <1>1. e[1] \in Int /\ e[2] \in Int
    BY DEF Edges
  <1>2. Smaller(e) \in Int
    BY <1>1 DEF Smaller
  <1> QED
    BY <1>2 DEF Bucket

LEMMA UnpackedEdges ==
  ASSUME NEW edges \in Datasets, Unpacks(edges)
  PROVE  edges \in Seq(Edges)
PROOF
  <1>1. edges \in Seq(Seq(Int))
    BY DatasetsAssumption
  <1>2. \A i \in 1 .. Len(edges) : edges[i] \in Edges
    BY <1>1 DEF Unpacks, Edges
  <1>3. edges = [i \in 1 .. Len(edges) |-> edges[i]] /\ Len(edges) \in Nat
    BY <1>1
  <1>4. edges \in [1 .. Len(edges) -> Edges]
    BY <1>2, <1>3
  <1> QED
    BY <1>3, <1>4, SeqDef

LEMMA PartOfEdges ==
  ASSUME NEW edges \in Seq(Edges), NEW p, NEW i
  PROVE  PartEdges(edges, p, i) = Among(edges, InBucket(p, i))
PROOF
  <1>1. edges \in Seq(Range(edges)) /\ Range(edges) \subseteq Edges
    BY SeqOfRange, RangeOfSeq
  <1> DEFINE S == {e \in Range(edges) : Bucket(e, p) = i}
             T == InBucket(p, i)
  <1>2. \A e \in Range(edges) : e \in S <=> e \in T
    BY <1>1 DEF InBucket
  <1>3. PartEdges(edges, p, i) = Among(edges, S)
    BY Zenon DEF PartEdges
  <1> HIDE DEF S, T
  <1>4. Among(edges, S) = Among(edges, T)
    BY <1>1, <1>2, AmongSame
  <1> QED
    BY <1>3, <1>4 DEF T

LEMMA FromSmallerOfEdges ==
  ASSUME NEW edges \in Seq(Edges), NEW v
  PROVE  FromSmaller(edges, v) = Among(edges, AtVertex(v))
PROOF
  <1>1. edges \in Seq(Range(edges)) /\ Range(edges) \subseteq Edges
    BY SeqOfRange, RangeOfSeq
  <1> DEFINE S == {e \in Range(edges) : Smaller(e) = v}
             T == AtVertex(v)
  <1>2. \A e \in Range(edges) : e \in S <=> e \in T
    BY <1>1 DEF AtVertex
  <1>3. FromSmaller(edges, v) = Among(edges, S)
    BY Zenon DEF FromSmaller
  <1> HIDE DEF S, T
  <1>4. Among(edges, S) = Among(edges, T)
    BY <1>1, <1>2, AmongSame
  <1> QED
    BY <1>3, <1>4 DEF T

LEMMA PartsOfEdges ==
  ASSUME NEW edges \in Seq(Edges), NEW p \in Nat \ {0}
  PROVE  /\ HashPartitionEdges(edges, p) \in Seq(Seq(Edges))
         /\ Len(HashPartitionEdges(edges, p)) = p
         /\ \A i \in 1 .. p :
              HashPartitionEdges(edges, p)[i] = Among(edges, InBucket(p, i - 1))
PROOF
  <1> DEFINE parts == HashPartitionEdges(edges, p)
  <1>1. \A i \in 1 .. p : Among(edges, InBucket(p, i - 1)) \in Seq(Edges)
    BY AmongTyped
  <1>2. parts = [i \in 1 .. p |-> Among(edges, InBucket(p, i - 1))]
    BY PartOfEdges, Zenon DEF HashPartitionEdges
  <1>3. parts \in [1 .. p -> Seq(Edges)]
    BY <1>1, <1>2
  <1> HIDE DEF parts
  <1>4. parts \in Seq(Seq(Edges)) /\ Len(parts) = p
    BY <1>3
  <1> QED
    BY <1>2, <1>4 DEF parts

Flattening(seqs, f) ==
  [i \in 1 .. Len(seqs) |-> IF i = 1 THEN seqs[i] ELSE f[i - 1] \o seqs[i]]

LEMMA FlattenIs ==
  ASSUME NEW E, NEW seqs \in Seq(Seq(E)), Len(seqs) # 0
  PROVE  \E f : f = Flattening(seqs, f) /\ FlattenSeq(seqs) = f[Len(seqs)]
PROOF
  <1> DEFINE l == Len(seqs)
             first == <<>>
             Q == Seq(E)
             step == [n \in 1 .. l |-> [x \in Q |-> x \o seqs[n]]]
  <1>1. first \in Q /\ l \in Nat /\ l # 0 /\ \A n \in 1 .. l : seqs[n] \in Q
    BY EmptySeq
  <1>2. step \in [1 .. l -> [Q -> Q]]
    BY <1>1, ConcatProperties
  <1>3. PICK g \in Recursions(Q, first, l, step) : TRUE
    <2> HIDE DEF l, first, Q, step
    <2>1. Recursions(Q, first, l, step) # {}
      BY <1>1, <1>2, RecursionExists
    <2> QED
      BY <2>1
  <1> DEFINE h == [i \in 1 .. l |-> g[i]]
  <1>4. ASSUME NEW i \in 1 .. l
        PROVE  h[i] = IF i = 1 THEN seqs[i] ELSE h[i - 1] \o seqs[i]
    <2>1. g[i] = step[i][g[i - 1]] /\ g[i - 1] \in Q
      <3> HIDE DEF l, Q, first, step
      <3> QED
        BY <1>1, <1>3 DEF Recursions
    <2>2. g[i] = g[i - 1] \o seqs[i]
      BY <2>1
    <2>3. CASE i = 1
      <3>1. g[i - 1] = <<>>
        BY <1>3, <2>3 DEF Recursions
      <3>2. <<>> \o seqs[i] = seqs[i]
        BY <1>1, ConcatEmptySeq
      <3> QED
        BY <2>2, <2>3, <3>1, <3>2
    <2>4. CASE i # 1
      <3>1. i - 1 \in 1 .. l
        BY <1>1, <2>4
      <3> QED
        BY <2>2, <2>4, <3>1
    <2> QED
      BY <2>3, <2>4
  <1>5. h = Flattening(seqs, h)
    <2>1. h = [i \in 1 .. l |-> h[i]]
      OBVIOUS
    <2> HIDE DEF h
    <2> QED
      BY <1>4, <2>1, Zenon DEF Flattening
  <1> DEFINE f == CHOOSE x : x = Flattening(seqs, x)
  <1>6. f = Flattening(seqs, f)
    BY <1>5, Zenon
  <1>7. FlattenSeq(seqs) = f[Len(seqs)]
    BY Zenon DEF FlattenSeq, Flattening
  <1> QED
    BY <1>6, <1>7, Zenon

Totalling(parts, total) ==
  [n \in 0 .. Len(parts) |-> IF n = 0 THEN 0 ELSE total[n - 1] + Len(parts[n])]

LEMMA TotalIs ==
  ASSUME NEW E, NEW parts \in Seq(Seq(E))
  PROVE  \E f : f = Totalling(parts, f) /\ TotalEdges(parts) = f[Len(parts)]
PROOF
  <1> DEFINE l == Len(parts)
             first == 0
             step == [n \in 1 .. l |-> [x \in Nat |-> x + Len(parts[n])]]
  <1>1. first \in Nat /\ l \in Nat /\ \A n \in 1 .. l : Len(parts[n]) \in Nat
    OBVIOUS
  <1>2. step \in [1 .. l -> [Nat -> Nat]]
    BY <1>1
  <1>3. PICK g \in Recursions(Nat, first, l, step) : TRUE
    <2> HIDE DEF l, first, step
    <2>1. Recursions(Nat, first, l, step) # {}
      BY <1>1, <1>2, RecursionExists
    <2> QED
      BY <2>1
  <1>4. ASSUME NEW n \in 0 .. l
        PROVE  g[n] = IF n = 0 THEN 0 ELSE g[n - 1] + Len(parts[n])
    <2>1. CASE n = 0
      BY <1>3, <2>1 DEF Recursions
    <2>2. CASE n # 0
      <3>1. n \in 1 .. l
        BY <1>1, <2>2
      <3>2. g[n] = step[n][g[n - 1]] /\ g[n - 1] \in Nat
        <4> HIDE DEF l, first, step
        <4> QED
          BY <1>1, <1>3, <3>1 DEF Recursions
      <3> QED
        BY <2>2, <3>1, <3>2
    <2> QED
      BY <2>1, <2>2
  <1>5. g = Totalling(parts, g)
    <2>1. g = [i \in 0 .. l |-> g[i]]
      BY <1>3 DEF Recursions
    <2> HIDE DEF step
    <2> QED
      BY <1>4, <2>1, Zenon DEF Totalling
  <1> DEFINE f == CHOOSE x : x = Totalling(parts, x)
  <1>6. f = Totalling(parts, f)
    BY <1>5, Zenon
  <1>7. TotalEdges(parts) = f[Len(parts)]
    BY Zenon DEF TotalEdges, Totalling
  <1> QED
    BY <1>6, <1>7, Zenon

\* Bucket by bucket: once the bucket of v is there, so is every edge whose
\* smaller end is v, and before there is none.
LEMMA MergedKeeps ==
  ASSUME NEW edges \in Seq(Edges), NEW p \in Nat \ {0}
  PROVE  /\ FlattenSeq(HashPartitionEdges(edges, p)) \in Seq(Edges)
         /\ \A v \in Int : FromSmaller(FlattenSeq(HashPartitionEdges(edges, p)), v)
                             = FromSmaller(edges, v)
PROOF
  <1> DEFINE parts == HashPartitionEdges(edges, p)
             Part(i) == Among(edges, InBucket(p, i - 1))
             There(v) == Among(edges, AtVertex(v))
  <1>1. /\ parts \in Seq(Seq(Edges)) /\ Len(parts) = p
        /\ \A i \in 1 .. p : parts[i] = Part(i) /\ Part(i) \in Seq(Edges)
    BY PartsOfEdges, AmongTyped
  <1> HIDE DEF parts
  <1>2. PICK f : f = Flattening(parts, f) /\ FlattenSeq(parts) = f[p]
    <2>1. Len(parts) # 0
      BY <1>1
    <2>2. \E f : f = Flattening(parts, f) /\ FlattenSeq(parts) = f[Len(parts)]
      BY <1>1, <2>1, FlattenIs
    <2> QED
      BY <1>1, <2>2
  <1>3. ASSUME NEW i \in 1 .. p, NEW v \in Int
        PROVE  Among(Part(i), AtVertex(v)) = IF v % p = i - 1 THEN There(v) ELSE <<>>
    <2> DEFINE S == InBucket(p, i - 1)
               T == AtVertex(v)
    <2>1. Among(Part(i), T) = Among(edges, S \cap T)
      BY AmongTwice
    <2>2. \A e \in Edges : e \in S \cap T <=> e \in T /\ v % p = i - 1
      BY DEF InBucket, AtVertex, Bucket
    <2> DEFINE U == S \cap T
    <2> HIDE DEF S, T, U
    <2>3. CASE v % p = i - 1
      <3>1. \A e \in Edges : e \in U <=> e \in T
        BY <2>2, <2>3 DEF U
      <3>2. Among(edges, U) = Among(edges, T)
        BY <3>1, AmongSame
      <3> QED
        BY <2>1, <2>3, <3>2 DEF T, U
    <2>4. CASE v % p # i - 1
      <3>1. \A e \in Edges : e \notin U
        BY <2>2, <2>4 DEF U
      <3>2. Among(edges, U) = <<>>
        BY <3>1, AmongNone
      <3> QED
        BY <2>1, <2>4, <3>2 DEF T, U
    <2> QED
      BY <2>3, <2>4
  <1>4. \A v \in Int : There(v) \in Seq(Edges) /\ v % p \in 0 .. p - 1
    BY AmongTyped
  <1> DEFINE Upto(i) ==
        /\ f[i] \in Seq(Edges)
        /\ \A v \in Int : Among(f[i], AtVertex(v)) = IF v % p < i THEN There(v) ELSE <<>>
             Reached == {n \in Nat : n + 1 <= p => Upto(n + 1)}
  <1> HIDE DEF Part, There
  <1>5. Upto(1)
    <2>1. 1 \in 1 .. p
      OBVIOUS
    <2>2. f[1] = parts[1]
      BY <1>1, <1>2, <2>1 DEF Flattening
    <2>3. f[1] = Part(1) /\ f[1] \in Seq(Edges)
      BY <1>1, <2>1, <2>2
    <2>4. ASSUME NEW v \in Int
          PROVE  Among(f[1], AtVertex(v)) = IF v % p < 1 THEN There(v) ELSE <<>>
      <3>1. Among(Part(1), AtVertex(v)) = IF v % p = 1 - 1 THEN There(v) ELSE <<>>
        BY <1>3, <2>1
      <3> DEFINE h == v % p
      <3>2. h \in Nat
        OBVIOUS
      <3> HIDE DEF h
      <3>3. h = 1 - 1 <=> h < 1
        BY <3>2
      <3> QED
        BY <2>3, <3>1, <3>3 DEF h
    <2> QED
      BY <2>3, <2>4
  <1>6. ASSUME NEW n \in Nat, (n + 1) + 1 <= p, Upto(n + 1)
        PROVE  Upto((n + 1) + 1)
    <2> DEFINE i == n + 1
    <2>1. i + 1 \in 1 .. p /\ i + 1 # 1 /\ (i + 1) - 1 = i /\ i \in Nat
      BY <1>6
    <2> HIDE DEF i
    <2>2. f[i + 1] = f[i] \o parts[i + 1]
      BY <1>1, <1>2, <2>1 DEF Flattening
    <2>3. f[i] \in Seq(Edges) /\ Part(i + 1) \in Seq(Edges) /\ parts[i + 1] = Part(i + 1)
      BY <1>1, <1>6, <2>1 DEF i
    <2>4. f[i + 1] \in Seq(Edges)
      BY <2>2, <2>3, ConcatProperties
    <2>5. ASSUME NEW v \in Int
          PROVE  Among(f[i + 1], AtVertex(v)) = IF v % p < i + 1 THEN There(v) ELSE <<>>
      <3>1. Among(f[i + 1], AtVertex(v))
              = Among(f[i], AtVertex(v)) \o Among(Part(i + 1), AtVertex(v))
        <4> DEFINE a == f[i]
                   b == Part(i + 1)
                   S == AtVertex(v)
        <4>1. a \in Seq(Edges) /\ b \in Seq(Edges) /\ f[i + 1] = a \o b
          BY <2>2, <2>3
        <4> HIDE DEF a, b, S
        <4>2. Among(a \o b, S) = Among(a, S) \o Among(b, S)
          BY <4>1, AmongConcat
        <4> QED
          BY <4>1, <4>2 DEF a, b, S
      <3>2. Among(f[i], AtVertex(v)) = IF v % p < i THEN There(v) ELSE <<>>
        BY <1>6 DEF i
      <3>3. Among(Part(i + 1), AtVertex(v)) = IF v % p = i THEN There(v) ELSE <<>>
        BY <1>3, <2>1
      <3> DEFINE t == There(v)
                 h == v % p
      <3>4. t \in Seq(Edges) /\ h \in Nat
        <4>1. t \in Seq(Edges)
          BY <1>4
        <4>2. h \in Nat
          OBVIOUS
        <4> QED
          BY <4>1, <4>2
      <3> HIDE DEF t, h
      <3>5. t \o <<>> = t /\ <<>> \o t = t /\ <<>> \o <<>> = <<>>
        BY <3>4, ConcatEmptySeq, EmptySeq
      <3>6. (IF h < i THEN t ELSE <<>>) \o (IF h = i THEN t ELSE <<>>)
              = IF h < i + 1 THEN t ELSE <<>>
        <4>1. CASE h < i
          BY <2>1, <3>4, <3>5, <4>1
        <4>2. CASE h = i
          BY <2>1, <3>4, <3>5, <4>2
        <4>3. CASE i < h
          <5>1. ~ (h < i) /\ h # i /\ ~ (h < i + 1)
            BY <2>1, <3>4, <4>3
          <5> QED
            BY <3>5, <5>1
        <4>4. h < i \/ h = i \/ i < h
          BY <2>1, <3>4
        <4> QED
          BY <4>1, <4>2, <4>3, <4>4
      <3> QED
        BY <3>1, <3>2, <3>3, <3>6 DEF t, h
    <2> QED
      BY <2>4, <2>5 DEF i
  <1> HIDE DEF Upto
  <1>7. 0 \in Reached /\ \A n \in Nat : n \in Reached => n + 1 \in Reached
    BY <1>5, <1>6
  <1>8. \A n \in Nat : n \in Reached
    <2> HIDE DEF Reached
    <2> QED
      BY <1>7, AllNaturals
  <1>9. Upto(p)
    <2>1. p - 1 \in Nat /\ (p - 1) + 1 = p
      OBVIOUS
    <2> QED
      BY <1>8, <2>1
  <1>10. FlattenSeq(parts) \in Seq(Edges)
    BY <1>2, <1>9 DEF Upto
  <1>11. ASSUME NEW v \in Int
         PROVE  Among(FlattenSeq(parts), AtVertex(v)) = There(v)
    BY <1>2, <1>4, <1>9 DEF Upto
  <1> QED
    BY <1>10, <1>11, FromSmallerOfEdges DEF There, parts

LEMMA TotalKeeps ==
  ASSUME NEW edges \in Seq(Edges), NEW p \in Nat \ {0}
  PROVE  TotalEdges(HashPartitionEdges(edges, p)) = Len(edges)
PROOF
  <1> DEFINE parts == HashPartitionEdges(edges, p)
             Part(i) == Among(edges, InBucket(p, i - 1))
             Below(i) == Len(Among(edges, BelowBucket(p, i)))
  <1>1. /\ parts \in Seq(Seq(Edges)) /\ Len(parts) = p
        /\ \A i \in 1 .. p : parts[i] = Part(i)
    BY PartsOfEdges
  <1> HIDE DEF parts
  <1>2. PICK f : f = Totalling(parts, f) /\ TotalEdges(parts) = f[p]
    <2>1. \E f : f = Totalling(parts, f) /\ TotalEdges(parts) = f[Len(parts)]
      BY <1>1, TotalIs
    <2> QED
      BY <1>1, <2>1
  <1>3. Below(0) = 0
    <2>1. \A e \in Edges : e \notin BelowBucket(p, 0)
      BY BucketsAreNumbers DEF BelowBucket
    <2> QED
      BY <2>1, AmongNone
  <1>4. ASSUME NEW i \in Nat
        PROVE  Below(i + 1) = Below(i) + Len(Part(i + 1))
    <2> DEFINE S == BelowBucket(p, i)
               T == InBucket(p, i)
    <2>1. S \cap T = {} /\ BelowBucket(p, i + 1) = S \cup T
      BY BucketsAreNumbers DEF BelowBucket, InBucket
    <2>2. (i + 1) - 1 = i
      OBVIOUS
    <2> HIDE DEF S, T
    <2>3. Len(Among(edges, S \cup T)) = Len(Among(edges, S)) + Len(Among(edges, T))
      BY <2>1, AmongEither
    <2> QED
      BY <2>1, <2>2, <2>3 DEF S, T
  <1>5. Below(p) = Len(edges)
    <2>1. \A e \in Edges : e \in BelowBucket(p, p)
      BY BucketsAreNumbers DEF BelowBucket
    <2> QED
      BY <2>1, AmongAll
  <1> HIDE DEF Below, Part
  <1> DEFINE Counted(n) == n <= p => f[n] = Below(n)
             Done == {n \in Nat : Counted(n)}
  <1>6. Counted(0)
    BY <1>1, <1>2, <1>3 DEF Totalling
  <1>7. ASSUME NEW n \in Nat, Counted(n), n + 1 <= p
        PROVE  f[n + 1] = Below(n + 1)
    <2>1. n + 1 \in 0 .. p /\ n + 1 \in 1 .. p /\ n + 1 # 0 /\ (n + 1) - 1 = n
      BY <1>7
    <2>2. f[n + 1] = f[n] + Len(parts[n + 1])
      BY <1>1, <1>2, <2>1 DEF Totalling
    <2>3. f[n] = Below(n) /\ parts[n + 1] = Part(n + 1)
      BY <1>1, <1>7, <2>1
    <2>4. Below(n + 1) = Below(n) + Len(Part(n + 1))
      BY <1>4
    <2> QED
      BY <2>2, <2>3, <2>4
  <1>8. Counted(0) /\ \A n \in Nat : Counted(n) => Counted(n + 1)
    BY <1>6, <1>7
  <1> HIDE DEF Counted
  <1>9. 0 \in Done /\ \A n \in Nat : n \in Done => n + 1 \in Done
    BY <1>8
  <1>10. \A n \in Nat : n \in Done
    <2> HIDE DEF Done
    <2> QED
      BY <1>9, AllNaturals
  <1>11. f[p] = Below(p)
    BY <1>10 DEF Counted
  <1> QED
    BY <1>2, <1>5, <1>11 DEF parts

-----------------------------------------------------------------------------
(* What a run in progress has got from its actors.                         *)

\* A run in progress has unpacked its edges; after the first round of answers
\* merged_edges are the buckets of its own arguments, after the second the
\* metric counts its own edges.
AnswersOf(d) ==
  /\ pc[d] # "idle" => data[d] \in Seq(Edges) /\ partitions[d] \in Nat \ {0}
  /\ pc[d] \in {"get_summaries", "local"} => merged[d] = FlattenSeq(Parts(d))
  /\ pc[d] = "local" => counted[d] = Len(data[d])

AnswersInv ==
  /\ PlacementInv
  /\ merged \in [Drivers -> Seq(Edges)]
  /\ counted \in [Drivers -> Nat]
  /\ \A d \in Drivers : AnswersOf(d)

\* A step that leaves the arguments and the results of e alone and keeps it
\* where it is, or ends its run.
LEMMA OtherAnswersStay ==
  ASSUME NEW e, AnswersOf(e), pc'[e] = pc[e] \/ pc'[e] = "idle",
         data'[e] = data[e], partitions'[e] = partitions[e],
         merged'[e] = merged[e], counted'[e] = counted[e]
  PROVE  AnswersOf(e)'
PROOF
  <1>1. Parts(e)' = Parts(e)
    BY DEF Parts
  <1> QED
    BY <1>1 DEF AnswersOf

LEMMA BeginRunAnswers ==
  ASSUME AnswersInv, NEW d \in Drivers, BeginRun(d)
  PROVE  /\ merged' \in [Drivers -> Seq(Edges)] /\ counted' \in [Drivers -> Nat]
         /\ \A e \in Drivers : AnswersOf(e)'
PROOF
  <1>1. PICK edges \in Datasets, p \in 1 .. MaxPartitions :
          /\ Unpacks(edges)
          /\ data' = [data EXCEPT ![d] = edges]
          /\ partitions' = [partitions EXCEPT ![d] = p]
    BY DEF BeginRun
  <1>2. pc' = [pc EXCEPT ![d] = "get_edges"] /\ UNCHANGED <<merged, counted>>
    BY DEF BeginRun
  <1>3. edges \in Seq(Edges) /\ p \in Nat \ {0}
    BY <1>1, UnpackedEdges, BoundsAssumption
  <1>4. pc'[d] = "get_edges" /\ data'[d] = edges /\ partitions'[d] = p
    BY <1>1, <1>2 DEF AnswersInv, PlacementInv
  <1>5. AnswersOf(d)'
    BY <1>3, <1>4 DEF AnswersOf
  <1>6. ASSUME NEW e \in Drivers, e # d
        PROVE  AnswersOf(e)'
    <2>1. /\ pc'[e] = pc[e] /\ data'[e] = data[e] /\ partitions'[e] = partitions[e]
          /\ merged'[e] = merged[e] /\ counted'[e] = counted[e]
      BY <1>1, <1>2, <1>6 DEF AnswersInv, PlacementInv
    <2> QED
      BY <2>1, OtherAnswersStay DEF AnswersInv
  <1> QED
    BY <1>2, <1>5, <1>6 DEF AnswersInv

\* ray.get gives the buckets of the arguments, bucket by bucket.
LEMMA GetEdgesAnswers ==
  ASSUME AnswersInv, NEW d \in Drivers, GetEdges(d)
  PROVE  /\ merged' \in [Drivers -> Seq(Edges)] /\ counted' \in [Drivers -> Nat]
         /\ \A e \in Drivers : AnswersOf(e)'
PROOF
  <1>1. /\ pc[d] = "get_edges" /\ pc' = [pc EXCEPT ![d] = "get_summaries"]
        /\ merged' = [merged EXCEPT ![d] = FlattenSeq(Parts(d))]
        /\ UNCHANGED <<data, partitions, counted>>
    BY DEF GetEdges
  <1>2. data[d] \in Seq(Edges) /\ partitions[d] \in Nat \ {0}
    BY <1>1 DEF AnswersInv, AnswersOf
  <1>3. FlattenSeq(Parts(d)) \in Seq(Edges)
    BY <1>2, MergedKeeps DEF Parts
  <1>4. Parts(d)' = Parts(d)
    BY <1>1 DEF Parts
  <1>5. pc'[d] = "get_summaries" /\ merged'[d] = FlattenSeq(Parts(d))
    BY <1>1 DEF AnswersInv, PlacementInv
  <1>6. AnswersOf(d)'
    BY <1>1, <1>2, <1>4, <1>5 DEF AnswersOf
  <1>7. ASSUME NEW e \in Drivers, e # d
        PROVE  AnswersOf(e)'
    <2>1. /\ pc'[e] = pc[e] /\ data'[e] = data[e] /\ partitions'[e] = partitions[e]
          /\ merged'[e] = merged[e] /\ counted'[e] = counted[e]
      BY <1>1, <1>7 DEF AnswersInv, PlacementInv
    <2> QED
      BY <2>1, OtherAnswersStay DEF AnswersInv
  <1> QED
    BY <1>1, <1>3, <1>6, <1>7 DEF AnswersInv

\* The summaries count the edges of all buckets: as many as were given.
LEMMA GetSummariesAnswers ==
  ASSUME AnswersInv, NEW d \in Drivers, GetSummaries(d)
  PROVE  /\ merged' \in [Drivers -> Seq(Edges)] /\ counted' \in [Drivers -> Nat]
         /\ \A e \in Drivers : AnswersOf(e)'
PROOF
  <1>1. /\ pc[d] = "get_summaries" /\ pc' = [pc EXCEPT ![d] = "local"]
        /\ counted' = [counted EXCEPT ![d] = TotalEdges(Parts(d))]
        /\ UNCHANGED <<data, partitions, merged>>
    BY DEF GetSummaries
  <1>2. /\ data[d] \in Seq(Edges) /\ partitions[d] \in Nat \ {0}
        /\ merged[d] = FlattenSeq(Parts(d))
    BY <1>1 DEF AnswersInv, AnswersOf
  <1>3. TotalEdges(Parts(d)) = Len(data[d]) /\ Len(data[d]) \in Nat
    BY <1>2, TotalKeeps DEF Parts
  <1>4. Parts(d)' = Parts(d)
    BY <1>1 DEF Parts
  <1>5. pc'[d] = "local" /\ counted'[d] = TotalEdges(Parts(d))
    BY <1>1 DEF AnswersInv, PlacementInv
  <1>6. AnswersOf(d)'
    BY <1>1, <1>2, <1>3, <1>4, <1>5 DEF AnswersOf
  <1>7. ASSUME NEW e \in Drivers, e # d
        PROVE  AnswersOf(e)'
    <2>1. /\ pc'[e] = pc[e] /\ data'[e] = data[e] /\ partitions'[e] = partitions[e]
          /\ merged'[e] = merged[e] /\ counted'[e] = counted[e]
      BY <1>1, <1>7 DEF AnswersInv, PlacementInv
    <2> QED
      BY <2>1, OtherAnswersStay DEF AnswersInv
  <1> QED
    BY <1>1, <1>3, <1>6, <1>7 DEF AnswersInv

THEOREM Answers == Spec => []AnswersInv
PROOF
  <1>1. Init => AnswersInv
    <2> SUFFICES ASSUME Init PROVE AnswersInv
      OBVIOUS
    <2>1. PlacementInv
      BY PlacementInitInv
    <2>2. merged \in [Drivers -> Seq(Edges)] /\ counted \in [Drivers -> Nat]
      BY EmptySeq DEF Init
    <2>3. \A d \in Drivers : AnswersOf(d)
      BY DEF Init, AnswersOf
    <2> QED
      BY <2>1, <2>2, <2>3 DEF AnswersInv
  <1>2. AnswersInv /\ PlacementInv' /\ [Next]_vars => AnswersInv'
    <2> SUFFICES ASSUME AnswersInv, PlacementInv', [Next]_vars PROVE AnswersInv'
      OBVIOUS
    <2>1. ASSUME /\ UNCHANGED <<data, partitions, merged, counted>>
                 /\ \A e \in Drivers : pc'[e] = pc[e] \/ pc'[e] = "idle"
          PROVE  AnswersInv'
      <3>1. \A e \in Drivers : AnswersOf(e)'
        BY <2>1, OtherAnswersStay DEF AnswersInv
      <3> QED
        BY <2>1, <3>1 DEF AnswersInv
    <2>2. CASE UNCHANGED vars
      BY <2>1, <2>2 DEF vars
    <2>3. ASSUME NEW d \in Drivers, BeginRun(d)
          PROVE  AnswersInv'
      BY <2>3, BeginRunAnswers DEF AnswersInv
    <2>4. ASSUME NEW d \in Drivers, GetEdges(d)
          PROVE  AnswersInv'
      BY <2>4, GetEdgesAnswers DEF AnswersInv
    <2>5. ASSUME NEW d \in Drivers, GetSummaries(d)
          PROVE  AnswersInv'
      BY <2>5, GetSummariesAnswers DEF AnswersInv
    <2>6. ASSUME NEW d \in Drivers, Place(d) \/ Answer(d) \/ ActorDies(d)
          PROVE  AnswersInv'
      BY <2>1, <2>6 DEF Place, Answer, ActorDies
    <2>7. ASSUME NEW d \in Drivers, GetRaises(d) \/ RunLocal(d)
          PROVE  AnswersInv'
      <3>1. /\ pc' = [pc EXCEPT ![d] = "idle"]
            /\ UNCHANGED <<data, partitions, merged, counted>>
        BY <2>7 DEF GetRaises, RunLocal, LeaveRun
      <3>2. \A e \in Drivers : pc'[e] = pc[e] \/ pc'[e] = "idle"
        BY <3>1 DEF AnswersInv, PlacementInv
      <3> QED
        BY <2>1, <3>1, <3>2
    <2>8. CASE Reap
      BY <2>1, <2>8 DEF Reap
    <2> QED
      BY <2>2, <2>3, <2>4, <2>5, <2>6, <2>7, <2>8 DEF Next, InsideRun
  <1> QED
    BY <1>1, <1>2, Placement, PTL DEF Spec

\* The plugin gets every edge back: whatever the edges, the partitions and the
\* runs beside it, merged_edges has the edges with a given smaller end as often
\* and in the order in which the caller gave them, and the metric
\* ray_partition_edges counts them all.
THEOREM EdgesReturn == Spec => []EdgesComeBack
PROOF
  <1>1. AnswersInv => EdgesComeBack
    <2> SUFFICES ASSUME AnswersInv, NEW d \in Drivers, pc[d] \in {"get_summaries", "local"}
                 PROVE  /\ pc[d] = "local" => counted[d] = Len(data[d])
                        /\ \A v \in {Smaller(data[d][i]) : i \in DOMAIN data[d]}
                                      \cup {Smaller(merged[d][i]) : i \in DOMAIN merged[d]} :
                             FromSmaller(merged[d], v) = FromSmaller(data[d], v)
      BY DEF EdgesComeBack
    <2>1. /\ data[d] \in Seq(Edges) /\ partitions[d] \in Nat \ {0}
          /\ merged[d] = FlattenSeq(Parts(d)) /\ merged[d] \in Seq(Edges)
          /\ pc[d] = "local" => counted[d] = Len(data[d])
      BY DEF AnswersInv, AnswersOf
    <2>2. \A v \in Int : FromSmaller(merged[d], v) = FromSmaller(data[d], v)
      BY <2>1, MergedKeeps DEF Parts
    <2>3. ASSUME NEW seq \in Seq(Edges)
          PROVE  {Smaller(seq[i]) : i \in DOMAIN seq} \subseteq Int
      <3>1. \A i \in DOMAIN seq : seq[i] \in Edges
        OBVIOUS
      <3>2. 1 \in Nat \ {0}
        OBVIOUS
      <3> QED
        BY <3>1, <3>2, BucketsAreNumbers
    <2> QED
      BY <2>1, <2>2, <2>3
  <1> QED
    BY <1>1, Answers, PTL

\* Type correctness, with one actor for each partition of a run in progress.
THEOREM TypeCorrect == Spec => []TypeOK
PROOF
  <1>1. AnswersInv => TypeOK
    <2> SUFFICES ASSUME AnswersInv PROVE TypeOK
      OBVIOUS
    <2>1. ASSUME NEW d \in Drivers
          PROVE  actors[d] \in [1 .. (IF d \in Running THEN partitions[d] ELSE 0) -> AllStates]
      <3>1. /\ actors[d] \in Seq(AllStates)
            /\ Len(actors[d]) = IF d \in Running THEN partitions[d] ELSE 0
        BY DEF AnswersInv, PlacementInv
      <3>2. actors[d] \in [1 .. Len(actors[d]) -> AllStates]
        BY <3>1
      <3> QED
        BY <3>1, <3>2
    <2>2. \A d \in Drivers : counted[d] \in Nat
      BY DEF AnswersInv
    <2> QED
      BY <2>1, <2>2 DEF AnswersInv, PlacementInv, TypeOK
  <1> QED
    BY <1>1, Answers, PTL
=============================================================================
