----------------------------- MODULE SSSPProofs -----------------------------
(***************************************************************************)
(* Theorems about SSSP, for every set of vertices, every dataset with      *)
(* integer weights of any sign and every max_iterations.                   *)
(*                                                                         *)
(* The result is compared with no path: a feasible potential is an         *)
(* assignment of numbers to vertices that is at most 0 at the source and   *)
(* along no edge grows by more than the weight.  Every feasible potential  *)
(* is below the distances at all times, and the distances of a converged   *)
(* run grow along no edge by more than the weight themselves: they are the *)
(* largest, which is what shortest distances are.  (If a negative cycle    *)
(* can be reached from the source there is no feasible potential, and the  *)
(* run does not converge.)                                                 *)
(***************************************************************************)
EXTENDS SSSP, FiniteSetTheorems, WellFoundedInduction, TLAPS

SourceIsNear == LessEq(distances[Source], 0)

\* Everything next_active held has become active when the loop ends.
EndIsClean == done => next_active = Nowhere

\* The loop is not entered when the supersteps are used up.
Room == ~done => iterations < MaxIterations

\* The inductive invariant behind ConvergedIsFixpoint.
Inv ==
  /\ TypeOK
  /\ NextActiveIsCurrent
  /\ RelaxedOrPending
  /\ SourceIsNear
  /\ EndIsClean
  /\ Room

Feasible(pot) ==
  /\ pot[Source] <= 0
  /\ \A e \in data : pot[Dst(e)] <= pot[Src(e)] + Weight(e)

\* All three dictionaries are above every feasible potential.
NeverTooNear ==
  \A pot \in [Nodes -> Int] : Feasible(pot) =>
    \A v \in Nodes :
      /\ LessEq(pot[v], distances[v])
      /\ LessEq(pot[v], active[v])
      /\ LessEq(pot[v], next_active[v])

-----------------------------------------------------------------------------
LEMMA EdgeType ==
  ASSUME NEW e \in Candidates
  PROVE  Src(e) \in Nodes /\ Dst(e) \in Nodes /\ Weight(e) \in Int
BY GraphAssumption DEF Src, Dst, Weight

LEMMA InitInv == Init => Inv
PROOF
  <1> SUFFICES ASSUME Init PROVE Inv
    OBVIOUS
  <1> USE GraphAssumption, InfAssumption, MaxIterationsAssumption DEF Init
  <1>1. /\ Nowhere \in Distance
        /\ [Nowhere EXCEPT ![Source] = 0] \in Distance
        /\ \A v \in Nodes : Nowhere[v] = Inf
        /\ \A v \in Nodes : [Nowhere EXCEPT ![Source] = 0][v] =
             IF v = Source THEN 0 ELSE Inf
    BY DEF Nowhere, Distance
  <1>2. data \subseteq Candidates
    OBVIOUS
  <1>3. TypeOK
    BY <1>1, <1>2 DEF TypeOK, EdgesOf
  <1>4. RelaxedOrPending
    <2> SUFFICES ASSUME NEW e \in data, distances[Src(e)] # Inf
                 PROVE  e \in unsent /\ active[Src(e)] = distances[Src(e)]
      BY DEF RelaxedOrPending
    <2> QED
      BY <1>1, <1>2, EdgeType DEF EdgesOf
  <1>5. NextActiveIsCurrent /\ EndIsClean
    BY <1>1 DEF NextActiveIsCurrent, EndIsClean
  <1>6. SourceIsNear
    BY <1>1 DEF SourceIsNear, LessEq
  <1>7. Room
    <2>1. ~done => MaxIterations # 0
      BY Zenon
    <2> QED
      BY <2>1 DEF Room
  <1> QED
    BY <1>3, <1>4, <1>5, <1>6, <1>7 DEF Inv

\* What one message does to the two dictionaries.
LEMMA SendEffect ==
  ASSUME TypeOK, NEW e \in Candidates, Send(e)
  PROVE  LET c == active[Src(e)] + Weight(e) IN
         /\ e \in data /\ active[Src(e)] \in Int /\ c \in Int
         /\ LessEq(distances'[Dst(e)], c)
         /\ \A v \in Nodes :
              \/ /\ distances'[v] = distances[v]
                 /\ next_active'[v] = next_active[v]
              \/ /\ v = Dst(e)
                 /\ distances'[v] = c /\ Less(c, distances[v])
                 /\ next_active'[v] = IF Less(c, next_active[v])
                                        THEN c ELSE next_active[v]
PROOF
  <1> DEFINE c == active[Src(e)] + Weight(e)
  <1>1. Src(e) \in Nodes /\ Dst(e) \in Nodes /\ Weight(e) \in Int
    BY EdgeType
  <1>2. /\ e \in data /\ active[Src(e)] # Inf /\ active \in Distance
        /\ distances \in Distance /\ next_active \in Distance
    BY DEF TypeOK, Send
  <1>3. active[Src(e)] \in Int /\ c \in Int
    BY <1>1, <1>2 DEF Distance
  <1>4. distances[Dst(e)] \in Int \cup {Inf}
    BY <1>1, <1>2 DEF Distance
  <1> HIDE DEF c
  <1>5. /\ distances' = IF Less(c, distances[Dst(e)])
                          THEN [distances EXCEPT ![Dst(e)] = c] ELSE distances
        /\ next_active' = IF Less(c, distances[Dst(e)]) /\ Less(c, next_active[Dst(e)])
                            THEN [next_active EXCEPT ![Dst(e)] = c]
                            ELSE next_active
    BY DEF Send, c
  <1>6. c # Inf
    BY <1>3, InfAssumption
  <1>7. LessEq(distances'[Dst(e)], c)
    <2>1. CASE Less(c, distances[Dst(e)])
      <3>1. distances'[Dst(e)] = c
        BY <2>1, <1>1, <1>2, <1>5 DEF Distance
      <3> QED
        BY <3>1, <1>3, <1>6 DEF LessEq
    <2>2. CASE ~Less(c, distances[Dst(e)])
      BY <2>2, <1>3, <1>4, <1>5, <1>6 DEF Less, LessEq
    <2> QED
      BY <2>1, <2>2
  <1>8. ASSUME NEW v \in Nodes
        PROVE  \/ /\ distances'[v] = distances[v]
                  /\ next_active'[v] = next_active[v]
               \/ /\ v = Dst(e)
                  /\ distances'[v] = c /\ Less(c, distances[v])
                  /\ next_active'[v] = IF Less(c, next_active[v])
                                         THEN c ELSE next_active[v]
    BY <1>1, <1>2, <1>5 DEF Distance
  <1> QED
    BY <1>2, <1>3, <1>7, <1>8 DEF c

\* With NextActiveIsCurrent the inner test succeeds whenever the outer does.
LEMMA SendActivates ==
  ASSUME TypeOK, NextActiveIsCurrent, NEW e \in Candidates, Send(e),
         NEW v \in Nodes, distances'[v] # distances[v]
  PROVE  /\ next_active'[v] = distances'[v]
         /\ distances'[v] \in Int
         /\ LessEq(distances'[v], distances[v])
PROOF
  <1> DEFINE c == active[Src(e)] + Weight(e)
  <1>1. /\ c \in Int /\ distances'[v] = c /\ Less(c, distances[v])
        /\ next_active'[v] = IF Less(c, next_active[v]) THEN c ELSE next_active[v]
    BY SendEffect
  <1>2. /\ distances[v] \in Int \cup {Inf}
        /\ next_active[v] \in {Inf, distances[v]}
    BY DEF TypeOK, Distance, NextActiveIsCurrent
  <1> HIDE DEF c
  <1>3. Less(c, next_active[v])
    BY <1>1, <1>2 DEF Less
  <1> QED
    BY <1>1, <1>2, <1>3, InfAssumption DEF Less, LessEq

LEMMA SendInv == ASSUME Inv, NEW e \in Candidates, Send(e) PROVE Inv'
PROOF
  <1> DEFINE c == active[Src(e)] + Weight(e)
  <1>0. TypeOK /\ NextActiveIsCurrent /\ RelaxedOrPending /\ SourceIsNear
    BY DEF Inv
  <1>1. /\ ~done /\ e \in unsent /\ unsent' = unsent \ {e}
        /\ UNCHANGED <<data, active, iterations, done>>
    BY DEF Send
  <1>2. /\ e \in data /\ active[Src(e)] \in Int /\ c \in Int
        /\ LessEq(distances'[Dst(e)], c)
    BY <1>0, SendEffect
  <1>3. \A v \in Nodes :
          \/ /\ distances'[v] = distances[v] /\ next_active'[v] = next_active[v]
          \/ /\ distances'[v] \in Int /\ next_active'[v] = distances'[v]
             /\ LessEq(distances'[v], distances[v])
    <2> SUFFICES ASSUME NEW v \in Nodes
                 PROVE  \/ /\ distances'[v] = distances[v]
                           /\ next_active'[v] = next_active[v]
                        \/ /\ distances'[v] \in Int /\ next_active'[v] = distances'[v]
                           /\ LessEq(distances'[v], distances[v])
      OBVIOUS
    <2>1. CASE distances'[v] = distances[v]
      <3>1. distances[v] \in Int \cup {Inf}
        BY <1>0 DEF TypeOK, Distance
      <3>2. ~(distances'[v] = c /\ Less(c, distances[v]))
        BY <2>1, <3>1, <1>2, InfAssumption DEF Less
      <3> QED
        BY <2>1, <3>2, <1>0, SendEffect
    <2>2. CASE distances'[v] # distances[v]
      BY <2>2, <1>0, SendActivates
    <2> QED
      BY <2>1, <2>2
  <1> HIDE DEF c
  <1>4. TypeOK'
    <2>1. distances' \in Distance /\ next_active' \in Distance
      <3>1. /\ DOMAIN distances' = Nodes /\ DOMAIN next_active' = Nodes
            /\ distances' = [v \in Nodes |-> distances'[v]]
            /\ next_active' = [v \in Nodes |-> next_active'[v]]
        BY <1>0 DEF TypeOK, Distance, Send
      <3>2. \A v \in Nodes : /\ distances'[v] \in Int \cup {Inf}
                             /\ next_active'[v] \in Int \cup {Inf}
        BY <1>0, <1>3 DEF TypeOK, Distance
      <3> QED
        BY <3>1, <3>2 DEF Distance
    <2> QED
      BY <1>0, <1>1, <2>1 DEF TypeOK
  <1>5. NextActiveIsCurrent'
    BY <1>0, <1>3 DEF NextActiveIsCurrent
  <1>6. RelaxedOrPending'
    <2> SUFFICES ASSUME NEW f \in data,
                        distances'[Src(f)] # Inf, next_active'[Src(f)] = Inf
                 PROVE  \/ LessEq(distances'[Dst(f)], distances'[Src(f)] + Weight(f))
                        \/ f \in unsent' /\ active'[Src(f)] = distances'[Src(f)]
      BY <1>1 DEF RelaxedOrPending
    <2>1. Src(f) \in Nodes /\ Dst(f) \in Nodes /\ Weight(f) \in Int
      BY <1>0, EdgeType DEF TypeOK
    <2>2. /\ distances'[Src(f)] = distances[Src(f)]
          /\ next_active[Src(f)] = Inf
      BY <1>3, <2>1, InfAssumption
    <2>3. LessEq(distances'[Dst(f)], distances[Dst(f)])
      <3>1. distances[Dst(f)] \in Int \cup {Inf}
        BY <1>0, <2>1 DEF TypeOK, Distance
      <3> QED
        BY <3>1, <1>3, <2>1 DEF LessEq
    <2>4. /\ distances[Src(f)] \in Int
          /\ distances[Dst(f)] \in Int \cup {Inf}
          /\ distances'[Dst(f)] \in Int \cup {Inf}
      BY <1>0, <1>4, <2>1, <2>2 DEF TypeOK, Distance
    <2>5. CASE LessEq(distances[Dst(f)], distances[Src(f)] + Weight(f))
      BY <2>1, <2>2, <2>3, <2>4, <2>5, InfAssumption DEF LessEq
    <2>6. CASE f \in unsent /\ active[Src(f)] = distances[Src(f)]
      <3>1. CASE f = e
        BY <2>2, <2>6, <3>1, <1>2 DEF c
      <3>2. CASE f # e
        BY <2>2, <2>6, <3>2, <1>1
      <3> QED
        BY <3>1, <3>2
    <2> QED
      BY <1>0, <2>2, <2>4, <2>5, <2>6, InfAssumption DEF RelaxedOrPending
  <1>7. SourceIsNear'
    <2>1. distances[Source] \in Int
      BY <1>0, GraphAssumption DEF TypeOK, Distance, SourceIsNear, LessEq
    <2>2. distances'[Source] = distances[Source]
          \/ (distances'[Source] \in Int /\ LessEq(distances'[Source], distances[Source]))
      BY <1>3, GraphAssumption
    <2> QED
      BY <1>0, <2>1, <2>2, InfAssumption DEF SourceIsNear, LessEq
  <1>8. EndIsClean' /\ Room'
    BY <1>1 DEF EndIsClean, Room, Inv
  <1> QED
    BY <1>4, <1>5, <1>6, <1>7, <1>8 DEF Inv

LEMMA EndSuperstepInv == ASSUME Inv, EndSuperstep PROVE Inv'
PROOF
  <1>0. TypeOK /\ NextActiveIsCurrent /\ RelaxedOrPending /\ SourceIsNear
    BY DEF Inv
  <1>1. /\ ~done /\ unsent = {} /\ iterations' = iterations + 1
        /\ active' = next_active /\ next_active' = Nowhere
        /\ unsent' = EdgesOf(next_active)
        /\ done' = (next_active = Nowhere \/ iterations' = MaxIterations)
        /\ UNCHANGED <<data, distances>>
    BY DEF EndSuperstep
  <1>2. Nowhere \in Distance /\ \A v \in Nodes : Nowhere[v] = Inf
    BY DEF Nowhere, Distance
  <1>3. Room
    BY DEF Inv
  <1>4. TypeOK'
    <2>1. iterations' \in 0 .. MaxIterations
      BY <1>0, <1>1, <1>3, MaxIterationsAssumption DEF TypeOK, Room
    <2>2. unsent' \subseteq data' /\ \A e \in unsent' : active'[Src(e)] # Inf
      BY <1>1 DEF EdgesOf
    <2>3. done' \in BOOLEAN
      BY <1>1
    <2> QED
      BY <1>0, <1>1, <1>2, <2>1, <2>2, <2>3 DEF TypeOK
  <1>5. NextActiveIsCurrent'
    BY <1>1, <1>2 DEF NextActiveIsCurrent
  <1>6. RelaxedOrPending'
    <2> SUFFICES ASSUME NEW e \in data,
                        distances[Src(e)] # Inf,
                        ~LessEq(distances[Dst(e)], distances[Src(e)] + Weight(e))
                 PROVE  e \in unsent' /\ active'[Src(e)] = distances[Src(e)]
      BY <1>1 DEF RelaxedOrPending
    <2>1. next_active[Src(e)] # Inf
      BY <1>0, <1>1 DEF RelaxedOrPending
    <2>2. Src(e) \in Nodes
      BY <1>0, EdgeType DEF TypeOK
    <2> QED
      BY <1>0, <1>1, <2>1, <2>2 DEF NextActiveIsCurrent, EdgesOf
  <1>7. SourceIsNear'
    BY <1>0, <1>1 DEF SourceIsNear
  <1>8. EndIsClean'
    BY <1>1 DEF EndIsClean
  <1>9. Room'
    <2>1. iterations \in Nat /\ iterations < MaxIterations
      BY <1>0, <1>1, <1>3, MaxIterationsAssumption DEF TypeOK, Room
    <2>2. ~done' => iterations' # MaxIterations
      BY <1>1, Zenon
    <2> QED
      BY <2>1, <2>2, <1>1, MaxIterationsAssumption DEF Room
  <1> QED
    BY <1>4, <1>5, <1>6, <1>7, <1>8, <1>9 DEF Inv

LEMMA StutterInv == ASSUME Inv, UNCHANGED vars PROVE Inv'
BY DEF Inv, vars, TypeOK, NextActiveIsCurrent, RelaxedOrPending, SourceIsNear,
       EndIsClean, Room, Distance, LessEq

\* The invariant holds for every graph and every bound on the supersteps.
THEOREM Invariance == Spec => []Inv
PROOF
  <1>1. Init => Inv
    BY InitInv
  <1>2. Inv /\ [Next]_vars => Inv'
    BY SendInv, EndSuperstepInv, StutterInv DEF Next
  <1> QED
    BY <1>1, <1>2, PTL DEF Spec

\* The dictionaries and the loop variables of run keep their types.
THEOREM TypeCorrect == Spec => []TypeOK
PROOF
  <1>1. Inv => TypeOK
    BY DEF Inv
  <1> QED
    BY <1>1, Invariance, PTL

\* The inner test of the loop of run never fails: what a vertex sends next is
\* the distance it has.
THEOREM ActiveIsCurrent == Spec => []NextActiveIsCurrent
PROOF
  <1>1. Inv => NextActiveIsCurrent
    BY DEF Inv
  <1> QED
    BY <1>1, Invariance, PTL

\* No improvement is forgotten by the loop of run.
THEOREM NothingForgotten == Spec => []RelaxedOrPending
PROOF
  <1>1. Inv => RelaxedOrPending
    BY DEF Inv
  <1> QED
    BY <1>1, Invariance, PTL

\* A result with converged=True is a fixpoint of the relaxation.
THEOREM ConvergedRunIsDone == Spec => []ConvergedIsFixpoint
PROOF
  <1>1. Inv => ConvergedIsFixpoint
    <2> SUFFICES ASSUME Inv, done, active = Nowhere
                 PROVE  /\ SourceIsNear
                        /\ \A e \in data : distances[Src(e)] # Inf =>
                             LessEq(distances[Dst(e)], distances[Src(e)] + Weight(e))
      BY DEF ConvergedIsFixpoint, Converged, SourceIsNear
    <2>1. \A v \in Nodes : Nowhere[v] = Inf
      BY DEF Nowhere
    <2>2. \A e \in data : Src(e) \in Nodes
      BY EdgeType DEF Inv, TypeOK
    <2>3. unsent = {} /\ next_active = Nowhere
      BY <2>1, <2>2 DEF Inv, TypeOK, EndIsClean
    <2> QED
      BY <2>1, <2>2, <2>3 DEF Inv, RelaxedOrPending
  <1> QED
    BY <1>1, Invariance, PTL

-----------------------------------------------------------------------------
\* Every step keeps the dictionaries above a potential that they are above.
LEMMA SendNotTooNear ==
  ASSUME TypeOK, NeverTooNear, NEW e \in Candidates, Send(e)
  PROVE  NeverTooNear'
PROOF
  <1> SUFFICES ASSUME NEW pot \in [Nodes -> Int], Feasible(pot)', NEW v \in Nodes
               PROVE  /\ LessEq(pot[v], distances'[v])
                      /\ LessEq(pot[v], active'[v])
                      /\ LessEq(pot[v], next_active'[v])
    BY DEF NeverTooNear
  <1> DEFINE c == active[Src(e)] + Weight(e)
  <1>1. active' = active /\ data' = data
    BY DEF Send
  <1>2. Feasible(pot)
    BY <1>1 DEF Feasible
  <1>3. \A w \in Nodes : /\ LessEq(pot[w], distances[w])
                         /\ LessEq(pot[w], active[w])
                         /\ LessEq(pot[w], next_active[w])
    BY <1>2 DEF NeverTooNear
  <1>4. /\ Src(e) \in Nodes /\ Dst(e) \in Nodes /\ Weight(e) \in Int
        /\ pot[Src(e)] \in Int /\ pot[Dst(e)] \in Int
    BY EdgeType
  <1>5. e \in data /\ active[Src(e)] \in Int /\ c \in Int
    BY SendEffect
  <1>6. pot[Dst(e)] <= pot[Src(e)] + Weight(e)
    BY <1>2, <1>5 DEF Feasible
  <1>7. pot[Src(e)] <= active[Src(e)]
    BY <1>3, <1>4, <1>5, InfAssumption DEF LessEq
  <1>8. pot[Dst(e)] <= c
    BY <1>4, <1>5, <1>6, <1>7
  <1>9. LessEq(pot[Dst(e)], c)
    BY <1>4, <1>8, InfAssumption DEF LessEq
  <1>10. \/ distances'[v] = distances[v] /\ next_active'[v] = next_active[v]
         \/ /\ v = Dst(e) /\ distances'[v] = c
            /\ next_active'[v] = IF Less(c, next_active[v])
                                   THEN c ELSE next_active[v]
    BY SendEffect
  <1> HIDE DEF c
  <1> QED
    BY <1>1, <1>3, <1>9, <1>10

LEMMA InitNotTooNear == Init => NeverTooNear
PROOF
  <1> SUFFICES ASSUME Init, NEW pot \in [Nodes -> Int], Feasible(pot), NEW v \in Nodes
               PROVE  /\ LessEq(pot[v], distances[v])
                      /\ LessEq(pot[v], active[v])
                      /\ LessEq(pot[v], next_active[v])
    BY DEF NeverTooNear
  <1>1. /\ Nowhere[v] = Inf
        /\ [Nowhere EXCEPT ![Source] = 0][v] = IF v = Source THEN 0 ELSE Inf
    BY DEF Nowhere
  <1>2. pot[v] \in Int
    OBVIOUS
  <1>3. v = Source => pot[v] <= 0
    BY DEF Feasible
  <1> QED
    BY <1>1, <1>2, <1>3, InfAssumption DEF Init, LessEq

LEMMA EndNotTooNear == ASSUME NeverTooNear, EndSuperstep PROVE NeverTooNear'
PROOF
  <1>1. /\ active' = next_active /\ next_active' = Nowhere
        /\ data' = data /\ distances' = distances
    BY DEF EndSuperstep
  <1>2. \A v \in Nodes : Nowhere[v] = Inf
    BY DEF Nowhere
  <1> QED
    BY <1>1, <1>2 DEF NeverTooNear, Feasible, LessEq

\* No distance is ever below a feasible potential: with ConvergedIsFixpoint,
\* the distances of a converged run are the largest feasible ones.
THEOREM DistancesAreAbovePotentials == Spec => []NeverTooNear
PROOF
  <1>1. Init => NeverTooNear
    BY InitNotTooNear
  <1>2. TypeOK /\ NeverTooNear /\ [Next]_vars => NeverTooNear'
    <2> SUFFICES ASSUME TypeOK, NeverTooNear, [Next]_vars PROVE NeverTooNear'
      OBVIOUS
    <2>1. CASE UNCHANGED vars
      BY <2>1 DEF vars, NeverTooNear, Feasible
    <2>2. CASE Next
      BY <2>2, SendNotTooNear, EndNotTooNear DEF Next
    <2> QED
      BY <2>1, <2>2
  <1> QED
    BY <1>1, <1>2, TypeCorrect, PTL DEF Spec

-----------------------------------------------------------------------------
(* The reference: what WithinHops computes, for any finite dataset.        *)

\* The order of the natural numbers as a relation, and its least elements.
Smaller == {p \in Nat \X Nat : p[1] < p[2]}

LEMMA LeastNatural ==
  ASSUME NEW S, S \subseteq Nat, S # {}
  PROVE  \E m \in S : \A n \in S : m <= n
PROOF
  <1>1. IsWellFoundedOn(Smaller, Nat)
    BY NatLessThanWellFounded DEF OpToRel, Smaller
  <1>2. PICK m \in S : \A n \in S : ~ (<<n, m>> \in Smaller)
    BY <1>1, WFMin
  <1>3. ASSUME NEW n \in S
        PROVE  m <= n
    <2>1. m \in Nat /\ n \in Nat
      OBVIOUS
    <2>2. n < m => <<n, m>> \in Smaller
      BY <2>1 DEF Smaller
    <2> QED
      BY <1>2, <2>1, <2>2
  <1> QED
    BY <1>3

\* A finite set of integers has a least element: one with the fewest below.
LEMMA LeastInteger ==
  ASSUME NEW S, S \subseteq Int, S # {}, IsFiniteSet(S)
  PROVE  \E m \in S : \A n \in S : m <= n
PROOF
  <1> DEFINE Below(m) == {n \in S : n < m}
             Counts == {Cardinality(Below(m)) : m \in S}
  <1>1. \A m \in S : IsFiniteSet(Below(m)) /\ Cardinality(Below(m)) \in Nat
    BY FS_Subset, FS_CardinalityType
  <1>2. PICK m \in S : \A n \in S : Cardinality(Below(m)) <= Cardinality(Below(n))
    <2>1. Counts \subseteq Nat /\ Counts # {}
      BY <1>1
    <2>2. PICK c \in Counts : \A d \in Counts : c <= d
      BY <2>1, LeastNatural
    <2> QED
      BY <2>2
  <1>3. ASSUME NEW n \in S, n < m
        PROVE  FALSE
    <2>1. IsFiniteSet(Below(m)) /\ Below(n) \in SUBSET Below(m) /\ Below(m) # Below(n)
      <3>1. \A k \in S : k \in Int
        OBVIOUS
      <3>2. \A k \in S : k < n => k < m
        BY <1>3, <3>1
      <3>3. Below(n) \subseteq Below(m)
        BY <3>2, Zenon
      <3>4. ~(n < n) /\ n \in Below(m)
        BY <1>3, <3>1
      <3> QED
        BY <1>1, <3>3, <3>4, Zenon
    <2> HIDE DEF Below
    <2>2. Cardinality(Below(n)) <= Cardinality(Below(m)) /\ Cardinality(Below(n)) # Cardinality(Below(m))
      BY <2>1, FS_Subset
    <2>3. Cardinality(Below(m)) <= Cardinality(Below(n))
      BY <1>2
    <2> QED
      BY <1>1, <2>2, <2>3
  <1> QED
    BY <1>3

LEMMA LeastIsLeast ==
  ASSUME NEW S, S \subseteq Int \cup {Inf}, S # {}, IsFiniteSet(S)
  PROVE  Least(S) \in S /\ \A d \in S : LessEq(Least(S), d)
PROOF
  <1>1. CASE S \subseteq {Inf}
    BY <1>1 DEF Least, LessEq
  <1>2. CASE ~(S \subseteq {Inf})
    <2> DEFINE T == S \ {Inf}
    <2>1. T \subseteq Int /\ T # {} /\ IsFiniteSet(T)
      BY <1>2, FS_Subset
    <2>2. \E m \in T : \A n \in T : m <= n
      BY <2>1, LeastInteger
    <2>3. Least(S) = CHOOSE m \in T : \A n \in T : m <= n
      BY <1>2 DEF Least
    <2> HIDE DEF T
    <2>4. Least(S) \in T /\ \A n \in T : Least(S) <= n
      BY <2>2, <2>3
    <2> QED
      BY <2>4 DEF LessEq, T
  <1> QED
    BY <1>1, <1>2

\* The chains of `last` steps from `first`, and that there always is one.
Chains(S, first, step, last) ==
  {g \in [0 .. last -> S] :
     g[0] = first /\ \A n \in 0 .. last - 1 : g[n + 1] = step[g[n]]}

LEMMA ChainsExist ==
  ASSUME NEW S, NEW first \in S, NEW step \in [S -> S], NEW last \in Nat
  PROVE  Chains(S, first, step, last) # {}
PROOF
  <1> DEFINE Upto(m) == Chains(S, first, step, m) # {}
             Missing == {m \in Nat : ~Upto(m)}
  <1>1. Upto(0)
    <2>1. [n \in {0} |-> first] \in [{0} -> S] /\ 0 .. 0 = {0} /\ 0 .. 0 - 1 = {}
      OBVIOUS
    <2>2. [n \in {0} |-> first] \in Chains(S, first, step, 0)
      BY <2>1, Zenon DEF Chains
    <2> QED
      BY <2>2
  <1>2. ASSUME NEW m \in Nat, Upto(m)
        PROVE  Upto(m + 1)
    <2>1. PICK g \in [0 .. m -> S] :
            g[0] = first /\ \A n \in 0 .. m - 1 : g[n + 1] = step[g[n]]
      BY <1>2 DEF Chains
    <2> DEFINE h == [n \in 0 .. m + 1 |-> IF n <= m THEN g[n] ELSE step[g[m]]]
    <2>2. h \in [0 .. m + 1 -> S] /\ h[0] = first
      BY <2>1
    <2>3. ASSUME NEW n \in 0 .. (m + 1) - 1
          PROVE  h[n + 1] = step[h[n]]
      <3>1. CASE n = m
        BY <3>1
      <3>2. CASE n # m
        BY <2>1, <3>2
      <3> QED
        BY <3>1, <3>2
    <2> HIDE DEF h
    <2>4. h \in Chains(S, first, step, m + 1)
      BY <2>2, <2>3 DEF Chains
    <2> QED
      BY <2>4
  <1> HIDE DEF Upto
  <1>3. CASE Missing = {}
    BY <1>3 DEF Upto
  <1>4. CASE Missing # {}
    <2>1. PICK m \in Missing : \A n \in Missing : m <= n
      BY <1>4, LeastNatural
    <2>2. m \in Nat /\ ~Upto(m) /\ m # 0
      BY <1>1
    <2>3. m - 1 \in Nat /\ Upto(m - 1)
      BY <2>1, <2>2
    <2> QED
      BY <1>2, <2>2, <2>3
  <1> QED
    BY <1>3, <1>4

\* What is known of a dataset: it is a finite set of edges.
FiniteData == data \subseteq Candidates /\ IsFiniteSet(data)

\* The least weight of a walk to v that is one of `row` or goes one edge on.
Offers(row, v) ==
  {row[v]} \cup {row[Src(e)] + Weight(e) :
                   e \in {f \in data : Dst(f) = v /\ row[Src(f)] # Inf}}

OneMore(row, v) == Least(Offers(row, v))

LEMMA OneMoreIsLeast ==
  ASSUME FiniteData, NEW row \in Distance, NEW v \in Nodes
  PROVE  /\ OneMore(row, v) \in Int \cup {Inf}
         /\ OneMore(row, v) \in Offers(row, v)
         /\ \A d \in Offers(row, v) : LessEq(OneMore(row, v), d)
PROOF
  <1> DEFINE E == {f \in data : Dst(f) = v /\ row[Src(f)] # Inf}
             T == {row[Src(e)] + Weight(e) : e \in E}
  <1>1. IsFiniteSet(E)
    BY FS_Subset DEF FiniteData
  <1>2. IsFiniteSet(T)
    <2> DEFINE h == [e \in E |-> row[Src(e)] + Weight(e)]
    <2>1. h \in Surjection(E, T)
      BY DEF Surjection
    <2> HIDE DEF E, T, h
    <2> QED
      BY <1>1, <2>1, FS_Surjection
  <1>3. T \subseteq Int
    <2> SUFFICES ASSUME NEW e \in E PROVE row[Src(e)] + Weight(e) \in Int
      OBVIOUS
    <2>1. Src(e) \in Nodes /\ Weight(e) \in Int /\ row[Src(e)] # Inf
      BY EdgeType DEF FiniteData
    <2> QED
      BY <2>1 DEF Distance
  <1>4. Offers(row, v) = T \cup {row[v]}
    BY DEF Offers
  <1>5. row[v] \in Int \cup {Inf}
    BY DEF Distance
  <1> HIDE DEF T
  <1>6. /\ Offers(row, v) \subseteq Int \cup {Inf} /\ Offers(row, v) # {}
        /\ IsFiniteSet(Offers(row, v))
    BY <1>2, <1>3, <1>4, <1>5, FS_AddElement
  <1> QED
    BY <1>6, LeastIsLeast DEF OneMore

\* WithinHops computes what it says: its rows come one from the other.
LEMMA WithinHopsRows ==
  ASSUME FiniteData
  PROVE  /\ WithinHops[0] = [Nowhere EXCEPT ![Source] = 0]
         /\ \A n \in 0 .. MaxIterations + 1 : WithinHops[n] \in Distance
         /\ \A n \in 0 .. MaxIterations : \A v \in Nodes :
              WithinHops[n + 1][v] = OneMore(WithinHops[n], v)
PROOF
  <1> USE MaxIterationsAssumption
  <1> DEFINE first == [Nowhere EXCEPT ![Source] = 0]
             last == MaxIterations + 1
             step == [row \in Distance |-> [v \in Nodes |-> OneMore(row, v)]]
  <1>1. first \in Distance
    BY GraphAssumption DEF Distance, Nowhere
  <1>2. step \in [Distance -> Distance]
    BY OneMoreIsLeast DEF Distance
  <1>3. PICK g \in [0 .. last -> Distance] :
          g[0] = first /\ \A n \in 0 .. last - 1 : g[n + 1] = step[g[n]]
    <2>1. last \in Nat
      OBVIOUS
    <2> HIDE DEF first, last, step
    <2>2. Chains(Distance, first, step, last) # {}
      BY <1>1, <1>2, <2>1, ChainsExist
    <2> QED
      BY <2>2 DEF Chains
  <1>4. ASSUME NEW n \in 0 .. last
        PROVE  g[n] = IF n = 0 THEN first ELSE [v \in Nodes |-> OneMore(g[n - 1], v)]
    <2>1. CASE n = 0
      BY <1>3, <2>1
    <2>2. CASE n # 0
      <3>1. n - 1 \in 0 .. last - 1 /\ (n - 1) + 1 = n /\ n - 1 \in 0 .. last
        BY <2>2
      <3>2. g[n] = step[g[n - 1]] /\ g[n - 1] \in Distance
        BY <1>3, <3>1
      <3> QED
        BY <2>2, <3>2
    <2> QED
      BY <2>1, <2>2
  <1>5. g = [n \in 0 .. MaxIterations + 1 |->
               IF n = 0 THEN [Nowhere EXCEPT ![Source] = 0]
               ELSE [v \in Nodes |-> OneMore(g[n - 1], v)]]
    BY <1>4
  <1>6. WithinHops = [n \in 0 .. MaxIterations + 1 |->
                        IF n = 0 THEN [Nowhere EXCEPT ![Source] = 0]
                        ELSE [v \in Nodes |-> OneMore(WithinHops[n - 1], v)]]
    BY <1>5, Zenon DEF WithinHops, OneMore, Offers
  <1>7. WithinHops[0] = first
    BY <1>6
  <1>8. \A n \in 0 .. MaxIterations :
          WithinHops[n + 1] = [v \in Nodes |-> OneMore(WithinHops[n], v)]
    <2> SUFFICES ASSUME NEW n \in 0 .. MaxIterations
                 PROVE  WithinHops[n + 1] = [v \in Nodes |-> OneMore(WithinHops[n], v)]
      OBVIOUS
    <2>1. n + 1 \in 0 .. MaxIterations + 1 /\ n + 1 # 0 /\ (n + 1) - 1 = n
      OBVIOUS
    <2> QED
      BY <1>6, <2>1
  <1>9. ASSUME NEW n \in 0 .. MaxIterations, WithinHops[n] \in Distance
        PROVE  WithinHops[n + 1] \in Distance
    <2>1. [v \in Nodes |-> OneMore(WithinHops[n], v)] \in [Nodes -> Int \cup {Inf}]
      BY <1>9, OneMoreIsLeast
    <2> QED
      BY <1>8, <2>1 DEF Distance
  <1>10. \A n \in 0 .. MaxIterations + 1 : WithinHops[n] \in Distance
    <2> DEFINE Bad == {n \in 0 .. MaxIterations + 1 : WithinHops[n] \notin Distance}
    <2> SUFFICES ASSUME Bad # {} PROVE FALSE
      OBVIOUS
    <2>1. PICK m \in Bad : \A n \in Bad : m <= n
      <3>1. Bad \subseteq Nat
        OBVIOUS
      <3> HIDE DEF Bad
      <3> QED
        BY <3>1, LeastNatural
    <2>2. m \in 0 .. MaxIterations + 1 /\ WithinHops[m] \notin Distance /\ m # 0
      BY <1>1, <1>7
    <2>3. m - 1 \in 0 .. MaxIterations /\ (m - 1) + 1 = m
      BY <2>2
    <2>4. WithinHops[m - 1] \in Distance
      BY <2>1, <2>3
    <2> QED
      BY <1>9, <2>2, <2>3, <2>4
  <1> QED
    BY <1>7, <1>8, <1>10

-----------------------------------------------------------------------------
(* Updates in place do not leak into the superstep.                        *)

\* Between two supersteps the distances are those of the walks with at most
\* `iterations` edges.  What an active vertex sends is that distance, the
\* edges of the others have nothing to offer, an edge that was used has been
\* taken into account, and only vertices that will be active have moved.
HopInv ==
  /\ FiniteData
  /\ \A v \in Nodes :
       /\ active[v] # Inf => active[v] = WithinHops[iterations][v]
       /\ next_active[v] = Inf => distances[v] = WithinHops[iterations][v]
       /\ LessEq(distances[v], WithinHops[iterations][v])
       /\ LessEq(WithinHops[iterations + 1][v], distances[v])
  /\ \A e \in data :
       /\ active[Src(e)] = Inf /\ WithinHops[iterations][Src(e)] # Inf =>
            LessEq(WithinHops[iterations][Dst(e)],
                   WithinHops[iterations][Src(e)] + Weight(e))
       /\ active[Src(e)] # Inf /\ e \notin unsent =>
            LessEq(distances[Dst(e)], active[Src(e)] + Weight(e))
  /\ done => \A v \in Nodes : distances[v] = WithinHops[iterations][v]

\* One row and the next, as the proofs below use them.
LEMMA NextRow ==
  ASSUME FiniteData, NEW n \in 0 .. MaxIterations, NEW v \in Nodes
  PROVE  /\ WithinHops[n][v] \in Int \cup {Inf}
         /\ WithinHops[n + 1][v] \in Int \cup {Inf}
         /\ LessEq(WithinHops[n + 1][v], WithinHops[n][v])
         /\ \A e \in data : Dst(e) = v /\ WithinHops[n][Src(e)] # Inf =>
              LessEq(WithinHops[n + 1][v], WithinHops[n][Src(e)] + Weight(e))
         /\ \/ WithinHops[n + 1][v] = WithinHops[n][v]
            \/ \E e \in data : /\ Dst(e) = v /\ WithinHops[n][Src(e)] # Inf
                               /\ WithinHops[n + 1][v] = WithinHops[n][Src(e)] + Weight(e)
PROOF
  <1>1. n \in 0 .. MaxIterations + 1
    BY MaxIterationsAssumption
  <1>2. /\ WithinHops[n] \in Distance
        /\ WithinHops[n + 1][v] = OneMore(WithinHops[n], v)
    BY <1>1, WithinHopsRows
  <1>3. WithinHops[n][v] \in Int \cup {Inf}
    BY <1>2 DEF Distance
  <1> DEFINE row == WithinHops[n]
  <1>4. /\ OneMore(row, v) \in Int \cup {Inf}
        /\ OneMore(row, v) \in Offers(row, v)
        /\ \A d \in Offers(row, v) : LessEq(OneMore(row, v), d)
    BY <1>2, OneMoreIsLeast
  <1>5. /\ row[v] \in Offers(row, v)
        /\ \A e \in data : Dst(e) = v /\ row[Src(e)] # Inf =>
             row[Src(e)] + Weight(e) \in Offers(row, v)
        /\ \A d \in Offers(row, v) :
             \/ d = row[v]
             \/ \E e \in data : /\ Dst(e) = v /\ row[Src(e)] # Inf
                                /\ d = row[Src(e)] + Weight(e)
    BY DEF Offers
  <1> HIDE DEF row
  <1>6. /\ LessEq(OneMore(row, v), row[v])
        /\ \A e \in data : Dst(e) = v /\ row[Src(e)] # Inf =>
             LessEq(OneMore(row, v), row[Src(e)] + Weight(e))
        /\ \/ OneMore(row, v) = row[v]
           \/ \E e \in data : /\ Dst(e) = v /\ row[Src(e)] # Inf
                              /\ OneMore(row, v) = row[Src(e)] + Weight(e)
    BY <1>4, <1>5, Zenon
  <1> QED
    BY <1>2, <1>3, <1>4, <1>6 DEF row

LEMMA SameData ==
  ASSUME data' = data
  PROVE  WithinHops' = WithinHops
PROOF
  BY Zenon DEF WithinHops

LEMMA InitHopInv == Init => HopInv
PROOF
  <1> SUFFICES ASSUME Init PROVE HopInv
    OBVIOUS
  <1>1. FiniteData /\ Inv
    BY InitInv DEF Init, FiniteData
  <1>2. /\ iterations = 0 /\ 0 \in 0 .. MaxIterations
        /\ distances = WithinHops[0] /\ active = WithinHops[0]
        /\ unsent = EdgesOf(active) /\ next_active = Nowhere
    BY <1>1, WithinHopsRows, MaxIterationsAssumption DEF Init
  <1>3. ASSUME NEW v \in Nodes
        PROVE  /\ LessEq(distances[v], WithinHops[0][v])
               /\ LessEq(WithinHops[0 + 1][v], distances[v])
    <2>1. WithinHops[0][v] \in Int \cup {Inf}
      BY <1>1, <1>2, NextRow
    <2>2. LessEq(WithinHops[0 + 1][v], WithinHops[0][v])
      BY <1>1, <1>2, NextRow
    <2> QED
      BY <1>2, <2>1, <2>2 DEF LessEq
  <1>4. \A e \in data : active[Src(e)] # Inf => e \in unsent
    BY <1>2 DEF EdgesOf
  <1> QED
    BY <1>1, <1>2, <1>3, <1>4 DEF HopInv

LEMMA SendHopInv ==
  ASSUME Inv, HopInv, NEW e \in Candidates, Send(e)
  PROVE  HopInv'
PROOF
  <1> DEFINE c == active[Src(e)] + Weight(e)
             best == WithinHops[iterations]
             more == WithinHops[iterations + 1]
  <1>0. TypeOK /\ NextActiveIsCurrent /\ FiniteData /\ iterations \in 0 .. MaxIterations
    BY DEF Inv, HopInv, TypeOK
  <1>1. /\ ~done /\ unsent' = unsent \ {e}
        /\ UNCHANGED <<data, active, iterations, done>>
    BY DEF Send
  <1>2. WithinHops' = WithinHops /\ FiniteData'
    BY <1>0, <1>1, SameData DEF FiniteData
  <1>3. /\ Src(e) \in Nodes /\ Dst(e) \in Nodes /\ Weight(e) \in Int
        /\ e \in data /\ active[Src(e)] \in Int /\ c \in Int
        /\ LessEq(distances'[Dst(e)], c)
    BY <1>0, EdgeType, SendEffect
  <1>4. c = best[Src(e)] + Weight(e) /\ best[Src(e)] # Inf
    BY <1>3, InfAssumption DEF HopInv
  <1>5. LessEq(more[Dst(e)], c)
    BY <1>0, <1>3, <1>4, NextRow
  <1>6. \A v \in Nodes :
          \/ distances'[v] = distances[v] /\ next_active'[v] = next_active[v]
          \/ /\ v = Dst(e) /\ distances'[v] = c /\ Less(c, distances[v])
             /\ next_active'[v] = c
    <2> SUFFICES ASSUME NEW v \in Nodes
                 PROVE  \/ distances'[v] = distances[v] /\ next_active'[v] = next_active[v]
                        \/ /\ v = Dst(e) /\ distances'[v] = c /\ Less(c, distances[v])
                           /\ next_active'[v] = c
      OBVIOUS
    <2>1. \/ distances'[v] = distances[v] /\ next_active'[v] = next_active[v]
          \/ /\ v = Dst(e) /\ distances'[v] = c /\ Less(c, distances[v])
             /\ next_active'[v] = IF Less(c, next_active[v]) THEN c ELSE next_active[v]
      BY <1>0, SendEffect
    <2>2. next_active[v] \in {Inf, distances[v]}
      BY <1>0 DEF NextActiveIsCurrent
    <2> HIDE DEF c
    <2> QED
      BY <2>1, <2>2 DEF Less
  <1>7. \A v \in Nodes : /\ best[v] \in Int \cup {Inf} /\ more[v] \in Int \cup {Inf}
                         /\ distances[v] \in Int \cup {Inf}
                         /\ LessEq(distances[v], best[v]) /\ LessEq(more[v], distances[v])
    BY <1>0, NextRow DEF HopInv, TypeOK, Distance
  <1> HIDE DEF c, best, more
  <1>8. ASSUME NEW v \in Nodes
        PROVE  /\ next_active'[v] = Inf => distances'[v] = best[v]
               /\ LessEq(distances'[v], best[v])
               /\ LessEq(more[v], distances'[v])
               /\ LessEq(distances'[v], distances[v])
    <2>1. CASE distances'[v] = distances[v] /\ next_active'[v] = next_active[v]
      BY <1>7, <2>1 DEF HopInv, LessEq, best
    <2>2. CASE v = Dst(e) /\ distances'[v] = c /\ Less(c, distances[v]) /\ next_active'[v] = c
      BY <1>3, <1>5, <1>7, <2>2, InfAssumption DEF LessEq, Less
    <2> QED
      BY <1>6, <2>1, <2>2
  <1>9. ASSUME NEW f \in data, active[Src(f)] # Inf, f \notin unsent'
        PROVE  LessEq(distances'[Dst(f)], active[Src(f)] + Weight(f))
    <2>1. Src(f) \in Nodes /\ Dst(f) \in Nodes /\ Weight(f) \in Int
      BY <1>0, EdgeType DEF FiniteData
    <2>2. CASE f = e
      BY <1>3, <2>2 DEF c
    <2>3. CASE f # e
      <3>1. LessEq(distances[Dst(f)], active[Src(f)] + Weight(f))
        BY <1>1, <1>9, <2>3 DEF HopInv
      <3>2. active[Src(f)] \in Int
        BY <1>0, <1>9, <2>1 DEF TypeOK, Distance
      <3>3. /\ distances[Dst(f)] \in Int \cup {Inf}
            /\ LessEq(distances'[Dst(f)], distances[Dst(f)])
            /\ distances'[Dst(f)] \in Int \cup {Inf}
        BY <1>3, <1>6, <1>7, <1>8, <2>1
      <3> QED
        BY <2>1, <3>1, <3>2, <3>3, InfAssumption DEF LessEq
    <2> QED
      BY <2>2, <2>3
  <1> QED
    BY <1>1, <1>2, <1>8, <1>9 DEF HopInv, best, more

LEMMA EndHopInv ==
  ASSUME Inv, HopInv, EndSuperstep
  PROVE  HopInv'
PROOF
  <1> DEFINE best == WithinHops[iterations]
             more == WithinHops[iterations + 1]
  <1>0. TypeOK /\ NextActiveIsCurrent /\ FiniteData /\ iterations \in 0 .. MaxIterations
    BY DEF Inv, HopInv, TypeOK
  <1>1. /\ unsent = {} /\ iterations' = iterations + 1
        /\ active' = next_active /\ next_active' = Nowhere
        /\ unsent' = EdgesOf(next_active)
        /\ UNCHANGED <<data, distances>>
    BY DEF EndSuperstep
  <1>2. WithinHops' = WithinHops /\ FiniteData'
    BY <1>0, <1>1, SameData DEF FiniteData
  <1>3. iterations + 1 \in 0 .. MaxIterations
    <2>1. iterations < MaxIterations
      BY DEF Inv, Room, EndSuperstep
    <2> QED
      BY <1>0, <2>1, MaxIterationsAssumption
  <1>4. \A v \in Nodes : /\ best[v] \in Int \cup {Inf} /\ more[v] \in Int \cup {Inf}
                         /\ distances[v] \in Int \cup {Inf}
                         /\ LessEq(distances[v], best[v]) /\ LessEq(more[v], distances[v])
    BY <1>0, NextRow DEF HopInv, TypeOK, Distance
  <1>5. ASSUME NEW e \in data, best[Src(e)] # Inf
        PROVE  /\ LessEq(distances[Dst(e)], best[Src(e)] + Weight(e))
               /\ Src(e) \in Nodes /\ Dst(e) \in Nodes /\ Weight(e) \in Int
    <2>1. Src(e) \in Nodes /\ Dst(e) \in Nodes /\ Weight(e) \in Int
      BY <1>0, EdgeType DEF FiniteData
    <2>2. CASE active[Src(e)] # Inf
      BY <1>1, <2>1, <2>2 DEF HopInv
    <2>3. CASE active[Src(e)] = Inf
      <3>1. LessEq(best[Dst(e)], best[Src(e)] + Weight(e))
        BY <1>5, <2>3 DEF HopInv
      <3>2. LessEq(distances[Dst(e)], best[Dst(e)])
        BY <1>4, <2>1
      <3>3. best[Src(e)] \in Int
        BY <1>4, <1>5, <2>1
      <3>4. distances[Dst(e)] \in Int \cup {Inf} /\ best[Dst(e)] \in Int \cup {Inf}
        BY <1>4, <2>1
      <3> HIDE DEF best
      <3> QED
        BY <2>1, <3>1, <3>2, <3>3, <3>4, InfAssumption DEF LessEq
    <2> QED
      BY <2>1, <2>2, <2>3
  <1> HIDE DEF best, more
  <1>6. \A v \in Nodes : distances[v] = more[v]
    <2> SUFFICES ASSUME NEW v \in Nodes PROVE LessEq(distances[v], more[v])
      BY <1>4, InfAssumption DEF LessEq
    <2>1. \/ more[v] = best[v]
          \/ \E e \in data : /\ Dst(e) = v /\ best[Src(e)] # Inf
                             /\ more[v] = best[Src(e)] + Weight(e)
      BY <1>0, NextRow DEF best, more
    <2> QED
      BY <1>4, <1>5, <2>1
  <1>7. ASSUME NEW v \in Nodes
        PROVE  /\ next_active[v] # Inf => next_active[v] = more[v]
               /\ LessEq(distances[v], more[v])
               /\ LessEq(WithinHops[(iterations + 1) + 1][v], distances[v])
    <2>1. LessEq(WithinHops[(iterations + 1) + 1][v], more[v])
      BY <1>0, <1>3, NextRow DEF more
    <2>2. next_active[v] # Inf => next_active[v] = distances[v]
      BY <1>0 DEF NextActiveIsCurrent
    <2>3. LessEq(distances[v], more[v])
      BY <1>4, <1>6 DEF LessEq
    <2> QED
      BY <1>6, <2>1, <2>2, <2>3
  <1>8. ASSUME NEW e \in data, next_active[Src(e)] = Inf, more[Src(e)] # Inf
        PROVE  LessEq(more[Dst(e)], more[Src(e)] + Weight(e))
    <2>1. Src(e) \in Nodes /\ Dst(e) \in Nodes
      BY <1>0, EdgeType DEF FiniteData
    <2>2. best[Src(e)] = more[Src(e)]
      BY <1>6, <1>8, <2>1 DEF HopInv, best
    <2> QED
      BY <1>0, <1>8, <2>1, <2>2, NextRow DEF best, more
  <1>9. \A e \in data : next_active[Src(e)] # Inf => e \in unsent'
    BY <1>1 DEF EdgesOf
  <1> QED
    BY <1>1, <1>2, <1>6, <1>7, <1>8, <1>9 DEF HopInv, more

\* In whatever order the vertices of a superstep are taken, and with weights of
\* any sign: after n supersteps the distances are the least weights of the
\* walks with at most n edges, and within a superstep they lie between two
\* such rows.
THEOREM SuperstepsAreHops == Spec => []DistancesAreHopLimited
PROOF
  <1>1. Inv /\ HopInv /\ [Next]_vars => HopInv'
    <2> SUFFICES ASSUME Inv, HopInv, [Next]_vars PROVE HopInv'
      OBVIOUS
    <2>1. CASE UNCHANGED vars
      <3>1. WithinHops' = WithinHops
        BY <2>1, SameData DEF vars
      <3> QED
        BY <2>1, <3>1 DEF vars, HopInv, FiniteData
    <2>2. CASE Next
      BY <2>2, SendHopInv, EndHopInv DEF Next
    <2> QED
      BY <2>1, <2>2
  <1>2. Inv /\ HopInv => DistancesAreHopLimited
    <2> SUFFICES ASSUME Inv, HopInv PROVE DistancesAreHopLimited
      OBVIOUS
    <2>1. WithinHops[iterations] \in Distance /\ distances \in Distance
      <3>1. iterations \in 0 .. MaxIterations + 1
        BY MaxIterationsAssumption DEF Inv, TypeOK
      <3> QED
        BY <3>1, WithinHopsRows DEF HopInv, Inv, TypeOK
    <2>2. done => distances = WithinHops[iterations]
      BY <2>1 DEF HopInv, Distance
    <2> QED
      BY <2>2 DEF HopInv, DistancesAreHopLimited
  <1> QED
    BY <1>1, <1>2, InitHopInv, Invariance, PTL DEF Spec
=============================================================================
