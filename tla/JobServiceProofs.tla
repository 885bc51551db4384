-------------------------- MODULE JobServiceProofs --------------------------
(***************************************************************************)
(* Theorems about JobService, for any number of connections, other threads *)
(* and restarts.                                                           *)
(***************************************************************************)
EXTENDS JobService, FiniteSetTheorems, WellFoundedInduction, TLAPS

-----------------------------------------------------------------------------
LEMMA InitTypeOK == Init => TypeOK
PROOF
  <1> SUFFICES ASSUME Init PROVE TypeOK
    OBVIOUS
  <1>1. Registry!TypeOK
    BY DEF Init, Registry!Init, Registry!TypeOK
  <1>2. run \in [Threads -> [pc : RunPCs \cup {"idle", "completed", "failed", "over"},
                            iterations : Iterations \cup {0}]]
    BY DEF Init, Idle
  <1>3. backlog \in Seq(Requests) /\ Len(backlog) <= Backlog /\ restarts \in 0 .. MaxRestarts
    BY BoundsAssumption DEF Init
  <1>4. \A r \in Requests : At(r, "idle")
    BY DEF Init, At, Idle, Threads
  <1> QED
    BY <1>1, <1>2, <1>3, <1>4 DEF Init, TypeOK, OneAtATime

\* Steps that leave the registry and the runs alone.
LEMMA ConnectionTypes ==
  ASSUME TypeOK, NEW r \in Requests,
         \/ Connect(r) \/ GiveUp(r) \/ (\E what \in Kinds : Send(r, what))
         \/ Receive(r) \/ ReceiveNothing(r)
  PROVE  TypeOK'
PROOF
  <1>0. UNCHANGED <<counters, reading, added, raced>> => Registry!TypeOK'
    BY DEF TypeOK, Registry!TypeOK
  <1>1. CASE Connect(r)
    <2>1. backlog' \in Seq(Requests) /\ Len(backlog') <= Backlog
      BY <1>1, BoundsAssumption DEF Connect, TypeOK
    <2> QED
      BY <1>1, <1>0, <2>1 DEF Connect, TypeOK, OneAtATime, At, rayVars, metricVars
  <1>2. CASE GiveUp(r)
    BY <1>2, <1>0 DEF GiveUp, TypeOK, OneAtATime, At, rayVars, metricVars
  <1>3. CASE \E what \in Kinds : Send(r, what)
    BY <1>3, <1>0 DEF Send, TypeOK, OneAtATime, At, rayVars, metricVars
  <1>4. CASE Receive(r)
    <2>1. serving' = {}
      BY <1>4 DEF Receive, Close, TypeOK, OneAtATime
    <2>2. \A q \in Requests : At(q, "idle")
      BY <1>4 DEF Receive, TypeOK, OneAtATime
    <2> QED
      BY <1>4, <1>0, <2>1, <2>2
      DEF Receive, Close, Answer, TypeOK, OneAtATime, At, rayVars, metricVars
  <1>5. CASE ReceiveNothing(r)
    <2>1. serving' = {}
      BY <1>5 DEF ReceiveNothing, Close, TypeOK, OneAtATime
    <2>2. \A q \in Requests : At(q, "idle")
      BY <1>5 DEF ReceiveNothing, TypeOK, OneAtATime
    <2> QED
      BY <1>5, <1>0, <2>1, <2>2
      DEF ReceiveNothing, Close, TypeOK, OneAtATime, At, rayVars, metricVars
  <1> QED
    BY <1>1, <1>2, <1>3, <1>4, <1>5

\* A step that takes call t to another place of its run, and the result of
\* the plugin with it.
LEMMA RunMoves ==
  ASSUME TypeOK, NEW t \in Threads,
         NEW pc \in RunPCs \cup {"idle", "completed", "failed", "over"},
         NEW n \in Iterations \cup {0},
         run' = [run EXCEPT ![t] = [pc |-> pc, iterations |-> n]]
  PROVE  /\ run' \in [Threads -> [pc : RunPCs \cup {"idle", "completed", "failed", "over"},
                                  iterations : Iterations \cup {0}]]
         /\ \A u \in Threads : u # t => run'[u] = run[u]
         /\ run'[t].pc = pc
BY DEF TypeOK

\* Goto is such a step.
LEMMA GotoMoves ==
  ASSUME TypeOK, NEW t \in Threads,
         NEW pc \in RunPCs \cup {"idle", "completed", "failed", "over"},
         Goto(t, pc)
  PROVE  /\ run' \in [Threads -> [pc : RunPCs \cup {"idle", "completed", "failed", "over"},
                                  iterations : Iterations \cup {0}]]
         /\ \A u \in Threads : u # t => run'[u] = run[u]
         /\ run'[t].pc = pc
BY DEF TypeOK, Goto

\* A call that moves on without a change to the server keeps the types, if it
\* had begun, and the registry keeps its own.
LEMMA RunTypes ==
  ASSUME TypeOK, NEW t \in Threads, ~At(t, "idle"),
         run' \in [Threads -> [pc : RunPCs \cup {"idle", "completed", "failed", "over"},
                               iterations : Iterations \cup {0}]],
         \A u \in Threads : u # t => run'[u] = run[u],
         UNCHANGED <<runtime, serverVars, restarts>>,
         initialized' \in BOOLEAN, ray_up' \in BOOLEAN,
         UNCHANGED <<stopping, overlapped>>, Registry!TypeOK'
  PROVE  TypeOK'
PROOF
  <1>1. \A r \in Requests : ~At(r, "idle")' => r \in serving'
    BY DEF TypeOK, At, serverVars, Threads
  <1> QED
    BY <1>1 DEF TypeOK, OneAtATime, serverVars

\* The registry keeps its types.
LEMMA RegistryTypes ==
  ASSUME TypeOK, NEW t \in Threads, NEW key \in Metrics, NEW value \in Nat,
         \/ Registry!Read(t, key) \/ Registry!Store(t, value)
         \/ Registry!SetGauge(key, value) \/ Registry!Reset
         \/ UNCHANGED metricVars
  PROVE  Registry!TypeOK'
PROOF
  <1>0. Registry!TypeOK
    BY DEF TypeOK
  <1>1. CASE Registry!Read(t, key)
    BY <1>0, <1>1 DEF Registry!TypeOK, Registry!Read
  <1>2. CASE Registry!Store(t, value)
    <2>1. reading[t] \in Metrics \X Nat
      BY <1>0, <1>2 DEF Registry!TypeOK, Registry!Store
    <2>2. reading[t][1] \in Metrics /\ reading[t][2] + value \in Nat
      BY <2>1
    <2> QED
      BY <1>0, <1>2, <2>2 DEF Registry!TypeOK, Registry!Store
  <1>3. CASE Registry!SetGauge(key, value)
    BY <1>0, <1>3 DEF Registry!TypeOK, Registry!SetGauge
  <1>4. CASE Registry!Reset
    BY <1>4 DEF Registry!TypeOK, Registry!Reset
  <1>5. CASE UNCHANGED metricVars
    BY <1>0, <1>5 DEF Registry!TypeOK, metricVars
  <1> QED
    BY <1>1, <1>2, <1>3, <1>4, <1>5

LEMMA IterationsAreNatural == \A n \in Iterations \cup {0} : n \in Nat
PROOF
  <1>1. Iterations \subseteq Nat
    BY BoundsAssumption, Zenon
  <1>2. 0 \in Nat
    OBVIOUS
  <1> QED
    BY <1>1, <1>2, Zenon

\* A step of JobRunner.run keeps the types.
LEMMA RunStepTypes ==
  ASSUME TypeOK, NEW t \in Threads, Run(t)
  PROVE  TypeOK'
PROOF
  <1>0. /\ run[t].iterations \in Nat
        /\ initialized \in BOOLEAN /\ ray_up \in BOOLEAN
        /\ UNCHANGED metricVars => Registry!TypeOK'
    <2>1. run[t].iterations \in Nat
      <3>1. run[t].iterations \in Iterations \cup {0}
        BY DEF TypeOK
      <3> QED
        BY <3>1, IterationsAreNatural
    <2>2. initialized \in BOOLEAN /\ ray_up \in BOOLEAN /\ Registry!TypeOK
      BY DEF TypeOK
    <2>3. UNCHANGED metricVars => Registry!TypeOK'
      BY <2>2 DEF metricVars, Registry!TypeOK
    <2> QED
      BY <2>1, <2>2, <2>3
  <1> USE DEF At, RunPCs, rayVars
  <1>1. CASE Begin(t)
    <2>1. PICK pc \in {"init", "compute"} : Goto(t, pc)
      BY <1>1 DEF Begin
    <2> QED
      BY <1>0, <1>1, <2>1, GotoMoves, RunTypes DEF Begin
  <1>2. CASE InitRay(t)
    BY <1>0, <1>2, GotoMoves, RunTypes DEF InitRay
  <1>3. CASE SetFlag(t)
    BY <1>0, <1>3, GotoMoves, RunTypes DEF SetFlag
  <1>4. CASE RunRaises(t)
    <2>1. PICK pc \in {"over", "failed"} : Goto(t, pc)
      BY <1>4 DEF RunRaises
    <2> QED
      BY <1>0, <1>4, <2>1, GotoMoves, RunTypes DEF RunRaises
  <1>5. CASE Compute(t)
    <2>1. PICK n \in Iterations, pc \in {"iterations", "over", "completed"} :
            run' = [run EXCEPT ![t] = [pc |-> pc, iterations |-> n]]
      BY <1>5 DEF Compute
    <2> QED
      BY <1>0, <1>5, <2>1, RunMoves, RunTypes DEF Compute
  <1>6. ASSUME NEW key \in {"iterations", "jobs"}, NEW value \in Nat,
               NEW next \in {"jobs", "gauge"}, Increment(t, key, value, next)
        PROVE  TypeOK'
    <2>1. Registry!TypeOK'
      BY <1>6, RegistryTypes DEF Increment, Metrics
    <2>2. CASE UNCHANGED run
      BY <1>0, <1>6, <2>1, <2>2, RunTypes DEF Increment, TypeOK
    <2>3. CASE Goto(t, next)
      BY <1>0, <1>6, <2>1, <2>3, GotoMoves, RunTypes DEF Increment
    <2> QED
      BY <1>6, <2>2, <2>3 DEF Increment
  <1>7. CASE CountIterations(t)
    BY <1>0, <1>6, <1>7 DEF CountIterations
  <1>8. CASE CountJob(t)
    BY <1>6, <1>8 DEF CountJob
  <1>9. CASE SetGauges(t)
    <2>1. Registry!TypeOK'
      BY <1>0, <1>9, RegistryTypes DEF SetGauges, Metrics
    <2>2. PICK pc \in {"over", "completed"} : Goto(t, pc)
      BY <1>9 DEF SetGauges
    <2> QED
      BY <1>0, <1>9, <2>1, <2>2, GotoMoves, RunTypes DEF SetGauges
  <1> QED
    BY <1>1, <1>2, <1>3, <1>4, <1>5, <1>7, <1>8, <1>9 DEF Run, EnsureInitialized

\* The steps of the server's thread that begin and end a job, and the rest.
LEMMA OtherTypes ==
  ASSUME TypeOK,
         \/ Accept \/ ShutDown \/ StopRay \/ ClearFlag \/ Restart
         \/ \E r \in Requests : ReceiveJob(r) \/ Respond(r)
         \/ \E t \in Others : StartOther(t)
  PROVE  TypeOK'
PROOF
  <1> USE DEF At, RunPCs, rayVars
  <1>0. UNCHANGED metricVars => Registry!TypeOK'
    BY DEF metricVars, TypeOK, Registry!TypeOK
  <1>1. CASE Accept
    <2>1. backlog' \in Seq(Requests) /\ Len(backlog') <= Backlog /\ Head(backlog) \in Requests
      BY <1>1, BoundsAssumption DEF Accept, TypeOK
    <2> QED
      BY <1>0, <1>1, <2>1 DEF Accept, TypeOK, OneAtATime
  <1>2. CASE ShutDown \/ StopRay \/ ClearFlag
    <2>1. /\ initialized' \in BOOLEAN /\ ray_up' \in BOOLEAN
          /\ stopping' \in {"no", "stop", "clear"} /\ overlapped' \in BOOLEAN
      BY <1>2 DEF ShutDown, StopRay, ClearFlag, UnderWay, TypeOK
    <2>2. UNCHANGED <<runtime, serverVars, run, restarts, metricVars>>
      BY <1>2 DEF ShutDown, StopRay, ClearFlag
    <2> QED
      BY <1>0, <2>1, <2>2 DEF TypeOK, OneAtATime, serverVars
  <1>3. CASE Restart
    <2>1. Registry!TypeOK'
      BY <1>3 DEF Restart, Registry!Reset, Registry!TypeOK
    <2>2. run' \in [Threads -> [pc : RunPCs \cup {"idle", "completed", "failed", "over"},
                               iterations : Iterations \cup {0}]]
      BY <1>3 DEF Restart, Idle
    <2>3. \A r \in Requests : At(r, "idle")'
      BY <1>3 DEF Restart, Idle, Threads
    <2>4. backlog' \in Seq(Requests) /\ Len(backlog') <= Backlog /\ restarts' \in 0 .. MaxRestarts
      BY <1>3, BoundsAssumption DEF Restart, TypeOK
    <2>5. answer' \in [Requests -> {"none", "answered", "completed", "failed", "dropped", "cut"}]
      BY <1>3 DEF Restart, TypeOK
    <2> QED
      BY <1>3, <2>1, <2>2, <2>3, <2>4, <2>5 DEF Restart, TypeOK, OneAtATime
  <1>4. ASSUME NEW r \in Requests, ReceiveJob(r)
        PROVE  TypeOK'
    <2>1. /\ run' \in [Threads -> [pc : RunPCs \cup {"idle", "completed", "failed", "over"},
                                  iterations : Iterations \cup {0}]]
          /\ \A u \in Threads : u # r => run'[u] = run[u]
      BY <1>4, GotoMoves DEF ReceiveJob, Threads
    <2>2. \A q \in Requests : ~At(q, "idle")' => q \in serving'
      BY <1>4, <2>1 DEF ReceiveJob, TypeOK, serverVars, Threads
    <2> QED
      BY <1>0, <1>4, <2>1, <2>2 DEF ReceiveJob, TypeOK, OneAtATime, serverVars
  <1>5. ASSUME NEW r \in Requests, Respond(r)
        PROVE  TypeOK'
    <2>1. /\ run' \in [Threads -> [pc : RunPCs \cup {"idle", "completed", "failed", "over"},
                                  iterations : Iterations \cup {0}]]
          /\ \A u \in Threads : u # r => run'[u] = run[u]
          /\ run'[r].pc = "idle"
      BY <1>5, RunMoves DEF Respond, Idle, Threads
    <2>2. serving' = {}
      BY <1>5 DEF Respond, Close, TypeOK, OneAtATime
    <2>3. \A q \in Requests : At(q, "idle")'
      BY <1>5, <2>1 DEF Respond, TypeOK, OneAtATime, Threads
    <2>4. told' \in Nat
      BY <1>5 DEF Respond, TypeOK
    <2>5. answer' \in [Requests -> {"none", "answered", "completed", "failed", "dropped", "cut"}]
      BY <1>5 DEF Respond, Close, TypeOK
    <2> QED
      BY <1>0, <1>5, <2>1, <2>2, <2>3, <2>4, <2>5 DEF Respond, TypeOK, OneAtATime
  <1>6. ASSUME NEW t \in Others, StartOther(t)
        PROVE  TypeOK'
    <2>1. /\ run' \in [Threads -> [pc : RunPCs \cup {"idle", "completed", "failed", "over"},
                                  iterations : Iterations \cup {0}]]
          /\ \A u \in Threads : u # t => run'[u] = run[u]
      BY <1>6, GotoMoves DEF StartOther, Threads
    <2>2. \A q \in Requests : ~At(q, "idle")' => q \in serving'
      BY <1>6, <2>1, ThreadsAssumption DEF StartOther, TypeOK, serverVars, Threads
    <2> QED
      BY <1>0, <1>6, <2>1, <2>2 DEF StartOther, TypeOK, OneAtATime, serverVars
  <1> QED
    BY <1>1, <1>2, <1>3, <1>4, <1>5, <1>6

LEMMA NextTypeOK == TypeOK /\ [Next]_vars => TypeOK'
PROOF
  <1> SUFFICES ASSUME TypeOK, [Next]_vars PROVE TypeOK'
    OBVIOUS
  <1>1. ASSUME NEW r \in Requests, Handle(r)
        PROVE  TypeOK'
    BY <1>1, ConnectionTypes, OtherTypes, RunStepTypes DEF Handle, Threads
  <1>2. ASSUME NEW t \in Others, StartOther(t) \/ Run(t)
        PROVE  TypeOK'
    BY <1>2, OtherTypes, RunStepTypes DEF Threads
  <1>3. CASE UNCHANGED vars
    BY <1>3 DEF vars, serverVars, rayVars, metricVars, TypeOK, OneAtATime, At, Registry!TypeOK
  <1> QED
    BY <1>1, <1>2, <1>3, ConnectionTypes, OtherTypes DEF Next

\* The variables have their types, and one connection is served at a time.
THEOREM TypeCorrect == Spec => []TypeOK
PROOF
  <1>1. Init => TypeOK
    BY InitTypeOK
  <1>2. TypeOK /\ [Next]_vars => TypeOK'
    BY NextTypeOK
  <1> QED
    BY <1>1, <1>2, PTL DEF Spec

-----------------------------------------------------------------------------
(* Ray: the flag is behind ray.init on every thread.                       *)

\* As long as no shutdown overlaps a run, the flag and the threads about to
\* set it have Ray up, but for a shutdown that has stopped Ray already.
RayIsBehindTheFlag ==
  runtime = "ray" /\ ~overlapped =>
    /\ UnderWay => stopping = "no"
    /\ initialized /\ stopping # "clear" => ray_up
    /\ \A t \in Threads : At(t, "flag") => ray_up

RayInv == RayIsBehindTheFlag /\ RayIsUpForJobs

\* A step that begins no run and leaves Ray and its flag alone.
LEMMA RayFrame ==
  ASSUME RayInv, UNCHANGED <<runtime, rayVars>>,
         \A t \in Threads :
           \/ run'[t].pc = run[t].pc
           \/ run'[t].pc \in {"idle", "completed", "failed", "over"}
           \/ run[t].pc = "begin" /\ run'[t].pc = "init"
           \/ run[t].pc = "begin" /\ run'[t].pc = "compute" /\ (runtime = "ray" => initialized)
           \/ run[t].pc \in {"compute", "iterations", "jobs"}
                /\ run'[t].pc \in {"iterations", "jobs", "gauge"}
  PROVE  RayInv'
PROOF
  <1>1. UnderWay' => UnderWay
    BY DEF UnderWay, RunPCs
  <1>2. RayIsBehindTheFlag'
    BY <1>1 DEF RayInv, RayIsBehindTheFlag, At, rayVars
  <1>3. ASSUME runtime = "ray", ~overlapped, NEW t \in Threads,
               run'[t].pc \in {"compute", "iterations", "jobs", "gauge"}
        PROVE  ray_up
    <2>1. run[t].pc \in RunPCs => UnderWay
      BY DEF UnderWay
    <2> QED
      BY <1>3, <2>1 DEF RayInv, RayIsBehindTheFlag, RayIsUpForJobs, RunPCs
  <1>4. RayIsUpForJobs'
    BY <1>3 DEF RayIsUpForJobs, rayVars
  <1> QED
    BY <1>2, <1>4 DEF RayInv

LEMMA RayInvStep == TypeOK /\ RayInv /\ [Next]_vars => RayInv'
PROOF
  <1> SUFFICES ASSUME TypeOK, RayInv, [Next]_vars PROVE RayInv'
    OBVIOUS
  <1>1. ASSUME NEW t \in Threads, Run(t)
        PROVE  RayInv'
    <2> USE DEF At, RunPCs
    <2>1. CASE Begin(t)
      <3>1. PICK pc \in {"init", "compute"} :
              Goto(t, pc) /\ (pc = "compute" /\ runtime = "ray" => initialized)
        BY <2>1 DEF Begin
      <3> QED
        BY <2>1, <3>1, GotoMoves, RayFrame DEF Begin, rayVars
    <2>2. CASE InitRay(t)
      <3>1. /\ ray_up' = TRUE /\ UNCHANGED <<runtime, initialized, stopping, overlapped>>
            /\ run[t].pc = "init"
        BY <2>2 DEF InitRay
      <3>2. UnderWay
        BY <3>1 DEF UnderWay
      <3> QED
        BY <3>1, <3>2 DEF RayInv, RayIsBehindTheFlag, RayIsUpForJobs
    <2>3. CASE SetFlag(t)
      <3>1. /\ UNCHANGED <<runtime, ray_up, stopping, overlapped>>
            /\ run[t].pc = "flag" /\ Goto(t, "compute")
        BY <2>3 DEF SetFlag
      <3>2. UnderWay
        BY <3>1 DEF UnderWay
      <3>3. runtime = "ray" /\ ~overlapped => ray_up /\ stopping = "no"
        BY <3>1, <3>2 DEF RayInv, RayIsBehindTheFlag
      <3> QED
        BY <3>1, <3>3 DEF RayInv, RayIsBehindTheFlag, RayIsUpForJobs
    <2>4. CASE RunRaises(t)
      <3>1. PICK pc \in {"over", "failed"} : Goto(t, pc)
        BY <2>4 DEF RunRaises
      <3> QED
        BY <2>4, <3>1, GotoMoves, RayFrame DEF RunRaises, rayVars
    <2>5. CASE Compute(t)
      <3>1. PICK n \in Iterations, pc \in {"iterations", "over", "completed"} :
              run' = [run EXCEPT ![t] = [pc |-> pc, iterations |-> n]]
        BY <2>5 DEF Compute
      <3> QED
        BY <2>5, <3>1, RunMoves, RayFrame DEF Compute, rayVars
    <2>6. CASE CountIterations(t) \/ CountJob(t)
      <3>1. PICK pc \in {"jobs", "gauge"} : UNCHANGED run \/ Goto(t, pc)
        BY <2>6 DEF CountIterations, CountJob, Increment
      <3>2. run[t].pc \in {"iterations", "jobs"} /\ UNCHANGED <<runtime, rayVars>>
        BY <2>6 DEF CountIterations, CountJob, Increment
      <3> QED
        BY <3>1, <3>2, GotoMoves, RayFrame
    <2>7. CASE SetGauges(t)
      <3>1. PICK pc \in {"over", "completed"} : Goto(t, pc)
        BY <2>7 DEF SetGauges
      <3> QED
        BY <2>7, <3>1, GotoMoves, RayFrame DEF SetGauges, rayVars
    <2> QED
      BY <1>1, <2>1, <2>2, <2>3, <2>4, <2>5, <2>6, <2>7 DEF Run, EnsureInitialized
  <1>2. ASSUME NEW r \in Requests,
               \/ Connect(r) \/ GiveUp(r) \/ (\E what \in Kinds : Send(r, what))
               \/ Receive(r) \/ ReceiveNothing(r)
        PROVE  RayInv'
    BY <1>2, RayFrame DEF Connect, GiveUp, Send, Receive, ReceiveNothing
  <1>3. ASSUME NEW t \in Threads, ReceiveJob(t) \/ StartOther(t)
        PROVE  RayInv'
    <2>1. /\ run'[t].pc = "begin"
          /\ \A u \in Threads : u # t => run'[u] = run[u]
          /\ UNCHANGED <<runtime, initialized, ray_up, stopping>>
          /\ ~overlapped' => ~overlapped /\ stopping = "no"
      BY <1>3, GotoMoves DEF ReceiveJob, StartOther, RunPCs
    <2> QED
      BY <2>1 DEF RayInv, RayIsBehindTheFlag, RayIsUpForJobs, At
  <1>4. ASSUME NEW r \in Requests, Respond(r)
        PROVE  RayInv'
    BY <1>4, RunMoves, RayFrame DEF Respond, Idle, Threads
  <1>5. CASE ShutDown
    <2>1. /\ UNCHANGED <<runtime, run, initialized, ray_up>>
          /\ stopping = "no"
          /\ ~overlapped' => ~overlapped /\ ~UnderWay
      BY <1>5 DEF ShutDown
    <2>2. UnderWay' = UnderWay
      BY <2>1 DEF UnderWay
    <2> QED
      BY <2>1, <2>2 DEF RayInv, RayIsBehindTheFlag, RayIsUpForJobs, At
  <1>6. CASE StopRay
    <2>1. /\ UNCHANGED <<runtime, run, initialized, overlapped>>
          /\ stopping = "stop" /\ stopping' = "clear"
      BY <1>6 DEF StopRay
    <2>2. runtime = "ray" /\ ~overlapped => \A t \in Threads : run[t].pc \notin RunPCs
      BY <2>1 DEF RayInv, RayIsBehindTheFlag, UnderWay
    <2>3. UnderWay' = UnderWay
      BY <2>1 DEF UnderWay
    <2> QED
      BY <2>1, <2>2, <2>3 DEF RayInv, RayIsBehindTheFlag, RayIsUpForJobs, At, RunPCs, UnderWay
  <1>8. CASE ClearFlag
    <2>1. /\ UNCHANGED <<runtime, run, ray_up>>
          /\ initialized' = FALSE /\ stopping' = "no"
          /\ ~overlapped' => \A t \in Threads : run'[t].pc \notin RunPCs
      BY <1>8 DEF ClearFlag, UnderWay
    <2> QED
      BY <2>1 DEF RayInv, RayIsBehindTheFlag, RayIsUpForJobs, At, RunPCs
  <1>9. CASE Restart
    <2>1. \A t \in Threads : run'[t].pc = "idle"
      BY <1>9 DEF Restart, Idle
    <2>2. initialized' = FALSE /\ stopping' = "no"
      BY <1>9 DEF Restart
    <2> QED
      BY <2>1, <2>2 DEF RayInv, RayIsBehindTheFlag, RayIsUpForJobs, At
  <1>7. CASE Accept \/ UNCHANGED vars
    BY <1>7, RayFrame DEF Accept, vars
  <1> QED
    BY <1>1, <1>2, <1>3, <1>4, <1>5, <1>6, <1>7, <1>8, <1>9 DEF Next, Handle, Threads

\* RayRuntime: no thread runs a job before ray.init has returned on some
\* thread, however their tests and writes of _initialized interleave, and a
\* shutdown that overlaps no run, statement by statement, keeps it so: only
\* runs and shutdowns that overlap can leave the flag set over a stopped Ray.
THEOREM RayComesFirst == Spec => []RayIsUpForJobs
PROOF
  <1>1. Init => RayInv
    BY DEF Init, RayInv, RayIsBehindTheFlag, RayIsUpForJobs, At, Idle
  <1>2. TypeOK /\ RayInv /\ [Next]_vars => RayInv'
    BY RayInvStep
  <1>3. RayInv => RayIsUpForJobs
    BY DEF RayInv
  <1> QED
    BY <1>1, <1>2, <1>3, TypeCorrect, PTL DEF Spec

-----------------------------------------------------------------------------
(* The counters.                                                           *)

Reading(t) == reading[t] # <<>>

\* A thread between the two halves of an increment is at that statement, has
\* read no more than was added, and what it has read is still there unless
\* another thread is there too.
ReadersAreTracked ==
  /\ \A t \in Threads : Reading(t) =>
       /\ run[t].pc \in {"iterations", "jobs"}
       /\ reading[t][1] = run[t].pc
       /\ reading[t][2] <= added[run[t].pc]
       /\ run[t].pc \notin raced => reading[t][2] = counters[run[t].pc]
  /\ \A t, u \in Threads :
       Reading(t) /\ Reading(u) /\ t # u /\ run[t].pc = run[u].pc => run[t].pc \in raced

\* The job of a served request that is counted and not yet answered.
Counted == \E r \in serving : run[r].pc \in {"gauge", "completed"}

Unanswered == IF Counted THEN 1 ELSE 0

OthersAreIdle == \A t \in Others : At(t, "idle")

CountInv ==
  /\ ReadersAreTracked
  /\ Registry!CountsAreHonest
  /\ OthersAreIdle => raced = {}
  /\ runtime # "pregel" /\ "jobs" \notin raced => told + Unanswered <= counters["jobs"]

\* A step that leaves the registry alone, moves no thread inside an increment
\* and finishes no count.
LEMMA CountFrame ==
  ASSUME TypeOK, CountInv, UNCHANGED <<runtime, metricVars>>,
         \A t \in Threads : Reading(t) => run'[t].pc = run[t].pc,
         OthersAreIdle' => OthersAreIdle,
         runtime # "pregel" => told' + Unanswered' <= told + Unanswered,
         told' \in Nat
  PROVE  CountInv'
PROOF
  <1>1. ReadersAreTracked'
    BY DEF CountInv, ReadersAreTracked, Reading, metricVars
  <1>2. Registry!CountsAreHonest' /\ (OthersAreIdle' => raced' = {})
    BY DEF CountInv, metricVars, Registry!CountsAreHonest
  <1>3. ASSUME runtime' # "pregel", "jobs" \notin raced'
        PROVE  told' + Unanswered' <= counters'["jobs"]
    <2>1. told + Unanswered <= counters["jobs"]
      BY <1>3 DEF CountInv, metricVars
    <2>2. told' + Unanswered' <= told + Unanswered
      BY <1>3
    <2>3. told \in Nat /\ told' \in Nat /\ counters["jobs"] \in Nat /\ counters' = counters
      BY DEF TypeOK, Registry!TypeOK, Metrics, metricVars
    <2>4. Unanswered \in Nat /\ Unanswered' \in Nat
      BY DEF Unanswered
    <2>5. told' + Unanswered' \in Int /\ told + Unanswered \in Int /\ counters["jobs"] \in Int
      BY <2>3, <2>4
    <2>6. told' + Unanswered' <= counters["jobs"]
      BY <2>1, <2>2, <2>5
    <2> QED
      BY <2>3, <2>6
  <1> QED
    BY <1>1, <1>2, <1>3 DEF CountInv

\* Steps that answer or move without touching told.
LEMMA CountQuietFrame ==
  ASSUME TypeOK, CountInv, UNCHANGED <<runtime, told, metricVars>>,
         \A t \in Threads : Reading(t) => run'[t].pc = run[t].pc,
         OthersAreIdle' => OthersAreIdle,
         runtime # "pregel" => (Counted' => Counted)
  PROVE  CountInv'
PROOF
  <1>1. runtime # "pregel" => told' + Unanswered' <= told + Unanswered
    BY DEF Unanswered, TypeOK
  <1> QED
    BY <1>1, CountFrame DEF TypeOK

\* The first half of an increment.
LEMMA CountRead ==
  ASSUME TypeOK, CountInv, NEW t \in Threads, NEW key \in {"iterations", "jobs"},
         At(t, key), Registry!Read(t, key), UNCHANGED <<runtime, serverVars, run>>
  PROVE  CountInv'
PROOF
  <1> USE DEF At
  <1>1. /\ counters' = counters /\ added' = added
        /\ reading'[t] = <<key, counters[key]>>
        /\ \A u \in Threads : u # t => reading'[u] = reading[u]
        /\ reading[t] = <<>> /\ raced \subseteq raced'
        /\ run' = run
    BY DEF Registry!Read, TypeOK, Registry!TypeOK
  <1>2. \A u \in Threads : Reading(u) /\ run[u].pc = key => key \in raced'
    BY DEF Registry!Read, Reading, CountInv, ReadersAreTracked
  <1>3. ReadersAreTracked'
    <2>1. ASSUME NEW u \in Threads, Reading(u)'
          PROVE  /\ run'[u].pc \in {"iterations", "jobs"}
                 /\ reading'[u][1] = run'[u].pc
                 /\ reading'[u][2] <= added'[run'[u].pc]
                 /\ run'[u].pc \notin raced' => reading'[u][2] = counters'[run'[u].pc]
      <3>1. CASE u = t
        BY <1>1, <3>1 DEF CountInv, Registry!CountsAreHonest, Metrics
      <3>2. CASE u # t
        BY <1>1, <2>1, <3>2 DEF CountInv, ReadersAreTracked, Reading
      <3> QED
        BY <3>1, <3>2
    <2>2. ASSUME NEW u \in Threads, NEW v \in Threads,
                 Reading(u)', Reading(v)', u # v, run'[u].pc = run'[v].pc
          PROVE  run'[u].pc \in raced'
      BY <1>1, <1>2, <2>2 DEF CountInv, ReadersAreTracked, Reading
    <2> QED
      BY <2>1, <2>2 DEF ReadersAreTracked
  <1>4. Registry!CountsAreHonest'
    BY <1>1 DEF CountInv, Registry!CountsAreHonest
  <1>5. ASSUME OthersAreIdle' PROVE raced' = {}
    <2>1. OthersAreIdle /\ raced = {}
      BY <1>1, <1>5 DEF OthersAreIdle, CountInv
    <2>2. ASSUME NEW u \in Threads, Reading(u), reading[u][1] = key
          PROVE  FALSE
      <3>1. run[u].pc = key /\ u # t
        BY <1>1, <2>2 DEF CountInv, ReadersAreTracked, Reading
      <3>2. u \in Requests /\ t \in Requests
        BY <2>1, <3>1 DEF OthersAreIdle, Threads
      <3> QED
        BY <3>1, <3>2 DEF TypeOK, OneAtATime
    <2> QED
      BY <2>1, <2>2 DEF Registry!Read, Reading
  <1>6. ASSUME runtime' # "pregel", "jobs" \notin raced'
        PROVE  told' + Unanswered' <= counters'["jobs"]
    <2>1. Unanswered' = Unanswered
      BY <1>1 DEF Unanswered, Counted, serverVars
    <2>2. told' = told /\ runtime' = runtime /\ counters' = counters
      BY <1>1 DEF serverVars
    <2>3. runtime # "pregel" /\ "jobs" \notin raced
      BY <1>1, <1>6, <2>2
    <2>4. told + Unanswered <= counters["jobs"]
      BY <2>3 DEF CountInv
    <2> QED
      BY <2>1, <2>2, <2>4
  <1> QED
    BY <1>3, <1>4, <1>5, <1>6 DEF CountInv

\* The second half of an increment.
LEMMA CountStore ==
  ASSUME TypeOK, CountInv, NEW t \in Threads, NEW key \in {"iterations", "jobs"},
         NEW value \in Nat, key = "jobs" => value = 1,
         NEW next \in {"jobs", "gauge"}, key = "iterations" => next = "jobs",
         At(t, key), Registry!Store(t, value), Goto(t, next),
         UNCHANGED <<runtime, serverVars>>
  PROVE  CountInv'
PROOF
  <1> USE DEF At
  <1>1. /\ Reading(t) /\ reading[t][1] = key /\ raced' = raced
        /\ counters' = [counters EXCEPT ![key] = reading[t][2] + value]
        /\ added' = [added EXCEPT ![key] = @ + value]
        /\ reading'[t] = <<>>
        /\ \A u \in Threads : u # t => reading'[u] = reading[u]
    BY DEF Registry!Store, Reading, CountInv, ReadersAreTracked, TypeOK, Registry!TypeOK
  <1>2. /\ \A u \in Threads : u # t => run'[u] = run[u]
        /\ run'[t].pc = next
    BY GotoMoves DEF RunPCs
  <1>3. /\ reading[t][2] <= added[key]
        /\ key \notin raced => reading[t][2] = counters[key]
    BY <1>1 DEF CountInv, ReadersAreTracked
  <1>4. /\ reading[t][2] \in Nat
        /\ \A k \in Metrics : counters[k] \in Nat /\ added[k] \in Nat
        /\ counters'[key] = reading[t][2] + value /\ added'[key] = added[key] + value
        /\ \A k \in Metrics : k # key => counters'[k] = counters[k] /\ added'[k] = added[k]
    <2>1. reading[t] \in Metrics \X Nat
      BY <1>1 DEF TypeOK, Registry!TypeOK, Reading
    <2> QED
      BY <1>1, <2>1 DEF TypeOK, Registry!TypeOK, Metrics
  <1>5. ReadersAreTracked'
    <2>1. ASSUME NEW u \in Threads, Reading(u)'
          PROVE  /\ u # t /\ run'[u] = run[u] /\ Reading(u) /\ reading'[u] = reading[u]
                 /\ run[u].pc \in {"iterations", "jobs"}
                 /\ run[u].pc = key => key \in raced
      BY <1>1, <1>2, <2>1 DEF CountInv, ReadersAreTracked, Reading
    <2>2. ASSUME NEW u \in Threads, Reading(u)'
          PROVE  /\ run'[u].pc \in {"iterations", "jobs"}
                 /\ reading'[u][1] = run'[u].pc
                 /\ reading'[u][2] <= added'[run'[u].pc]
                 /\ run'[u].pc \notin raced' => reading'[u][2] = counters'[run'[u].pc]
      <3>1. /\ reading[u][1] = run[u].pc /\ reading[u][2] <= added[run[u].pc]
            /\ run[u].pc \notin raced => reading[u][2] = counters[run[u].pc]
        BY <2>1, <2>2 DEF CountInv, ReadersAreTracked
      <3>2. reading[u][2] \in Nat
        <4>1. reading[u] \in Metrics \X Nat
          BY <2>1, <2>2 DEF TypeOK, Registry!TypeOK, Reading
        <4> QED
          BY <4>1
      <3>3. reading[u][2] <= added'[run[u].pc]
        BY <1>4, <2>1, <2>2, <3>1, <3>2 DEF Metrics
      <3>4. run[u].pc \notin raced' => reading[u][2] = counters'[run[u].pc]
        BY <1>1, <1>4, <2>1, <2>2, <3>1 DEF Metrics
      <3> QED
        BY <2>1, <2>2, <3>1, <3>3, <3>4
    <2>3. ASSUME NEW u \in Threads, NEW v \in Threads,
                 Reading(u)', Reading(v)', u # v, run'[u].pc = run'[v].pc
          PROVE  run'[u].pc \in raced'
      BY <1>1, <2>1, <2>3 DEF CountInv, ReadersAreTracked
    <2> QED
      BY <2>2, <2>3 DEF ReadersAreTracked
  <1>6. Registry!CountsAreHonest'
    <2>1. ASSUME NEW k \in Metrics
          PROVE  counters'[k] <= added'[k] /\ (k \notin raced' => counters'[k] = added'[k])
      <3>1. counters[k] <= added[k] /\ (k \notin raced => counters[k] = added[k])
        BY DEF CountInv, Registry!CountsAreHonest
      <3> QED
        BY <1>1, <1>3, <1>4, <3>1
    <2> QED
      BY <2>1 DEF Registry!CountsAreHonest
  <1>7. OthersAreIdle' => raced' = {}
    BY <1>1, <1>2 DEF OthersAreIdle, CountInv, Threads
  <1>8. ASSUME runtime' # "pregel", "jobs" \notin raced'
        PROVE  told' + Unanswered' <= counters'["jobs"]
    <2>1. told + Unanswered <= counters["jobs"] /\ told \in Nat
      BY <1>1, <1>8 DEF CountInv, TypeOK
    <2>2. CASE key = "iterations"
      <3>1. Counted' => Counted
        BY <1>2, <2>2 DEF Counted, serverVars, TypeOK, OneAtATime, Threads
      <3> QED
        BY <1>4, <2>1, <2>2, <3>1 DEF Unanswered, serverVars, Metrics
    <2>3. CASE key = "jobs"
      <3>1. counters'["jobs"] = counters["jobs"] + 1
        BY <1>1, <1>3, <1>4, <1>8, <2>3
      <3> QED
        BY <1>4, <2>1, <2>3, <3>1 DEF Unanswered, serverVars, Metrics
    <2> QED
      BY <2>2, <2>3
  <1> QED
    BY <1>5, <1>6, <1>7, <1>8 DEF CountInv

\* A step of JobRunner.run.
LEMMA CountRun ==
  ASSUME TypeOK, CountInv, NEW t \in Threads, Run(t)
  PROVE  CountInv'
PROOF
  <1> USE DEF At, RunPCs
  <1>0. ASSUME NEW pc \in RunPCs \cup {"idle", "completed", "failed", "over"}, pc # "idle",
               NEW n \in Iterations \cup {0},
               run' = [run EXCEPT ![t] = [pc |-> pc, iterations |-> n]] \/ Goto(t, pc),
               run[t].pc \notin {"idle", "iterations", "jobs"},
               pc = "completed" /\ runtime # "pregel" => run[t].pc = "gauge",
               pc # "gauge", UNCHANGED <<runtime, serverVars, metricVars>>
        PROVE  CountInv'
    <2>1. /\ run'[t].pc = pc
          /\ \A u \in Threads : u # t => run'[u] = run[u]
      BY <1>0, RunMoves, GotoMoves
    <2>2. \A u \in Threads : Reading(u) => run'[u].pc = run[u].pc
      BY <1>0, <2>1 DEF CountInv, ReadersAreTracked
    <2>3. OthersAreIdle' => OthersAreIdle
      BY <1>0, <2>1 DEF OthersAreIdle, Threads
    <2>4. runtime # "pregel" => (Counted' => Counted)
      BY <1>0, <2>1 DEF Counted, serverVars, TypeOK, OneAtATime, Threads
    <2> QED
      BY <1>0, <2>2, <2>3, <2>4, CountQuietFrame DEF serverVars
  <1>1. CASE Begin(t)
    <2>1. PICK pc \in {"init", "compute"} : Goto(t, pc)
      BY <1>1 DEF Begin
    <2> QED
      BY <1>0, <1>1, <2>1 DEF Begin
  <1>2. CASE InitRay(t)
    BY <1>0, <1>2 DEF InitRay
  <1>3. CASE SetFlag(t)
    BY <1>0, <1>3 DEF SetFlag
  <1>4. CASE RunRaises(t)
    <2>1. PICK pc \in {"over", "failed"} : Goto(t, pc)
      BY <1>4 DEF RunRaises
    <2> QED
      BY <1>0, <1>4, <2>1 DEF RunRaises
  <1>5. CASE Compute(t)
    <2>1. PICK n \in Iterations, pc \in {"iterations", "over", "completed"} :
            /\ run' = [run EXCEPT ![t] = [pc |-> pc, iterations |-> n]]
            /\ pc = "completed" => runtime = "pregel"
      BY <1>5 DEF Compute
    <2> QED
      BY <1>0, <1>5, <2>1 DEF Compute
  <1>6. CASE CountIterations(t)
    <2>1. run[t].iterations \in Nat
      <3>1. run[t].iterations \in Iterations \cup {0}
        BY DEF TypeOK
      <3> QED
        BY <3>1, IterationsAreNatural
    <2> QED
      BY <1>6, <2>1, CountRead, CountStore DEF CountIterations, Increment
  <1>7. CASE CountJob(t)
    BY <1>7, CountRead, CountStore DEF CountJob, Increment
  <1>8. CASE SetGauges(t)
    <2>1. /\ reading' = reading /\ raced' = raced /\ run[t].pc = "gauge"
          /\ counters' = [counters EXCEPT !["gauge"] = 1 + run[t].iterations]
          /\ added' = [added EXCEPT !["gauge"] = 1 + run[t].iterations]
          /\ UNCHANGED <<runtime, serverVars>>
      BY <1>8 DEF SetGauges, Registry!SetGauge
    <2>2. PICK pc \in {"over", "completed"} : Goto(t, pc)
      BY <1>8 DEF SetGauges
    <2>3. /\ run'[t].pc = pc
          /\ \A u \in Threads : u # t => run'[u] = run[u]
      BY <2>2, GotoMoves
    <2>4. /\ \A k \in {"iterations", "jobs"} : counters'[k] = counters[k] /\ added'[k] = added[k]
          /\ counters'["gauge"] = added'["gauge"] /\ added'["gauge"] \in Nat
      <3>1. run[t].iterations \in Nat
        <4>1. run[t].iterations \in Iterations \cup {0}
          BY DEF TypeOK
        <4> QED
          BY <4>1, IterationsAreNatural
      <3> QED
        BY <2>1, <3>1 DEF TypeOK, Registry!TypeOK, Metrics
    <2>5. \A u \in Threads : Reading(u) => run'[u].pc = run[u].pc
      BY <2>1, <2>3 DEF CountInv, ReadersAreTracked
    <2>6. ReadersAreTracked'
      BY <2>1, <2>4, <2>5 DEF CountInv, ReadersAreTracked, Reading
    <2>7. Registry!CountsAreHonest'
      BY <2>1, <2>4 DEF CountInv, Registry!CountsAreHonest, Metrics
    <2>8. OthersAreIdle' => raced' = {}
      BY <2>1, <2>2, <2>3 DEF CountInv, OthersAreIdle, Threads
    <2>9. ASSUME runtime' # "pregel", "jobs" \notin raced'
          PROVE  told' + Unanswered' <= counters'["jobs"]
      <3>1. Unanswered' = Unanswered \/ (Unanswered' = 0 /\ Unanswered = 1)
        BY <2>1, <2>3 DEF Unanswered, Counted, serverVars, TypeOK, OneAtATime, Threads
      <3>2. told + Unanswered <= counters["jobs"]
        BY <2>1, <2>9 DEF CountInv
      <3>3. told' = told /\ told \in Nat /\ counters["jobs"] \in Nat
        BY <2>1 DEF serverVars, TypeOK, Registry!TypeOK, Metrics
      <3> QED
        BY <2>4, <3>1, <3>2, <3>3 DEF Unanswered
    <2> QED
      BY <2>6, <2>7, <2>8, <2>9 DEF CountInv
  <1> QED
    BY <1>1, <1>2, <1>3, <1>4, <1>5, <1>6, <1>7, <1>8 DEF Run, EnsureInitialized

\* A step of a connection that is no job.
LEMMA CountConnection ==
  ASSUME TypeOK, CountInv, NEW r \in Requests,
         \/ Connect(r) \/ GiveUp(r) \/ (\E what \in Kinds : Send(r, what))
         \/ Receive(r) \/ ReceiveNothing(r)
  PROVE  CountInv'
PROOF
  <1>1. /\ UNCHANGED <<runtime, told, metricVars, run>>
        /\ serving' \subseteq serving
    BY DEF Connect, GiveUp, Send, Receive, ReceiveNothing, Close
  <1>2. (Counted' => Counted) /\ (OthersAreIdle' => OthersAreIdle)
    BY <1>1 DEF Counted, OthersAreIdle, At
  <1> QED
    BY <1>1, <1>2, CountQuietFrame

LEMMA CountStep == TypeOK /\ CountInv /\ [Next]_vars => CountInv'
PROOF
  <1> SUFFICES ASSUME TypeOK, CountInv, [Next]_vars PROVE CountInv'
    OBVIOUS
  <1>1. CASE Accept
    <2>1. UNCHANGED <<runtime, told, metricVars, run>>
      BY <1>1 DEF Accept
    <2>2. ~Counted'
      <3>1. \A r \in Requests : run[r].pc = "idle"
        BY <1>1 DEF Accept, TypeOK, At
      <3>2. Head(backlog) \in Requests
        BY <1>1 DEF Accept, TypeOK
      <3> QED
        BY <1>1, <3>1, <3>2, <2>1 DEF Accept, Counted
    <2>3. OthersAreIdle' => OthersAreIdle
      BY <2>1 DEF OthersAreIdle, At
    <2> QED
      BY <2>1, <2>2, <2>3, CountQuietFrame
  <1>2. ASSUME NEW t \in Threads, ReceiveJob(t) \/ StartOther(t)
        PROVE  CountInv'
    <2>1. /\ run[t].pc = "idle" /\ run'[t].pc = "begin"
          /\ \A u \in Threads : u # t => run'[u] = run[u]
          /\ UNCHANGED <<runtime, told, metricVars, serving>>
      BY <1>2, GotoMoves DEF ReceiveJob, StartOther, RunPCs, At, serverVars
    <2>2. \A u \in Threads : Reading(u) => run'[u].pc = run[u].pc
      BY <2>1 DEF CountInv, ReadersAreTracked
    <2>3. (OthersAreIdle' => OthersAreIdle) /\ (Counted' => Counted)
      BY <2>1 DEF OthersAreIdle, Counted, At, Threads, TypeOK, OneAtATime
    <2> QED
      BY <2>1, <2>2, <2>3, CountQuietFrame
  <1>3. ASSUME NEW r \in Requests, Respond(r)
        PROVE  CountInv'
    <2>1. /\ run[r].pc \in {"completed", "failed"} /\ run'[r].pc = "idle"
          /\ \A u \in Threads : u # r => run'[u] = run[u]
      BY <1>3, RunMoves DEF Respond, Idle, Threads
    <2>2. serving' = {} /\ r \in serving /\ UNCHANGED <<runtime, metricVars>>
      BY <1>3 DEF Respond, Close, TypeOK, OneAtATime
    <2>3. \A u \in Threads : Reading(u) => run'[u].pc = run[u].pc
      BY <2>1 DEF CountInv, ReadersAreTracked
    <2>4. OthersAreIdle' => OthersAreIdle
      BY <2>1, ThreadsAssumption DEF OthersAreIdle, At, Threads
    <2>5. told' = told \/ (told' = told + 1 /\ run[r].pc = "completed")
      BY <1>3 DEF Respond, Close, TypeOK
    <2>6. told \in Nat /\ told' \in Nat
      BY <2>5 DEF TypeOK
    <2>7. Unanswered' = 0 /\ (run[r].pc = "completed" => Unanswered = 1) /\ Unanswered \in Nat
      BY <2>2 DEF Unanswered, Counted
    <2>8. told' + Unanswered' <= told + Unanswered
      <3>1. told \in Nat /\ told' \in Nat /\ Unanswered \in Nat /\ Unanswered' = 0
        BY <2>6, <2>7
      <3>2. CASE told' = told
        BY <3>1, <3>2
      <3>3. CASE told' = told + 1 /\ Unanswered = 1
        BY <3>1, <3>3
      <3> QED
        BY <2>5, <2>7, <3>2, <3>3
    <2> QED
      BY <2>2, <2>3, <2>4, <2>6, <2>8, CountFrame
  <1>4. CASE ShutDown \/ StopRay \/ ClearFlag \/ UNCHANGED vars
    <2>1. UNCHANGED <<runtime, told, metricVars, run, serving>>
      BY <1>4 DEF ShutDown, StopRay, ClearFlag, serverVars, vars
    <2>2. (Counted' => Counted) /\ (OthersAreIdle' => OthersAreIdle)
      BY <2>1 DEF Counted, OthersAreIdle, At
    <2> QED
      BY <2>1, <2>2, CountQuietFrame
  <1>5. CASE Restart
    <2>1. /\ \A t \in Threads : reading'[t] = <<>>
          /\ \A k \in Metrics : counters'[k] = 0 /\ added'[k] = 0
          /\ raced' = {} /\ serving' = {} /\ told' = 0
      BY <1>5 DEF Restart, Registry!Reset
    <2>2. Unanswered' = 0
      BY <2>1 DEF Unanswered, Counted
    <2>3. ReadersAreTracked'
      BY <2>1 DEF ReadersAreTracked, Reading
    <2>4. Registry!CountsAreHonest'
      BY <2>1 DEF Registry!CountsAreHonest
    <2>5. told' + Unanswered' <= counters'["jobs"]
      BY <2>1, <2>2 DEF Metrics
    <2> QED
      BY <2>1, <2>3, <2>4, <2>5 DEF CountInv
  <1>6. ASSUME NEW r \in Requests, Handle(r)
        PROVE  CountInv'
    BY <1>2, <1>3, <1>6, CountConnection, CountRun DEF Handle, Threads
  <1>7. ASSUME NEW t \in Others, StartOther(t) \/ Run(t)
        PROVE  CountInv'
    BY <1>2, <1>7, CountRun DEF Threads
  <1> QED
    BY <1>1, <1>4, <1>5, <1>6, <1>7, CountConnection DEF Next

LEMMA InitCountInv == Init => CountInv
PROOF
  <1> SUFFICES ASSUME Init PROVE CountInv
    OBVIOUS
  <1>1. /\ \A t \in Threads : reading[t] = <<>>
        /\ \A k \in Metrics : counters[k] = 0 /\ added[k] = 0
        /\ raced = {} /\ serving = {} /\ told = 0
    BY DEF Init, Registry!Init
  <1>2. ReadersAreTracked /\ Registry!CountsAreHonest
    BY <1>1 DEF ReadersAreTracked, Reading, Registry!CountsAreHonest
  <1>3. told + Unanswered <= counters["jobs"]
    BY <1>1 DEF Unanswered, Counted, Metrics
  <1> QED
    BY <1>1, <1>2, <1>3 DEF CountInv

\* A service that is alone with its runner has counted, exactly, every job it
\* answered as completed; another thread can make it lose counts, and only of
\* keys on which two increments have overlapped.
THEOREM CountsAreTrue == Spec => []AnsweredIsCounted
PROOF
  <1>1. Init => CountInv
    BY InitCountInv
  <1>2. TypeOK /\ CountInv /\ [Next]_vars => CountInv'
    BY CountStep
  <1>3. TypeOK /\ CountInv => AnsweredIsCounted
    <2> SUFFICES ASSUME TypeOK, CountInv PROVE AnsweredIsCounted
      OBVIOUS
    <2>1. told \in Nat /\ Unanswered \in Nat /\ counters["jobs"] \in Nat
      BY DEF TypeOK, Unanswered, Registry!TypeOK, Metrics
    <2>2. runtime # "pregel" /\ "jobs" \notin raced => told <= counters["jobs"]
      BY <2>1 DEF CountInv
    <2> QED
      BY <2>2 DEF CountInv, AnsweredIsCounted, OthersAreIdle
  <1> QED
    BY <1>1, <1>2, <1>3, TypeCorrect, PTL DEF Spec

-----------------------------------------------------------------------------
(* Which connections close without an answer.                              *)

Excused(r) ==
  \/ kind[r] \in {"unreadable", "surrogate"}
  \/ kind[r] = "metrics" /\ runtime = "pregel"

\* A client that has not sent anything has not asked for anything.
AnswerInv ==
  /\ FailuresAreAnswered
  /\ \A r \in Requests : client[r] \in {"away", "connected"} => kind[r] = "none"

\* A step that takes nobody's answer away, sends nothing, and drops no client
\* that waits for what is not excused.
LEMMA AnswerFrame ==
  ASSUME AnswerInv, UNCHANGED <<runtime, kind>>,
         \A r \in Requests :
           /\ client'[r] = client[r] \/ client'[r] = "gone"
                \/ (client[r] = "away" /\ client'[r] = "connected")
           /\ answer'[r] = answer[r] \/ answer'[r] # "dropped"
                \/ client'[r] = "gone" \/ Excused(r)
  PROVE  AnswerInv'
PROOF
  <1>1. ASSUME NEW r \in Requests, client'[r] \in {"away", "connected"}
        PROVE  kind'[r] = "none"
    BY <1>1 DEF AnswerInv
  <1>2. ASSUME NEW r \in Requests, answer'[r] = "dropped", client'[r] # "gone"
        PROVE  Excused(r)'
    BY <1>2 DEF AnswerInv, FailuresAreAnswered, Excused
  <1> QED
    BY <1>1, <1>2 DEF AnswerInv, FailuresAreAnswered, Excused

LEMMA AnswerStep == TypeOK /\ AnswerInv /\ [Next]_vars => AnswerInv'
PROOF
  <1> SUFFICES ASSUME TypeOK, AnswerInv, [Next]_vars PROVE AnswerInv'
    OBVIOUS
  <1>t. /\ \A r \in Requests : run[r].pc \in {"completed", "failed"} => run[r].pc # "dropped"
        /\ DOMAIN client = Requests /\ DOMAIN kind = Requests /\ DOMAIN answer = Requests
    BY DEF TypeOK
  <1>1. ASSUME NEW r \in Requests, Connect(r) \/ GiveUp(r)
        PROVE  AnswerInv'
    BY <1>t, <1>1, AnswerFrame DEF Connect, GiveUp
  <1>2. ASSUME NEW r \in Requests, NEW what \in Kinds, Send(r, what)
        PROVE  AnswerInv'
    <2>1. /\ client[r] = "connected" /\ UNCHANGED <<runtime, answer>>
          /\ client'[r] = "waiting"
          /\ \A q \in Requests \ {r} : client'[q] = client[q] /\ kind'[q] = kind[q]
      BY <1>t, <1>2 DEF Send
    <2>2. answer[r] # "dropped"
      BY <2>1 DEF AnswerInv, FailuresAreAnswered
    <2>3. ASSUME NEW q \in Requests, answer'[q] = "dropped", client'[q] # "gone"
          PROVE  Excused(q)'
      BY <2>1, <2>2, <2>3 DEF AnswerInv, FailuresAreAnswered, Excused
    <2>4. ASSUME NEW q \in Requests, client'[q] \in {"away", "connected"}
          PROVE  kind'[q] = "none"
      BY <2>1, <2>4 DEF AnswerInv
    <2> QED
      BY <2>3, <2>4 DEF AnswerInv, FailuresAreAnswered, Excused
  <1>3. ASSUME NEW r \in Requests, Receive(r)
        PROVE  AnswerInv'
    <2>1. Answer(r) = "dropped" => Excused(r)
      BY <1>3 DEF Receive, Answer, Excused
    <2> QED
      BY <1>t, <1>3, <2>1, AnswerFrame DEF Receive, Close
  <1>4. ASSUME NEW r \in Requests, ReceiveNothing(r)
        PROVE  AnswerInv'
    BY <1>t, <1>4, AnswerFrame DEF ReceiveNothing, Close
  <1>5. ASSUME NEW r \in Requests, Respond(r)
        PROVE  AnswerInv'
    <2>1. PICK encodes \in BOOLEAN :
            /\ encodes \/ kind[r] = "surrogate"
            /\ Close(r, IF client[r] = "gone" \/ ~encodes THEN "dropped" ELSE run[r].pc)
      BY <1>5 DEF Respond
    <2>2. /\ UNCHANGED <<runtime, client, kind>>
          /\ run[r].pc \in {"completed", "failed"}
      BY <1>5 DEF Respond
    <2> QED
      BY <1>t, <2>1, <2>2, AnswerFrame DEF Close, Excused
  <1>6. ASSUME NEW r \in Requests, ReceiveJob(r)
        PROVE  AnswerInv'
    BY <1>6, AnswerFrame DEF ReceiveJob, serverVars
  <1>7. ASSUME NEW t \in Threads, StartOther(t) \/ Run(t)
        PROVE  AnswerInv'
    <2>1. UNCHANGED <<runtime, client, kind, answer>>
      BY <1>7 DEF StartOther, Run, EnsureInitialized, Begin, InitRay, SetFlag, RunRaises, Compute,
                  CountIterations, CountJob, Increment, SetGauges, serverVars
    <2> QED
      BY <2>1, AnswerFrame
  <1>8. CASE Restart
    <2>1. \A r \in Requests : answer'[r] \in {answer[r], "cut"}
      BY <1>8 DEF Restart
    <2> QED
      BY <1>8, <2>1, AnswerFrame DEF Restart
  <1>9. CASE Accept \/ ShutDown \/ StopRay \/ ClearFlag \/ UNCHANGED vars
    BY <1>9, AnswerFrame DEF Accept, ShutDown, StopRay, ClearFlag, serverVars, vars
  <1> QED
    BY <1>1, <1>2, <1>3, <1>4, <1>5, <1>6, <1>7, <1>8, <1>9
    DEF Next, Handle, Threads

\* However requests, hang-ups and restarts interleave, a client that stays
\* and whose job can be read gets the result or the error, unless that cannot
\* be encoded; pages and metrics too are answered wherever there are any.
THEOREM JobsAreAnswered == Spec => []FailuresAreAnswered
PROOF
  <1>1. Init => AnswerInv
    BY DEF Init, AnswerInv, FailuresAreAnswered
  <1>2. TypeOK /\ AnswerInv /\ [Next]_vars => AnswerInv'
    BY AnswerStep
  <1>3. AnswerInv => FailuresAreAnswered
    BY DEF AnswerInv
  <1> QED
    BY <1>1, <1>2, <1>3, TypeCorrect, PTL DEF Spec

-----------------------------------------------------------------------------
(* What a scrape reads.                                                    *)

\* The order of the natural numbers as a relation, and its least elements.
Smaller == {p \in Nat \X Nat : p[1] < p[2]}

LEMMA LeastNatural ==
  ASSUME NEW S, S \subseteq Nat, S # {}
  PROVE  \E m \in S : \A n \in S : m <= n
PROOF
  <1>1. IsWellFoundedOn(Smaller, Nat)
    BY NatLessThanWellFounded DEF OpToRel, Smaller
  <1>2. PICK m \in S : \A n \in S : ~ (<<n, m>> \in Smaller)
    BY <1>1, WFMin
  <1>3. ASSUME NEW n \in S
        PROVE  m <= n
    <2>1. m \in Nat /\ n \in Nat
      OBVIOUS
    <2>2. ~(n < m)
      <3>1. n < m => <<n, m>> \in Smaller
        BY <2>1 DEF Smaller
      <3> QED
        BY <1>2, <3>1
    <2> QED
      BY <2>1, <2>2
  <1> QED
    BY <1>3

\* A finite set of numbers has a greatest element: one with the fewest above.
LEMMA GreatestNatural ==
  ASSUME NEW S, S \subseteq Nat, S # {}, IsFiniteSet(S)
  PROVE  \E m \in S : \A n \in S : n <= m
PROOF
  <1> DEFINE Above(m) == {n \in S : n > m}
             Counts == {Cardinality(Above(m)) : m \in S}
  <1>1. \A m \in S : IsFiniteSet(Above(m)) /\ Cardinality(Above(m)) \in Nat
    BY FS_Subset, FS_CardinalityType
  <1>2. PICK m \in S : \A n \in S : Cardinality(Above(m)) <= Cardinality(Above(n))
    <2>1. Counts \subseteq Nat /\ Counts # {}
      BY <1>1
    <2>2. PICK c \in Counts : \A d \in Counts : c <= d
      BY <2>1, LeastNatural
    <2> QED
      BY <2>2
  <1>3. ASSUME NEW n \in S, n > m
        PROVE  FALSE
    <2>1. Above(n) \subseteq Above(m) /\ n \in Above(m) /\ n \notin Above(n)
      <3>1. \A k \in S : k \in Nat
        OBVIOUS
      <3>2. \A k \in S : k > n => k > m
        BY <1>3, <3>1
      <3>3. Above(n) \subseteq Above(m)
        BY <3>2, Zenon
      <3>4. ~(n > n) /\ n \in Above(m)
        BY <1>3, <3>1
      <3> QED
        BY <3>3, <3>4, Zenon
    <2>2. IsFiniteSet(Above(m)) /\ Above(n) \in SUBSET Above(m) /\ Above(m) # Above(n)
      BY <1>1, <2>1
    <2> HIDE DEF Above
    <2>3. Cardinality(Above(n)) <= Cardinality(Above(m)) /\ Cardinality(Above(n)) # Cardinality(Above(m))
      BY <2>2, FS_Subset
    <2>4. Cardinality(Above(m)) <= Cardinality(Above(n))
      BY <1>2
    <2> QED
      BY <1>1, <2>3, <2>4
  <1> QED
    BY <1>3

LEMMA IterationBounds ==
  /\ Least \in Nat /\ Most \in Nat
  /\ \A n \in Iterations : Least <= n /\ n <= Most
PROOF
  <1>1. Iterations \subseteq Nat /\ Iterations # {} /\ IsFiniteSet(Iterations)
    BY BoundsAssumption, IterationsAssumption
  <1>2. Least \in Iterations /\ \A n \in Iterations : Least <= n
    BY <1>1, LeastNatural DEF Least
  <1>3. Most \in Iterations /\ \A n \in Iterations : n <= Most
    BY <1>1, GreatestNatural DEF Most
  <1> QED
    BY <1>1, <1>2, <1>3

\* `total` may be the sum of the iterations of n jobs.
Sums(total, n) == Least * n <= total /\ total <= Most * n

LEMMA SumsOfNone == Sums(0, 0)
PROOF
  BY IterationBounds DEF Sums

LEMMA SumsOfOneMore ==
  ASSUME NEW total \in Nat, NEW n \in Nat, NEW k \in Iterations, Sums(total, n)
  PROVE  Sums(total + k, n + 1)
PROOF
  <1>1. Least \in Nat /\ Most \in Nat /\ Least <= k /\ k <= Most /\ k \in Nat
    BY IterationBounds, BoundsAssumption
  <1>2. Least * (n + 1) = Least * n + Least /\ Most * (n + 1) = Most * n + Most
    BY <1>1
  <1>3. Least * n \in Nat /\ Most * n \in Nat
    BY <1>1
  <1> QED
    BY <1>1, <1>2, <1>3 DEF Sums

LEMMA SumsOfFewer ==
  ASSUME NEW n \in Nat, NEW k \in Nat
  PROVE  Least * n <= Least * (n + k)
PROOF
  <1>1. Least \in Nat
    BY IterationBounds
  <1>2. Least * (n + k) = Least * n + Least * k /\ Least * n \in Nat /\ Least * k \in Nat
    BY <1>1
  <1> QED
    BY <1>2

\* The runs between their two increments.
Ahead == {t \in Threads : At(t, "jobs")}

\* A run about to count has a result, finitely many are between the two
\* increments, and as long as no increment was lost the iterations are those
\* of the counted jobs and of the runs in between.
ScrapeInv ==
  /\ \A t \in Threads : At(t, "iterations") => run[t].iterations \in Iterations
  /\ IsFiniteSet(Ahead)
  /\ {"iterations", "jobs"} \cap raced = {} =>
       /\ Sums(counters["iterations"], counters["jobs"] + Cardinality(Ahead))
       /\ counters["gauge"] > 0 \/ (\E t \in Threads : At(t, "gauge")) => counters["jobs"] > 0

LEMMA ScrapeInvReads == TypeOK /\ ScrapeInv => TextAddsUp
PROOF
  <1> SUFFICES ASSUME TypeOK, ScrapeInv, {"iterations", "jobs"} \cap raced = {}
               PROVE  /\ Least * counters["jobs"] <= counters["iterations"]
                      /\ counters["iterations"] <= Most * (counters["jobs"] + Cardinality(Ahead))
                      /\ counters["gauge"] > 0 => counters["jobs"] > 0
    BY Zenon DEF TextAddsUp, Ahead
  <1>1. counters["jobs"] \in Nat /\ counters["iterations"] \in Nat /\ Cardinality(Ahead) \in Nat
    BY FS_CardinalityType DEF TypeOK, Registry!TypeOK, Metrics, ScrapeInv
  <1>2. Sums(counters["iterations"], counters["jobs"] + Cardinality(Ahead))
    BY DEF ScrapeInv
  <1>3. Least * counters["jobs"] <= Least * (counters["jobs"] + Cardinality(Ahead))
    BY <1>1, SumsOfFewer
  <1>4. Least \in Nat
    BY IterationBounds
  <1>5. Least * counters["jobs"] \in Nat /\ Least * (counters["jobs"] + Cardinality(Ahead)) \in Nat
    BY <1>1, <1>4
  <1>6. Least * counters["jobs"] <= counters["iterations"]
    BY <1>1, <1>2, <1>3, <1>5 DEF Sums
  <1> QED
    BY <1>2, <1>6 DEF Sums, ScrapeInv

\* A step that changes no counter and takes no run past an increment.
LEMMA ScrapeFrame ==
  ASSUME ScrapeInv, counters' = counters, raced \subseteq raced',
         \A t \in Threads :
           \/ run'[t] = run[t]
           \/ /\ run[t].pc # "jobs" /\ run'[t].pc \notin {"jobs", "gauge"}
              /\ run'[t].pc = "iterations" => run'[t].iterations \in Iterations
  PROVE  ScrapeInv'
PROOF
  <1>1. Ahead' = Ahead
    BY DEF Ahead, At
  <1>2. \A t \in Threads : At(t, "iterations")' => run'[t].iterations \in Iterations
    BY DEF ScrapeInv, At
  <1>3. (\E t \in Threads : At(t, "gauge"))' => \E t \in Threads : At(t, "gauge")
    BY DEF At
  <1>4. {"iterations", "jobs"} \cap raced' = {} => {"iterations", "jobs"} \cap raced = {}
    OBVIOUS
  <1> QED
    BY <1>1, <1>2, <1>3, <1>4 DEF ScrapeInv, Sums

\* One run finishes an increment that nobody overlapped.
LEMMA ScrapeStore ==
  ASSUME TypeOK, CountInv, ScrapeInv, NEW t \in Threads, NEW key \in {"iterations", "jobs"},
         NEW value \in Nat, NEW next \in {"jobs", "gauge"},
         \/ key = "iterations" /\ next = "jobs" /\ value \in Iterations
         \/ key = "jobs" /\ next = "gauge" /\ value = 1,
         At(t, key), Registry!Store(t, value), Goto(t, next)
  PROVE  ScrapeInv'
PROOF
  <1>1. /\ reading[t] # <<>> /\ reading[t][1] = key /\ raced' = raced
        /\ key \notin raced => reading[t][2] = counters[key]
    BY DEF Registry!Store, At, CountInv, ReadersAreTracked, Reading
  <1>2. counters' = [counters EXCEPT ![key] = reading[t][2] + value]
    BY <1>1 DEF Registry!Store
  <1>3. /\ counters \in [Metrics -> Nat] /\ key \in Metrics
        /\ counters["jobs"] \in Nat /\ counters["iterations"] \in Nat
    BY DEF TypeOK, Registry!TypeOK, Metrics
  <1>4. /\ run'[t].pc = next /\ run[t].pc = key
        /\ \A u \in Threads : u # t => run'[u] = run[u]
    BY GotoMoves DEF At, RunPCs
  <1>5. \A u \in Threads : At(u, "iterations")' => run'[u].iterations \in Iterations
    BY <1>4 DEF ScrapeInv, At
  <1>6. IsFiniteSet(Ahead) /\ Cardinality(Ahead) \in Nat
    BY FS_CardinalityType DEF ScrapeInv
  <1>7. CASE key = "iterations"
    <2>1. Ahead' = Ahead \cup {t} /\ t \notin Ahead
      BY <1>4, <1>7 DEF Ahead, At
    <2>2. IsFiniteSet(Ahead') /\ Cardinality(Ahead') = Cardinality(Ahead) + 1
      BY <1>6, <2>1, FS_AddElement
    <2>3. ASSUME {"iterations", "jobs"} \cap raced' = {}
          PROVE  /\ Sums(counters["iterations"], counters["jobs"] + Cardinality(Ahead))'
                 /\ counters'["gauge"] > 0 \/ (\E u \in Threads : At(u, "gauge"))' => counters'["jobs"] > 0
      <3>1. /\ counters'["iterations"] = counters["iterations"] + value
            /\ counters'["jobs"] = counters["jobs"] /\ counters'["gauge"] = counters["gauge"]
        BY <1>1, <1>2, <1>3, <1>7, <2>3 DEF Metrics
      <3>2. /\ Sums(counters["iterations"], counters["jobs"] + Cardinality(Ahead))
            /\ counters["gauge"] > 0 \/ (\E u \in Threads : At(u, "gauge")) => counters["jobs"] > 0
        BY <1>1, <2>3 DEF ScrapeInv
      <3>3. Sums(counters["iterations"] + value, (counters["jobs"] + Cardinality(Ahead)) + 1)
        BY <1>3, <1>6, <1>7, <3>2, SumsOfOneMore
      <3>4. counters'["jobs"] + Cardinality(Ahead') = (counters["jobs"] + Cardinality(Ahead)) + 1
        BY <1>3, <1>6, <2>2, <3>1
      <3>5. Sums(counters["iterations"], counters["jobs"] + Cardinality(Ahead))'
        BY <3>1, <3>3, <3>4 DEF Sums
      <3>6. (\E u \in Threads : At(u, "gauge"))' => \E u \in Threads : At(u, "gauge")
        BY <1>4, <1>7 DEF At
      <3> QED
        BY <3>1, <3>2, <3>5, <3>6
    <2> QED
      BY <1>5, <2>2, <2>3 DEF ScrapeInv
  <1>8. CASE key = "jobs"
    <2>1. Ahead' = Ahead \ {t} /\ t \in Ahead
      BY <1>4, <1>8 DEF Ahead, At
    <2>2. IsFiniteSet(Ahead') /\ Cardinality(Ahead') = Cardinality(Ahead) - 1
      BY <1>6, <2>1, FS_RemoveElement
    <2>3. ASSUME {"iterations", "jobs"} \cap raced' = {}
          PROVE  /\ Sums(counters["iterations"], counters["jobs"] + Cardinality(Ahead))'
                 /\ counters'["jobs"] > 0
      <3>1. /\ counters'["jobs"] = counters["jobs"] + 1
            /\ counters'["iterations"] = counters["iterations"]
        BY <1>1, <1>2, <1>3, <1>8, <2>3 DEF Metrics
      <3>2. Sums(counters["iterations"], counters["jobs"] + Cardinality(Ahead))
        BY <1>1, <2>3 DEF ScrapeInv
      <3>3. counters'["jobs"] + Cardinality(Ahead') = counters["jobs"] + Cardinality(Ahead)
        BY <1>3, <1>6, <2>2, <3>1
      <3>4. Sums(counters["iterations"], counters["jobs"] + Cardinality(Ahead))'
        BY <3>1, <3>2, <3>3 DEF Sums
      <3> QED
        BY <1>3, <3>1, <3>4
    <2> QED
      BY <1>5, <2>2, <2>3 DEF ScrapeInv
  <1> QED
    BY <1>7, <1>8

LEMMA ScrapeRun ==
  ASSUME TypeOK, CountInv, ScrapeInv, NEW t \in Threads, Run(t)
  PROVE  ScrapeInv'
PROOF
  <1>0. ASSUME NEW pc \in RunPCs \cup {"idle", "completed", "failed", "over"},
               NEW n \in Iterations \cup {0},
               \/ Goto(t, pc)
               \/ run' = [run EXCEPT ![t] = [pc |-> pc, iterations |-> n]] /\ n \in Iterations,
               pc = "iterations" => ~Goto(t, pc), pc \notin {"jobs", "gauge"}, ~At(t, "jobs"),
               UNCHANGED metricVars
        PROVE  ScrapeInv'
    <2>1. run'[t].pc = pc /\ \A u \in Threads : u # t => run'[u] = run[u]
      BY <1>0, RunMoves, GotoMoves
    <2>2. pc = "iterations" => run'[t].iterations \in Iterations
      <3>1. DOMAIN run = Threads
        BY DEF TypeOK
      <3> QED
        BY <1>0, <3>1
    <2> QED
      BY <1>0, <2>1, <2>2, ScrapeFrame DEF At, metricVars
  <1>1. CASE Begin(t)
    <2>1. PICK pc \in {"init", "compute"} : Goto(t, pc)
      BY <1>1 DEF Begin
    <2> QED
      BY <1>0, <1>1, <2>1 DEF Begin, At, RunPCs
  <1>2. CASE InitRay(t)
    BY <1>0, <1>2 DEF InitRay, At, RunPCs
  <1>3. CASE SetFlag(t)
    BY <1>0, <1>3 DEF SetFlag, At, RunPCs
  <1>4. CASE RunRaises(t)
    <2>1. PICK pc \in {"over", "failed"} : Goto(t, pc)
      BY <1>4 DEF RunRaises
    <2> QED
      BY <1>0, <1>4, <2>1 DEF RunRaises, At
  <1>5. CASE Compute(t)
    <2>1. PICK n \in Iterations, pc \in {"iterations", "over", "completed"} :
            run' = [run EXCEPT ![t] = [pc |-> pc, iterations |-> n]]
      BY <1>5 DEF Compute
    <2>2. /\ run'[t] = [pc |-> pc, iterations |-> n]
          /\ \A u \in Threads : u # t => run'[u] = run[u]
      BY <2>1 DEF TypeOK
    <2> QED
      BY <1>5, <2>2, ScrapeFrame DEF Compute, At, metricVars
  <1>6. CASE CountIterations(t)
    <2>1. CASE Registry!Read(t, "iterations") /\ UNCHANGED run
      BY <2>1, ScrapeFrame DEF Registry!Read
    <2>2. CASE Registry!Store(t, run[t].iterations) /\ Goto(t, "jobs")
      <3>1. At(t, "iterations") /\ run[t].iterations \in Iterations
        BY <1>6 DEF CountIterations, Increment, ScrapeInv
      <3>2. run[t].iterations \in Nat
        BY <3>1, IterationsAreNatural
      <3> QED
        BY <2>2, <3>1, <3>2, ScrapeStore
    <2> QED
      BY <1>6, <2>1, <2>2 DEF CountIterations, Increment
  <1>7. CASE CountJob(t)
    <2>1. CASE Registry!Read(t, "jobs") /\ UNCHANGED run
      BY <2>1, ScrapeFrame DEF Registry!Read
    <2>2. CASE Registry!Store(t, 1) /\ Goto(t, "gauge")
      BY <1>7, <2>2, ScrapeStore DEF CountJob, Increment
    <2> QED
      BY <1>7, <2>1, <2>2 DEF CountJob, Increment
  <1>8. CASE SetGauges(t)
    <2>1. /\ raced' = raced /\ At(t, "gauge")
          /\ counters' = [counters EXCEPT !["gauge"] = 1 + run[t].iterations]
      BY <1>8 DEF SetGauges, Registry!SetGauge
    <2>2. /\ counters'["jobs"] = counters["jobs"]
          /\ counters'["iterations"] = counters["iterations"]
      BY <2>1 DEF TypeOK, Registry!TypeOK, Metrics
    <2>3. PICK pc \in {"over", "completed"} : Goto(t, pc)
      BY <1>8 DEF SetGauges
    <2>4. /\ run'[t].pc = pc /\ run[t].pc = "gauge"
          /\ \A u \in Threads : u # t => run'[u] = run[u]
      BY <2>1, <2>3, GotoMoves DEF At
    <2>5. Ahead' = Ahead
      BY <2>4 DEF Ahead, At
    <2>6. \A u \in Threads : At(u, "iterations")' => run'[u].iterations \in Iterations
      BY <2>4 DEF ScrapeInv, At
    <2>7. {"iterations", "jobs"} \cap raced = {} => counters["jobs"] > 0
      BY <2>1 DEF ScrapeInv
    <2> QED
      BY <2>1, <2>2, <2>5, <2>6, <2>7 DEF ScrapeInv, Sums
  <1> QED
    BY <1>1, <1>2, <1>3, <1>4, <1>5, <1>6, <1>7, <1>8 DEF Run, EnsureInitialized

LEMMA ScrapeStep == TypeOK /\ CountInv /\ ScrapeInv /\ [Next]_vars => ScrapeInv'
PROOF
  <1> SUFFICES ASSUME TypeOK, CountInv, ScrapeInv, [Next]_vars PROVE ScrapeInv'
    OBVIOUS
  <1>1. ASSUME NEW r \in Requests,
               \/ Connect(r) \/ GiveUp(r) \/ (\E what \in Kinds : Send(r, what))
               \/ Receive(r) \/ ReceiveNothing(r)
        PROVE  ScrapeInv'
    <2>1. UNCHANGED <<metricVars, run>>
      BY <1>1 DEF Connect, GiveUp, Send, Receive, ReceiveNothing
    <2> QED
      BY <2>1, ScrapeFrame DEF metricVars
  <1>2. ASSUME NEW t \in Threads, ReceiveJob(t) \/ StartOther(t)
        PROVE  ScrapeInv'
    <2>1. /\ run[t].pc = "idle" /\ run'[t].pc = "begin"
          /\ \A u \in Threads : u # t => run'[u] = run[u]
          /\ UNCHANGED metricVars
      BY <1>2, GotoMoves DEF ReceiveJob, StartOther, RunPCs, At
    <2> QED
      BY <2>1, ScrapeFrame DEF metricVars
  <1>3. ASSUME NEW r \in Requests, Respond(r)
        PROVE  ScrapeInv'
    <2>1. /\ run[r].pc \in {"completed", "failed"} /\ run'[r].pc = "idle"
          /\ \A u \in Threads : u # r => run'[u] = run[u]
          /\ UNCHANGED metricVars
      BY <1>3, RunMoves DEF Respond, Idle, Threads
    <2> QED
      BY <2>1, ScrapeFrame DEF metricVars
  <1>4. CASE Accept \/ ShutDown \/ StopRay \/ ClearFlag \/ UNCHANGED vars
    <2>1. UNCHANGED <<metricVars, run>>
      BY <1>4 DEF Accept, ShutDown, StopRay, ClearFlag, vars
    <2> QED
      BY <2>1, ScrapeFrame DEF metricVars
  <1>5. CASE Restart
    <2>1. /\ \A t \in Threads : run'[t].pc = "idle"
          /\ counters' = [key \in Metrics |-> 0]
      BY <1>5 DEF Restart, Registry!Reset, Idle
    <2>2. Ahead' = {}
      BY <2>1 DEF Ahead, At
    <2>3. IsFiniteSet(Ahead') /\ Cardinality(Ahead') = 0
      BY <2>2, FS_EmptySet
    <2>4. Sums(counters["iterations"], counters["jobs"] + Cardinality(Ahead))'
      <3>1. counters'["iterations"] = 0 /\ counters'["jobs"] = 0
        BY <2>1 DEF Metrics
      <3>2. Sums(0, 0 + 0)
        BY SumsOfNone
      <3> QED
        BY <2>3, <3>1, <3>2 DEF Sums
    <2>5. ~(counters'["gauge"] > 0) /\ \A t \in Threads : ~At(t, "gauge")' /\ ~At(t, "iterations")'
      BY <2>1 DEF Metrics, At
    <2> QED
      BY <2>3, <2>4, <2>5 DEF ScrapeInv
  <1>6. ASSUME NEW r \in Requests, Handle(r)
        PROVE  ScrapeInv'
    BY <1>1, <1>2, <1>3, <1>6, ScrapeRun DEF Handle, Threads
  <1>7. ASSUME NEW t \in Others, StartOther(t) \/ Run(t)
        PROVE  ScrapeInv'
    BY <1>2, <1>7, ScrapeRun DEF Threads
  <1> QED
    BY <1>1, <1>4, <1>5, <1>6, <1>7 DEF Next

\* What one increment that nobody overlapped does to the counters.
LEMMA StoreAdds ==
  ASSUME TypeOK, CountInv, NEW t \in Threads, NEW key \in {"iterations", "jobs"},
         NEW value \in Nat, At(t, key), Registry!Store(t, value)
  PROVE  \A k \in {"iterations", "jobs"} \ raced' : counters[k] <= counters'[k]
PROOF
  <1>1. /\ reading[t] # <<>> /\ reading[t][1] = key /\ raced' = raced
        /\ key \notin raced => reading[t][2] = counters[key]
    BY DEF Registry!Store, At, CountInv, ReadersAreTracked, Reading
  <1>2. counters' = [counters EXCEPT ![key] = reading[t][2] + value]
    BY <1>1 DEF Registry!Store
  <1>3. counters \in [Metrics -> Nat] /\ key \in Metrics
    BY DEF TypeOK, Registry!TypeOK, Metrics
  <1>4. key \notin raced => counters'[key] = counters[key] + value
    BY <1>1, <1>2, <1>3
  <1>5. ASSUME NEW k \in {"iterations", "jobs"} \ raced'
        PROVE  counters[k] <= counters'[k]
    <2>1. k \in Metrics /\ counters[k] \in Nat
      BY <1>3 DEF Metrics
    <2>2. CASE k = key
      BY <1>1, <1>4, <2>1, <2>2
    <2>3. CASE k # key
      BY <1>2, <1>3, <2>1, <2>3
    <2> QED
      BY <2>2, <2>3
  <1> QED
    BY <1>5

\* No step but a restart sets back a counter that lost no increment.
LEMMA CountersOnlyGoUp ==
  ASSUME TypeOK, CountInv, ScrapeInv, [Next]_vars, restarts' = restarts
  PROVE  \A key \in {"iterations", "jobs"} \ raced' : counters[key] <= counters'[key]
PROOF
  <1> DEFINE Up == \A key \in {"iterations", "jobs"} \ raced' : counters[key] <= counters'[key]
  <1>0. ASSUME counters' = counters
        PROVE  Up
    <2>1. counters["iterations"] \in Nat /\ counters["jobs"] \in Nat
      BY DEF TypeOK, Registry!TypeOK, Metrics
    <2> QED
      BY <1>0, <2>1
  <1>1. ASSUME NEW t \in Threads, Run(t)
        PROVE  Up
    <2>1. CASE Begin(t) \/ InitRay(t) \/ SetFlag(t) \/ RunRaises(t) \/ Compute(t)
      <3>1. counters' = counters
        BY <2>1 DEF Begin, InitRay, SetFlag, RunRaises, Compute, metricVars
      <3> QED
        BY <1>0, <3>1
    <2>2. CASE CountIterations(t)
      <3>1. At(t, "iterations") /\ run[t].iterations \in Nat
        <4>1. At(t, "iterations") /\ run[t].iterations \in Iterations
          BY <2>2 DEF CountIterations, Increment, ScrapeInv
        <4> QED
          BY <4>1, IterationsAreNatural
      <3>2. Registry!Read(t, "iterations") \/ Registry!Store(t, run[t].iterations)
        BY <2>2 DEF CountIterations, Increment
      <3>3. Registry!Read(t, "iterations") => counters' = counters
        BY DEF Registry!Read
      <3> QED
        BY <1>0, <3>1, <3>2, <3>3, StoreAdds
    <2>3. CASE CountJob(t)
      <3>1. At(t, "jobs") /\ (Registry!Read(t, "jobs") \/ Registry!Store(t, 1))
        BY <2>3 DEF CountJob, Increment
      <3>2. Registry!Read(t, "jobs") => counters' = counters
        BY DEF Registry!Read
      <3> QED
        BY <1>0, <3>1, <3>2, StoreAdds
    <2>4. CASE SetGauges(t)
      <3>1. counters' = [counters EXCEPT !["gauge"] = 1 + run[t].iterations]
        BY <2>4 DEF SetGauges, Registry!SetGauge
      <3> QED
        BY <3>1 DEF TypeOK, Registry!TypeOK, Metrics
    <2> QED
      BY <1>1, <2>1, <2>2, <2>3, <2>4 DEF Run, EnsureInitialized
  <1>2. ASSUME NEW r \in Requests, Handle(r)
        PROVE  Up
    <2>1. CASE Run(r)
      BY <1>1, <2>1 DEF Threads
    <2>2. CASE Receive(r) \/ ReceiveJob(r) \/ ReceiveNothing(r) \/ Respond(r)
      <3>1. counters' = counters
        BY <2>2 DEF Receive, ReceiveJob, ReceiveNothing, Respond, metricVars
      <3> QED
        BY <1>0, <3>1
    <2> QED
      BY <1>2, <2>1, <2>2 DEF Handle
  <1>3. ASSUME NEW r \in Requests,
               Connect(r) \/ GiveUp(r) \/ \E what \in Kinds : Send(r, what)
        PROVE  Up
    <2>1. counters' = counters
      BY <1>3 DEF Connect, GiveUp, Send, metricVars
    <2> QED
      BY <1>0, <2>1
  <1>4. CASE Accept \/ ShutDown \/ StopRay \/ ClearFlag \/ UNCHANGED vars
    <2>1. counters' = counters
      BY <1>4 DEF Accept, ShutDown, StopRay, ClearFlag, vars, metricVars
    <2> QED
      BY <1>0, <2>1
  <1>5. ASSUME NEW t \in Others, StartOther(t)
        PROVE  Up
    <2>1. counters' = counters
      BY <1>5 DEF StartOther, metricVars
    <2> QED
      BY <1>0, <2>1
  <1>6. ~Restart
    BY DEF Restart, TypeOK
  <1> QED
    BY <1>1, <1>2, <1>3, <1>4, <1>5, <1>6 DEF Next, Threads

\* However the runs of the service interleave, a scrape never finds a counted
\* job whose iterations are missing, and from one scrape to the next no counter
\* goes down that lost no increment, until the process starts again.
THEOREM ScrapesAreConsistent == Spec => ScrapesAddUp
PROOF
  <1>1. Init => TypeOK /\ CountInv /\ ScrapeInv
    <2> SUFFICES ASSUME Init PROVE ScrapeInv
      BY InitTypeOK, InitCountInv
    <2>1. /\ \A t \in Threads : run[t].pc = "idle"
          /\ counters = [key \in Metrics |-> 0]
      BY DEF Init, Registry!Init, Idle
    <2>2. Ahead = {}
      BY <2>1 DEF Ahead, At
    <2>3. IsFiniteSet(Ahead) /\ Cardinality(Ahead) = 0
      BY <2>2, FS_EmptySet
    <2>4. Sums(counters["iterations"], counters["jobs"] + Cardinality(Ahead))
      <3>1. counters["iterations"] = 0 /\ counters["jobs"] = 0
        BY <2>1 DEF Metrics
      <3>2. Sums(0, 0 + 0)
        BY SumsOfNone
      <3> QED
        BY <2>3, <3>1, <3>2
    <2>5. ~(counters["gauge"] > 0) /\ \A t \in Threads : ~At(t, "gauge") /\ ~At(t, "iterations")
      BY <2>1 DEF Metrics, At
    <2> QED
      BY <2>3, <2>4, <2>5 DEF ScrapeInv
  <1> DEFINE Inv == TypeOK /\ CountInv /\ ScrapeInv
             Scraped == /\ TextAddsUp'
                        /\ restarts' = restarts =>
                             \A key \in {"iterations", "jobs"} \ raced' :
                               counters[key] <= counters'[key]
  <1>2. Inv /\ [Next]_vars => Inv'
    BY NextTypeOK, CountStep, ScrapeStep
  <1>3. Inv /\ [Next]_vars => [Scraped]_vars
    <2>1. Inv' => TextAddsUp'
      BY ScrapeInvReads, PTL
    <2> QED
      BY <1>2, <2>1, CountersOnlyGoUp
  <1> QED
    BY <1>1, <1>2, <1>3, PTL DEF Spec, ScrapesAddUp
=============================================================================
