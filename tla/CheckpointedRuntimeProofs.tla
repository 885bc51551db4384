--------------------- MODULE CheckpointedRuntimeProofs ----------------------
(***************************************************************************)
(* Theorems about CheckpointedRuntime, for any number of processes, jobs,  *)
(* calls and crashes.                                                      *)
(*                                                                         *)
(* The runtimes touch the checkpoint directory only as FileCheckpointStore *)
(* says, so they implement it and inherit its invariant.  What they add is *)
(* who holds which file: a driver is inside save exactly while it is at    *)
(* the write of its call, with the key and the output of its own job, so   *)
(* that every block in a file belongs to a job of the file's key.          *)
(***************************************************************************)
EXTENDS CheckpointedRuntime, TLAPS

StoreProofs == INSTANCE FileCheckpointStoreProofs
                 WITH Savers <- Drivers, Keys <- Algs \X Iterations, States <- Jobs

\* A call that has saved its result.
SavedPCs == {"count_iterations", "count_jobs", "set_gauges", "merge"}

\* What holds of the call of d and of what it answered last.
CallIsSound(d) ==
  /\ call[d].pc # "idle" => call[d].job \in Jobs
  /\ call[d].pc \in {"exists", "load"} => call[d].ask \in Iterations
  /\ At(d, "write") => saver[d].key = KeyOf(call[d].job) /\ saver[d].state = call[d].job
  /\ call[d].pc \in SavedPCs => Store!Exists(KeyOf(call[d].job))
  /\ answer[d].how = "ran" => answer[d].job \in Jobs /\ Store!Exists(KeyOf(answer[d].job))
  /\ At(d, "load") => Store!Exists(<<AlgOf[call[d].job], call[d].ask>>)

\* A block of a file belongs to a job whose key is the file's.
BlocksAreKeyed ==
  \A k \in Algs \X Iterations, n \in 1 .. Blocks :
    Store!Exists(k) /\ files[k][n] \in Jobs => KeyOf(files[k][n]) = k

\* The counters of one process and one algorithm.
CountersMatch(d, a) ==
  LET mine(pcs) == call[d].pc \in pcs /\ AlgOf[call[d].job] = a
      behind(pcs, n) == IF mine(pcs) THEN n ELSE 0
  IN
  /\ saved[d][a].count =
       registry[d][a].jobs + behind({"count_iterations", "count_jobs"}, 1)
  /\ saved[d][a].iterations =
       registry[d][a].iterations
         + behind({"count_iterations"}, ItersOf[call[d].job])

\* The inductive invariant.
Inv ==
  /\ TypeOK
  /\ StoreProofs!Inv
  /\ BlocksAreKeyed
  /\ \A d \in Drivers : CallIsSound(d) /\ \A a \in Algs : CountersMatch(d, a)

-----------------------------------------------------------------------------
\* The key of a job is a key of the store.
LEMMA KeyType ==
  \A j \in Jobs : /\ AlgOf[j] \in Algs /\ ItersOf[j] \in Nat /\ ItersOf[j] \in Iterations
                  /\ KeyOf(j) \in Algs \X Iterations
BY JobsAssumption DEF KeyOf, Iterations

LEMMA IterationsAreNatural == \A i \in Iterations : i \in Nat
BY JobsAssumption DEF Iterations

\* The store as the runtimes see it, and as its theorems do.
LEMMA SameStore ==
  /\ Store!Init <=> StoreProofs!Init
  /\ [Store!Next]_<<files, saver, damage, latest>>
       <=> [StoreProofs!Next]_<<files, saver, damage, latest>>
  /\ Store!TypeOK <=> StoreProofs!TypeOK
  /\ Store!TypeOK' <=> StoreProofs!TypeOK'
BY Zenon
DEF Store!Init, StoreProofs!Init, Store!Idle, StoreProofs!Idle,
    Store!Next, StoreProofs!Next, Store!Open, StoreProofs!Open,
    Store!WriteBlock, StoreProofs!WriteBlock, Store!WriteAt, StoreProofs!WriteAt,
    Store!Close, StoreProofs!Close, Store!Abandon, StoreProofs!Abandon,
    Store!Saving, StoreProofs!Saving, Store!TypeOK, StoreProofs!TypeOK,
    Store!Content, StoreProofs!Content

\* Every step of a driver is a step of the store or leaves it alone.
LEMMA StepImplementsStore ==
  Inv /\ [Next]_vars => [Store!Next]_<<files, saver, damage, latest>>
PROOF
  <1> SUFFICES ASSUME Inv, Next
               PROVE  [Store!Next]_<<files, saver, damage, latest>>
    BY DEF vars
  <1>1. PICK d \in Drivers :
          \/ \E kind \in Kinds, j \in Jobs :
               \E i \in IF kind = "resume" THEN Asks[j] ELSE {0} : Begin(d, kind, j, i)
          \/ Resume(d) \/ Run(d) \/ Save(d) \/ Record(d) \/ Crash(d)
    BY Zenon DEF Next
  <1>2. CASE Save(d)
    <2>1. OpenCheckpoint(d) => \E k \in Algs \X Iterations, s \in Jobs : Store!Open(d, k, s)
      BY KeyType DEF Inv, CallIsSound, OpenCheckpoint, At
    <2>2. \/ \E k \in Algs \X Iterations, s \in Jobs : Store!Open(d, k, s)
          \/ Store!WriteBlock(d) \/ Store!Close(d) \/ Store!Abandon(d)
      BY <1>2, <2>1, Zenon DEF Save, WriteCheckpoint, CloseCheckpoint, SaveRaises
    <2> QED
      BY <2>2, Zenon DEF Store!Next
  <1>3. CASE Crash(d)
    <2>1. Store!Abandon(d) \/ StoreUnchanged
      BY <1>3, Zenon DEF Crash
    <2> QED
      BY <2>1, Zenon DEF Store!Next, StoreUnchanged
  <1>4. ASSUME NEW kind, NEW j, NEW i, Begin(d, kind, j, i)
        PROVE  StoreUnchanged
    BY <1>4, Zenon DEF Begin
  <1>5. Resume(d) \/ Run(d) \/ Record(d) => StoreUnchanged
    BY Zenon
    DEF Resume, LookUp, Load, LoadRaises, LoadMisreads, Run, MaybeRaise, Compute,
        ComputeRaises, Record, CountIterations, CountJob, SetGauges, Merge, MergeRaises
  <1> QED
    BY <1>1, <1>2, <1>3, <1>4, <1>5, Zenon DEF StoreUnchanged

\* The invariant of the store holds for the directory of the runtimes.
LEMMA StoreStep == Inv /\ [Next]_vars => StoreProofs!Inv' /\ Store!TypeOK'
PROOF
  <1> SUFFICES ASSUME Inv, [Next]_vars PROVE StoreProofs!Inv' /\ Store!TypeOK'
    OBVIOUS
  <1>1. [StoreProofs!Next]_(StoreProofs!storeVars)
    BY StepImplementsStore, SameStore, Zenon DEF StoreProofs!storeVars
  <1>2. /\ StoreProofs!Inv /\ StoreProofs!TypeOK
        /\ \A k \in Algs \X Iterations : StoreProofs!FileIsPrefix(k)
    BY Zenon DEF Inv, StoreProofs!Inv
  <1>3. StoreProofs!TypeOK'
    BY <1>1, <1>2, StoreAssumption, StoreProofs!NextTypeOK, Zenon
  <1>4. \A k \in Algs \X Iterations : StoreProofs!FileIsPrefix(k)'
    BY <1>1, <1>2, StoreAssumption, StoreProofs!NextFileIsPrefix, Zenon
  <1> QED
    BY <1>3, <1>4, SameStore, Zenon DEF StoreProofs!Inv

-----------------------------------------------------------------------------
LEMMA InitInv == Init => Inv
PROOF
  <1> SUFFICES ASSUME Init PROVE Inv
    OBVIOUS
  <1>1. Store!Init
    BY DEF Init
  <1>2. StoreProofs!Inv
    BY <1>1, SameStore, StoreAssumption, StoreProofs!InitInv, Zenon
  <1>3. Store!TypeOK
    BY <1>2, SameStore, Zenon DEF StoreProofs!Inv
  <1>4. /\ call \in [Drivers -> [pc : PCs, kind : Kinds \cup {"none"},
                                 job : Jobs \cup {Nobody},
                                 ask : Iterations \cup {0}, retries : 0 .. 1]]
        /\ answer \in [Drivers ->
                   [how : {"none", "ran", "computed", "resumed", "raised"},
                    job : Jobs \cup {Nobody}, output : Jobs \cup {Nobody},
                    ask : Iterations \cup {0}]]
    BY DEF Init, NoCall, NoAnswer, PCs
  <1>5. /\ registry \in [Drivers -> [Algs -> [iterations : Nat, jobs : Nat,
                                              gauges : Jobs \cup {Nobody}]]]
        /\ saved \in [Drivers -> [Algs -> [count : Nat, iterations : Nat]]]
    BY DEF Init, ZeroEntry, ZeroSaved
  <1>6. \A d \in Drivers : Store!Saving(d) <=> At(d, "write")
    BY <1>1 DEF Init, Store!Init, Store!Idle, Store!Saving, At, NoCall
  <1>7. triggered \in [Drivers -> BOOLEAN] /\ begun \in 0 .. MaxCalls /\ crashes \in 0 .. MaxCrashes
    BY BoundsAssumption DEF Init
  <1>8. TypeOK
    BY <1>3, <1>4, <1>5, <1>6, <1>7, Zenon DEF TypeOK
  <1>9. BlocksAreKeyed
    BY <1>1 DEF BlocksAreKeyed, Store!Init, Store!Exists
  <1>10. \A d \in Drivers : CallIsSound(d)
    BY DEF Init, CallIsSound, NoCall, NoAnswer, At, SavedPCs
  <1>11. \A d \in Drivers, a \in Algs : CountersMatch(d, a)
    BY DEF Init, CountersMatch, NoCall, ZeroEntry, ZeroSaved
  <1> QED
    BY <1>2, <1>8, <1>9, <1>10, <1>11, Zenon DEF Inv

-----------------------------------------------------------------------------
(* How the variables of a driver move.                                     *)

LEMMA GotoMoves ==
  ASSUME TypeOK, NEW d \in Drivers, NEW pc \in PCs, Goto(d, pc)
  PROVE  /\ call' \in [Drivers -> [pc : PCs, kind : Kinds \cup {"none"},
                                   job : Jobs \cup {Nobody},
                                   ask : Iterations \cup {0}, retries : 0 .. 1]]
         /\ call'[d].pc = pc /\ call'[d].job = call[d].job /\ call'[d].ask = call[d].ask
         /\ \A e \in Drivers : e # d => call'[e] = call[e]
PROOF
  <1>1. call \in [Drivers -> [pc : PCs, kind : Kinds \cup {"none"},
                               job : Jobs \cup {Nobody},
                               ask : Iterations \cup {0}, retries : 0 .. 1]]
    BY DEF TypeOK
  <1>2. call' = [call EXCEPT ![d].pc = pc]
    BY DEF Goto
  <1>3. call'[d] = [call[d] EXCEPT !.pc = pc] /\ DOMAIN call' = Drivers
    BY <1>1, <1>2
  <1>4. call'[d] \in [pc : PCs, kind : Kinds \cup {"none"}, job : Jobs \cup {Nobody},
                      ask : Iterations \cup {0}, retries : 0 .. 1]
    BY <1>1, <1>3
  <1> QED
    BY <1>1, <1>2, <1>3, <1>4

LEMMA ReturnMoves ==
  ASSUME TypeOK, NEW d \in Drivers, NEW output \in Jobs \cup {Nobody},
         NEW how \in {"none", "ran", "computed", "resumed", "raised"},
         Return(d, how, output)
  PROVE  /\ call' \in [Drivers -> [pc : PCs, kind : Kinds \cup {"none"},
                                   job : Jobs \cup {Nobody},
                                   ask : Iterations \cup {0}, retries : 0 .. 1]]
         /\ answer' \in [Drivers ->
                   [how : {"none", "ran", "computed", "resumed", "raised"},
                    job : Jobs \cup {Nobody}, output : Jobs \cup {Nobody},
                    ask : Iterations \cup {0}]]
         /\ call'[d].pc = "idle"
         /\ answer'[d].how = how /\ answer'[d].job = call[d].job
         /\ answer'[d].output = output /\ answer'[d].ask = call[d].ask
         /\ \A e \in Drivers : e # d => call'[e] = call[e] /\ answer'[e] = answer[e]
BY DEF TypeOK, Return, NoCall, PCs

\* A step of d keeps the invariant if it does so for d, and no file vanishes.
LEMMA DriverFrame ==
  ASSUME Inv, [Next]_vars, TypeOK', BlocksAreKeyed', NEW d \in Drivers,
         \A k \in Algs \X Iterations : Store!Exists(k) => Store!Exists(k)',
         \A e \in Drivers : e # d =>
           /\ call'[e] = call[e] /\ answer'[e] = answer[e] /\ saver'[e] = saver[e]
           /\ registry'[e] = registry[e] /\ saved'[e] = saved[e],
         CallIsSound(d)', \A a \in Algs : CountersMatch(d, a)'
  PROVE  Inv'
PROOF
  <1>1. ASSUME NEW e \in Drivers, e # d
        PROVE  CallIsSound(e)' /\ \A a \in Algs : CountersMatch(e, a)'
    <2>1. /\ CallIsSound(e) /\ \A a \in Algs : CountersMatch(e, a)
          /\ call[e].pc \in PCs
      BY <1>1 DEF Inv, TypeOK
    <2>2. /\ call'[e] = call[e] /\ answer'[e] = answer[e] /\ saver'[e] = saver[e]
          /\ registry'[e] = registry[e] /\ saved'[e] = saved[e]
      BY <1>1
    <2>3. CallIsSound(e)'
      <3>1. call[e].pc \in SavedPCs => Store!Exists(KeyOf(call[e].job))'
        BY <2>1, <2>2, KeyType DEF CallIsSound, SavedPCs
      <3>2. answer[e].how = "ran" => Store!Exists(KeyOf(answer[e].job))'
        BY <2>1, <2>2, KeyType DEF CallIsSound
      <3>3. call[e].pc = "load" => Store!Exists(<<AlgOf[call[e].job], call[e].ask>>)'
        <4>1. call[e].pc = "load" => <<AlgOf[call[e].job], call[e].ask>> \in Algs \X Iterations
          BY <2>1, KeyType DEF CallIsSound
        <4> QED
          BY <2>1, <2>2, <4>1 DEF CallIsSound, At
      <3> QED
        BY <2>1, <2>2, <3>1, <3>2, <3>3 DEF CallIsSound, At, KeyOf
    <2>4. \A a \in Algs : CountersMatch(e, a)'
      BY <2>1, <2>2 DEF CountersMatch
    <2> QED
      BY <2>3, <2>4
  <1>2. StoreProofs!Inv'
    BY StoreStep
  <1> QED
    BY <1>1, <1>2 DEF Inv

\* A step that moves the call of d on before anything is saved.
LEMMA QuietGoto ==
  ASSUME Inv, [Next]_vars, NEW d \in Drivers, NEW pc \in {"load", "compute", "save"},
         Goto(d, pc), call[d].pc \in {"exists", "fault", "compute"},
         pc = "load" => /\ call[d].ask \in Iterations
                        /\ Store!Exists(<<AlgOf[call[d].job], call[d].ask>>),
         StoreUnchanged,
         UNCHANGED <<answer, registry, triggered, saved, begun, crashes>>
  PROVE  Inv'
PROOF
  <1>1. TypeOK /\ CallIsSound(d) /\ BlocksAreKeyed /\ \A a \in Algs : CountersMatch(d, a)
    BY DEF Inv
  <1>2. /\ call' \in [Drivers -> [pc : PCs, kind : Kinds \cup {"none"},
                                   job : Jobs \cup {Nobody},
                                   ask : Iterations \cup {0}, retries : 0 .. 1]]
        /\ call'[d].pc = pc /\ call'[d].job = call[d].job /\ call'[d].ask = call[d].ask
        /\ \A e \in Drivers : e # d => call'[e] = call[e]
    BY <1>1, GotoMoves DEF PCs
  <1>3. UNCHANGED <<files, saver, damage, latest>>
    BY DEF StoreUnchanged
  <1>4. \A e \in Drivers : Store!Saving(e)' <=> At(e, "write")'
    <2>1. \A e \in Drivers : Store!Saving(e) <=> At(e, "write")
      BY <1>1 DEF TypeOK
    <2> QED
      BY <1>2, <1>3, <2>1 DEF At, Store!Saving
  <1>5. TypeOK'
    BY <1>1, <1>2, <1>4, StoreStep DEF TypeOK
  <1>6. BlocksAreKeyed' /\ (\A k \in Algs \X Iterations : Store!Exists(k) => Store!Exists(k)')
    BY <1>1, <1>3 DEF BlocksAreKeyed, Store!Exists
  <1>7. CallIsSound(d)'
    BY <1>1, <1>2, <1>3 DEF CallIsSound, SavedPCs, At, Store!Exists
  <1>8. \A a \in Algs : CountersMatch(d, a)'
    BY <1>1, <1>2 DEF CountersMatch
  <1> QED
    BY <1>2, <1>3, <1>5, <1>6, <1>7, <1>8, DriverFrame

\* A step that ends the call of d and saves and counts nothing.
LEMMA QuietReturn ==
  ASSUME Inv, [Next]_vars, NEW d \in Drivers, NEW output \in Jobs \cup {Nobody},
         NEW how \in {"none", "ran", "computed", "resumed", "raised"},
         Return(d, how, output),
         call[d].pc \notin {"idle", "write", "count_iterations", "count_jobs"},
         how = "ran" => Store!Exists(KeyOf(call[d].job)),
         StoreUnchanged, UNCHANGED <<triggered, saved, begun, crashes>>,
         registry' \in [Drivers -> [Algs -> [iterations : Nat, jobs : Nat,
                                             gauges : Jobs \cup {Nobody}]]],
         \A e \in Drivers : e # d => registry'[e] = registry[e],
         \A a \in Algs : /\ registry'[d][a].iterations = registry[d][a].iterations
                         /\ registry'[d][a].jobs = registry[d][a].jobs
  PROVE  Inv'
PROOF
  <1>1. TypeOK /\ CallIsSound(d) /\ BlocksAreKeyed /\ \A a \in Algs : CountersMatch(d, a)
    BY DEF Inv
  <1>2. /\ call' \in [Drivers -> [pc : PCs, kind : Kinds \cup {"none"},
                                   job : Jobs \cup {Nobody},
                                   ask : Iterations \cup {0}, retries : 0 .. 1]]
        /\ answer' \in [Drivers ->
                   [how : {"none", "ran", "computed", "resumed", "raised"},
                    job : Jobs \cup {Nobody}, output : Jobs \cup {Nobody},
                    ask : Iterations \cup {0}]]
        /\ call'[d].pc = "idle"
        /\ answer'[d].how = how /\ answer'[d].job = call[d].job
        /\ answer'[d].output = output /\ answer'[d].ask = call[d].ask
        /\ \A e \in Drivers : e # d => call'[e] = call[e] /\ answer'[e] = answer[e]
    BY <1>1, ReturnMoves
  <1>3. UNCHANGED <<files, saver, damage, latest>>
    BY DEF StoreUnchanged
  <1>4. \A e \in Drivers : Store!Saving(e)' <=> At(e, "write")'
    <2>1. Store!Saving(d) <=> At(d, "write")
      BY <1>1 DEF TypeOK
    <2>2. ~Store!Saving(d)' /\ ~At(d, "write")'
      BY <1>2, <1>3, <2>1 DEF At, Store!Saving
    <2>3. \A e \in Drivers : e # d => (Store!Saving(e)' <=> At(e, "write")')
      BY <1>1, <1>2, <1>3 DEF TypeOK, At, Store!Saving
    <2> QED
      BY <2>2, <2>3
  <1>5. TypeOK'
    BY <1>1, <1>2, <1>4, StoreStep DEF TypeOK
  <1>6. BlocksAreKeyed' /\ (\A k \in Algs \X Iterations : Store!Exists(k) => Store!Exists(k)')
    BY <1>1, <1>3 DEF BlocksAreKeyed, Store!Exists
  <1>7. CallIsSound(d)'
    BY <1>1, <1>2, <1>3 DEF CallIsSound, SavedPCs, At, Store!Exists, KeyOf
  <1>8. \A a \in Algs : CountersMatch(d, a)'
    BY <1>1, <1>2 DEF CountersMatch
  <1> QED
    BY <1>2, <1>3, <1>5, <1>6, <1>7, <1>8, DriverFrame

-----------------------------------------------------------------------------
LEMMA BeginStep ==
  ASSUME Inv, [Next]_vars, NEW d \in Drivers, NEW kind \in Kinds, NEW j \in Jobs,
         NEW i \in IF kind = "resume" THEN Asks[j] ELSE {0}, Begin(d, kind, j, i)
  PROVE  Inv'
PROOF
  <1>1. TypeOK /\ CallIsSound(d) /\ BlocksAreKeyed /\ \A a \in Algs : CountersMatch(d, a)
    BY DEF Inv
  <1>2. i \in Iterations \cup {0} /\ (kind = "resume" => i \in Iterations)
    BY JobsAssumption DEF Iterations
  <1> DEFINE start == CASE kind = "resume"  -> "exists"
                        [] kind = "recover" -> "fault"
                        [] OTHER            -> "compute"
  <1>3. start \in {"exists", "fault", "compute"} /\ (start = "exists" => kind = "resume")
    OBVIOUS
  <1>4. /\ call' \in [Drivers -> [pc : PCs, kind : Kinds \cup {"none"},
                                   job : Jobs \cup {Nobody},
                                   ask : Iterations \cup {0}, retries : 0 .. 1]]
        /\ call'[d].pc = start /\ call'[d].job = j /\ call'[d].ask = i
        /\ \A e \in Drivers : e # d => call'[e] = call[e]
    <2>1. call' = [call EXCEPT ![d] = [pc |-> start, kind |-> kind, job |-> j, ask |-> i,
                                       retries |-> 0]]
      BY DEF Begin
    <2>2. start \in PCs
      BY <1>3 DEF PCs
    <2> HIDE DEF start
    <2> QED
      BY <1>1, <1>2, <2>1, <2>2 DEF TypeOK
  <1> HIDE DEF start
  <1>5. /\ answer' \in [Drivers ->
                   [how : {"none", "ran", "computed", "resumed", "raised"},
                    job : Jobs \cup {Nobody}, output : Jobs \cup {Nobody},
                    ask : Iterations \cup {0}]]
        /\ answer'[d].how = "none"
        /\ \A e \in Drivers : e # d => answer'[e] = answer[e]
    <2>1. answer' = [answer EXCEPT ![d] = NoAnswer]
      BY DEF Begin
    <2>2. answer \in [Drivers ->
                   [how : {"none", "ran", "computed", "resumed", "raised"},
                    job : Jobs \cup {Nobody}, output : Jobs \cup {Nobody},
                    ask : Iterations \cup {0}]]
      BY <1>1 DEF TypeOK
    <2> QED
      BY <2>1, <2>2 DEF NoAnswer
  <1>6. UNCHANGED <<files, saver, damage, latest, registry, triggered, saved, crashes>>
          /\ call[d].pc = "idle" /\ begun' \in 0 .. MaxCalls
    BY <1>1, BoundsAssumption DEF Begin, StoreUnchanged, At, TypeOK
  <1>7. \A e \in Drivers : Store!Saving(e)' <=> At(e, "write")'
    <2>1. \A e \in Drivers : Store!Saving(e) <=> At(e, "write")
      BY <1>1 DEF TypeOK
    <2> QED
      BY <1>3, <1>4, <1>6, <2>1 DEF At, Store!Saving
  <1>8. TypeOK'
    BY <1>1, <1>4, <1>5, <1>6, <1>7, StoreStep DEF TypeOK
  <1>9. BlocksAreKeyed' /\ (\A k \in Algs \X Iterations : Store!Exists(k) => Store!Exists(k)')
    BY <1>1, <1>6 DEF BlocksAreKeyed, Store!Exists
  <1>10. CallIsSound(d)'
    BY <1>2, <1>3, <1>4, <1>5 DEF CallIsSound, SavedPCs, At
  <1>11. \A a \in Algs : CountersMatch(d, a)'
    BY <1>1, <1>3, <1>4, <1>6 DEF CountersMatch
  <1> QED
    BY <1>4, <1>5, <1>6, <1>8, <1>9, <1>10, <1>11, DriverFrame

\* What a whole file holds is of the file's key.
LEMMA LoadedHasTheKey ==
  ASSUME Inv, NEW k \in Algs \X Iterations, NEW s \in Jobs, files[k] = Store!Whole(s)
  PROVE  KeyOf(s) = k
PROOF
  <1>1. 1 \in 1 .. Blocks /\ files[k][1] = s
    BY StoreAssumption DEF Store!Whole
  <1>2. Store!Exists(k)
    <2>1. Store!Whole(s) \in [1 .. Blocks -> Jobs \cup {Missing, Hole}]
      BY DEF Store!Whole
    <2> QED
      BY <2>1, StoreAssumption DEF Store!Exists
  <1> QED
    BY <1>1, <1>2 DEF Inv, BlocksAreKeyed

LEMMA ResumeStep == ASSUME Inv, [Next]_vars, NEW d \in Drivers, Resume(d) PROVE Inv'
PROOF
  <1>1. TypeOK /\ CallIsSound(d)
    BY DEF Inv
  <1>2. CASE LookUp(d)
    <2>1. PICK pc \in {"load", "compute"} :
            /\ Goto(d, pc)
            /\ pc = "load" => Store!Exists(<<AlgOf[call[d].job], call[d].ask>>)
      <3>1. CASE Store!Exists(<<AlgOf[call[d].job], call[d].ask>>)
        BY <1>2, <3>1 DEF LookUp
      <3>2. CASE ~Store!Exists(<<AlgOf[call[d].job], call[d].ask>>)
        BY <1>2, <3>2 DEF LookUp
      <3> QED
        BY <3>1, <3>2
    <2>2. call[d].pc = "exists" /\ call[d].ask \in Iterations
      BY <1>1, <1>2 DEF LookUp, At, CallIsSound
    <2>3. StoreUnchanged /\ UNCHANGED <<answer, registry, triggered, saved, begun, crashes>>
      BY <1>2, Zenon DEF LookUp
    <2> QED
      BY <2>1, <2>2, <2>3, QuietGoto
  <1>4. CASE Load(d) \/ LoadRaises(d) \/ LoadMisreads(d)
    <2>1. PICK how \in {"resumed", "raised"}, output \in Jobs \cup {Nobody} :
            Return(d, how, output)
      BY <1>4 DEF Load, LoadRaises, LoadMisreads, Raise
    <2>2. call[d].pc = "load"
      BY <1>4 DEF Load, LoadRaises, LoadMisreads, At
    <2>3. StoreUnchanged /\ UNCHANGED <<registry, triggered, saved, begun, crashes>>
      BY <1>4, Zenon DEF Load, LoadRaises, LoadMisreads
    <2>4. registry \in [Drivers -> [Algs -> [iterations : Nat, jobs : Nat,
                                            gauges : Jobs \cup {Nobody}]]]
      BY <1>1 DEF TypeOK
    <2> QED
      BY <2>1, <2>2, <2>3, <2>4, QuietReturn
  <1> QED
    BY <1>2, <1>4, Zenon DEF Resume

LEMMA RunStep == ASSUME Inv, [Next]_vars, NEW d \in Drivers, Run(d) PROVE Inv'
PROOF
  <1>1. TypeOK /\ CallIsSound(d) /\ BlocksAreKeyed /\ \A a \in Algs : CountersMatch(d, a)
    BY DEF Inv
  <1>2. CASE MaybeRaise(d)
    <2>1. /\ call' \in [Drivers -> [pc : PCs, kind : Kinds \cup {"none"},
                                     job : Jobs \cup {Nobody},
                                     ask : Iterations \cup {0}, retries : 0 .. 1]]
          /\ call[d].pc = "fault" /\ call'[d].pc = "compute"
          /\ call'[d].job = call[d].job
          /\ \A e \in Drivers : e # d => call'[e] = call[e]
      <3> DEFINE again == IF triggered[d] THEN 0 ELSE 1
      <3>1. call' = [call EXCEPT ![d].pc = "compute", ![d].retries = again]
        BY <1>2 DEF MaybeRaise
      <3>2. again \in 0 .. 1 /\ "compute" \in PCs
        BY DEF PCs
      <3>3. call[d].pc = "fault"
        BY <1>2 DEF MaybeRaise, At
      <3>4. call \in [Drivers -> [pc : PCs, kind : Kinds \cup {"none"},
                                  job : Jobs \cup {Nobody},
                                  ask : Iterations \cup {0}, retries : 0 .. 1]]
        BY <1>1 DEF TypeOK
      <3> HIDE DEF again
      <3> QED
        BY <3>1, <3>2, <3>3, <3>4
    <2>2. UNCHANGED <<files, saver, damage, latest, answer, registry, saved, begun, crashes>>
            /\ triggered' \in [Drivers -> BOOLEAN]
      BY <1>1, <1>2 DEF MaybeRaise, TypeOK, StoreUnchanged
    <2>3. \A e \in Drivers : Store!Saving(e)' <=> At(e, "write")'
      <3>1. \A e \in Drivers : Store!Saving(e) <=> At(e, "write")
        BY <1>1 DEF TypeOK
      <3> QED
        BY <2>1, <2>2, <3>1 DEF At, Store!Saving
    <2>4. TypeOK'
      BY <1>1, <2>1, <2>2, <2>3, StoreStep DEF TypeOK
    <2>5. BlocksAreKeyed' /\ (\A k \in Algs \X Iterations : Store!Exists(k) => Store!Exists(k)')
      BY <1>1, <2>2 DEF BlocksAreKeyed, Store!Exists
    <2>6. CallIsSound(d)'
      BY <1>1, <2>1, <2>2 DEF CallIsSound, SavedPCs, At, Store!Exists
    <2>7. \A a \in Algs : CountersMatch(d, a)'
      BY <1>1, <2>1, <2>2 DEF CountersMatch
    <2> QED
      BY <2>1, <2>2, <2>4, <2>5, <2>6, <2>7, DriverFrame
  <1>3. CASE Compute(d)
    <2>1. /\ call[d].pc = "compute" /\ StoreUnchanged
          /\ UNCHANGED <<registry, triggered, saved, begun, crashes>>
      BY <1>3 DEF Compute, At
    <2>2. CASE call[d].kind = "pregel"
      <3>1. Return(d, "computed", call[d].job) /\ call[d].job \in Jobs
        BY <1>1, <1>3, <2>1, <2>2 DEF Compute, CallIsSound
      <3> QED
        BY <1>1, <2>1, <3>1, QuietReturn DEF TypeOK
    <2>3. CASE call[d].kind # "pregel"
      <3>1. Goto(d, "save") /\ UNCHANGED answer
        BY <1>3, <2>3 DEF Compute
      <3> QED
        BY <2>1, <3>1, QuietGoto
    <2> QED
      BY <2>2, <2>3
  <1>4. CASE ComputeRaises(d)
    <2>1. /\ Return(d, "raised", Nobody) /\ call[d].pc = "compute" /\ StoreUnchanged
          /\ UNCHANGED <<registry, triggered, saved, begun, crashes>>
      BY <1>4 DEF ComputeRaises, Raise, At
    <2> QED
      BY <1>1, <2>1, QuietReturn DEF TypeOK
  <1> QED
    BY <1>2, <1>3, <1>4, Zenon DEF Run

-----------------------------------------------------------------------------
(* Saving.                                                                 *)

\* A step of save that leaves the answer alone: what has to be shown.
LEMMA SaveFrame ==
  ASSUME Inv, [Next]_vars, NEW d \in Drivers,
         call' \in [Drivers -> [pc : PCs, kind : Kinds \cup {"none"},
                                 job : Jobs \cup {Nobody},
                                 ask : Iterations \cup {0}, retries : 0 .. 1]],
         call'[d].job = call[d].job, call[d].pc \in {"save", "write"},
         call'[d].pc \in {"write", "count_iterations"},
         \A e \in Drivers : e # d => call'[e] = call[e] /\ saver'[e] = saver[e],
         \A e \in Drivers : e # d => saved'[e] = saved[e],
         saved' \in [Drivers -> [Algs -> [count : Nat, iterations : Nat]]],
         UNCHANGED <<answer, registry, triggered, begun, crashes>>,
         Store!Saving(d)' <=> At(d, "write")',
         BlocksAreKeyed', \A k \in Algs \X Iterations : Store!Exists(k) => Store!Exists(k)',
         At(d, "write")' => saver'[d].key = KeyOf(call[d].job)
                              /\ saver'[d].state = call[d].job,
         Store!Exists(KeyOf(call[d].job))',
         \A a \in Algs : CountersMatch(d, a)'
  PROVE  Inv'
PROOF
  <1>1. TypeOK /\ CallIsSound(d)
    BY DEF Inv
  <1>2. \A e \in Drivers : Store!Saving(e)' <=> At(e, "write")'
    <2>1. \A e \in Drivers : Store!Saving(e) <=> At(e, "write")
      BY <1>1 DEF TypeOK
    <2>2. ASSUME NEW e \in Drivers, e # d
          PROVE  Store!Saving(e)' <=> At(e, "write")'
      <3>1. call'[e] = call[e] /\ saver'[e] = saver[e]
        BY <2>2
      <3> QED
        BY <2>1, <3>1 DEF At, Store!Saving
    <2> QED
      BY <2>2
  <1>3. TypeOK'
    BY <1>1, <1>2, StoreStep DEF TypeOK
  <1>4. answer[d].how = "ran" => Store!Exists(KeyOf(answer[d].job))'
    BY <1>1, KeyType DEF CallIsSound
  <1>5. CallIsSound(d)'
    BY <1>1, <1>4 DEF CallIsSound, SavedPCs, At, KeyOf
  <1> QED
    BY <1>3, <1>5, DriverFrame

\* A driver that is inside save has its file.
LEMMA StoreHasOpenFiles ==
  ASSUME Inv, NEW d \in Drivers, At(d, "write")
  PROVE  Store!Exists(KeyOf(call[d].job))
PROOF
  <1>1. call[d].job \in Jobs /\ saver[d].key = KeyOf(call[d].job)
    BY DEF Inv, CallIsSound, At
  <1>2. KeyOf(call[d].job) \in Algs \X Iterations
    BY <1>1, KeyType
  <1>3. StoreProofs!FileIsPrefix(KeyOf(call[d].job))
    BY <1>2, Zenon DEF Inv, StoreProofs!Inv
  <1> QED
    BY <1>1, <1>3 DEF StoreProofs!FileIsPrefix, StoreProofs!Exists, Store!Exists

\* A step that leaves a call and drops what it had begun to save: the
\* counters may be those of a new process.
LEMMA AbandonFrame ==
  ASSUME Inv, [Next]_vars, NEW d \in Drivers, UNCHANGED files,
         call' \in [Drivers -> [pc : PCs, kind : Kinds \cup {"none"},
                                 job : Jobs \cup {Nobody},
                                 ask : Iterations \cup {0}, retries : 0 .. 1]],
         answer' \in [Drivers ->
                   [how : {"none", "ran", "computed", "resumed", "raised"},
                    job : Jobs \cup {Nobody}, output : Jobs \cup {Nobody},
                    ask : Iterations \cup {0}]],
         call'[d].pc = "idle", answer'[d].how \in {"none", "raised"},
         \A e \in Drivers : e # d => call'[e] = call[e] /\ answer'[e] = answer[e],
         saver' = [saver EXCEPT ![d] = Store!Idle]
           \/ (saver' = saver /\ ~Store!Saving(d)),
         triggered' \in [Drivers -> BOOLEAN], begun' = begun, crashes' \in 0 .. MaxCrashes,
         \/ UNCHANGED <<registry, saved>> /\ call[d].pc \notin {"count_iterations", "count_jobs"}
         \/ /\ registry' = [registry EXCEPT ![d] = [a \in Algs |-> ZeroEntry]]
            /\ saved' = [saved EXCEPT ![d] = [a \in Algs |-> ZeroSaved]]
  PROVE  Inv'
PROOF
  <1>1. /\ TypeOK /\ CallIsSound(d) /\ BlocksAreKeyed /\ \A a \in Algs : CountersMatch(d, a)
        /\ saver \in [Drivers -> [key : (Algs \X Iterations) \cup {Nobody},
                                  state : Jobs \cup {Nobody}, wrote : 0 .. Blocks]]
    BY DEF Inv, TypeOK, Store!TypeOK
  <1>2. ~Store!Saving(d)' /\ \A e \in Drivers : e # d => saver'[e] = saver[e]
    BY <1>1 DEF Store!Saving, Store!Idle
  <1>3. \A e \in Drivers : Store!Saving(e)' <=> At(e, "write")'
    <2>1. \A e \in Drivers : e # d => (Store!Saving(e)' <=> At(e, "write")')
      BY <1>1, <1>2 DEF TypeOK, At, Store!Saving
    <2> QED
      BY <1>2, <2>1 DEF At
  <1>4. /\ registry' \in [Drivers -> [Algs -> [iterations : Nat, jobs : Nat,
                                               gauges : Jobs \cup {Nobody}]]]
        /\ saved' \in [Drivers -> [Algs -> [count : Nat, iterations : Nat]]]
        /\ \A e \in Drivers : e # d => registry'[e] = registry[e] /\ saved'[e] = saved[e]
    <2>1. /\ registry \in [Drivers -> [Algs -> [iterations : Nat, jobs : Nat,
                                               gauges : Jobs \cup {Nobody}]]]
          /\ saved \in [Drivers -> [Algs -> [count : Nat, iterations : Nat]]]
      BY <1>1 DEF TypeOK
    <2>2. /\ [a \in Algs |-> ZeroEntry] \in [Algs -> [iterations : Nat, jobs : Nat,
                                                      gauges : Jobs \cup {Nobody}]]
          /\ [a \in Algs |-> ZeroSaved] \in [Algs -> [count : Nat, iterations : Nat]]
      BY DEF ZeroEntry, ZeroSaved
    <2>3. CASE UNCHANGED <<registry, saved>>
      BY <2>1, <2>3
    <2>4. CASE /\ registry' = [registry EXCEPT ![d] = [a \in Algs |-> ZeroEntry]]
               /\ saved' = [saved EXCEPT ![d] = [a \in Algs |-> ZeroSaved]]
      BY <2>1, <2>2, <2>4
    <2> QED
      BY <2>3, <2>4
  <1>5. \A a \in Algs : CountersMatch(d, a)'
    <2>1. CASE UNCHANGED <<registry, saved>>
                 /\ call[d].pc \notin {"count_iterations", "count_jobs"}
      BY <1>1, <2>1 DEF CountersMatch
    <2>2. CASE /\ registry' = [registry EXCEPT ![d] = [a \in Algs |-> ZeroEntry]]
               /\ saved' = [saved EXCEPT ![d] = [a \in Algs |-> ZeroSaved]]
      <3>1. registry'[d] = [a \in Algs |-> ZeroEntry] /\ saved'[d] = [a \in Algs |-> ZeroSaved]
        BY <1>1, <2>2 DEF TypeOK
      <3> QED
        BY <3>1 DEF CountersMatch, ZeroEntry, ZeroSaved
    <2> QED
      BY <2>1, <2>2
  <1>6. TypeOK'
    BY <1>1, <1>3, <1>4, StoreStep DEF TypeOK
  <1>7. BlocksAreKeyed' /\ (\A k \in Algs \X Iterations : Store!Exists(k) => Store!Exists(k)')
    BY <1>1 DEF BlocksAreKeyed, Store!Exists
  <1>8. CallIsSound(d)'
    BY DEF CallIsSound, At, SavedPCs
  <1> QED
    BY <1>2, <1>4, <1>5, <1>6, <1>7, <1>8, DriverFrame

LEMMA SaveStep == ASSUME Inv, [Next]_vars, NEW d \in Drivers, Save(d) PROVE Inv'
PROOF
  <1> DEFINE j == call[d].job
  <1>1. /\ TypeOK /\ CallIsSound(d) /\ BlocksAreKeyed /\ \A a \in Algs : CountersMatch(d, a)
        /\ saver \in [Drivers -> [key : (Algs \X Iterations) \cup {Nobody},
                                  state : Jobs \cup {Nobody}, wrote : 0 .. Blocks]]
        /\ files \in [Algs \X Iterations -> Store!Content \cup {NoFile}]
        /\ \A e \in Drivers : Store!Saving(e) <=> At(e, "write")
    BY DEF Inv, TypeOK, Store!TypeOK
  <1>2. call[d].pc \in {"save", "write"}
    BY DEF Save, OpenCheckpoint, WriteCheckpoint, CloseCheckpoint, SaveRaises, At
  <1>3. j \in Jobs /\ KeyOf(j) \in Algs \X Iterations /\ j # Nobody
    BY <1>1, <1>2, KeyType, StoreAssumption DEF CallIsSound
  <1>4. CASE OpenCheckpoint(d)
    <2>1. /\ files' = [files EXCEPT ![KeyOf(j)] = [n \in 1 .. Blocks |-> Missing]]
          /\ saver' = [saver EXCEPT ![d] = [key |-> KeyOf(j), state |-> j, wrote |-> 0]]
          /\ call[d].pc = "save" /\ Goto(d, "write")
          /\ UNCHANGED <<answer, registry, triggered, saved, begun, crashes>>
      BY <1>4 DEF OpenCheckpoint, Store!Open, At
    <2>2. /\ call' \in [Drivers -> [pc : PCs, kind : Kinds \cup {"none"},
                                     job : Jobs \cup {Nobody},
                                     ask : Iterations \cup {0}, retries : 0 .. 1]]
          /\ call'[d].pc = "write" /\ call'[d].job = j
          /\ \A e \in Drivers : e # d => call'[e] = call[e]
      BY <1>1, <2>1, GotoMoves DEF PCs
    <2>3. /\ saver'[d].key = KeyOf(j) /\ saver'[d].state = j
          /\ \A e \in Drivers : e # d => saver'[e] = saver[e]
      BY <1>1, <2>1
    <2>4. Store!Saving(d)' <=> At(d, "write")'
      BY <1>3, <2>2, <2>3, StoreAssumption DEF Store!Saving, At
    <2>5. /\ \A k \in Algs \X Iterations : k # KeyOf(j) => files'[k] = files[k]
          /\ files'[KeyOf(j)] = [n \in 1 .. Blocks |-> Missing]
      BY <1>1, <1>3, <2>1
    <2>6. [n \in 1 .. Blocks |-> Missing] # NoFile
      <3>1. [n \in 1 .. Blocks |-> Missing] \in [1 .. Blocks -> Jobs \cup {Missing, Hole}]
        OBVIOUS
      <3> QED
        BY <3>1, StoreAssumption
    <2>7. BlocksAreKeyed'
      <3>1. ASSUME NEW k \in Algs \X Iterations, NEW n \in 1 .. Blocks,
                   files'[k] # NoFile, files'[k][n] \in Jobs
            PROVE  <<AlgOf[files'[k][n]], ItersOf[files'[k][n]]>> = k
        <4>1. k # KeyOf(j)
          BY <2>5, <3>1, StoreAssumption
        <4>2. files'[k] = files[k]
          BY <2>5, <4>1
        <4> QED
          BY <1>1, <3>1, <4>2 DEF BlocksAreKeyed, Store!Exists, KeyOf
      <3> QED
        BY <3>1 DEF BlocksAreKeyed, Store!Exists, KeyOf
    <2>8. /\ \A k \in Algs \X Iterations : Store!Exists(k) => Store!Exists(k)'
          /\ Store!Exists(KeyOf(j))'
      <3>1. files'[KeyOf(j)] # NoFile
        BY <2>5, <2>6
      <3>2. \A k \in Algs \X Iterations : files[k] # NoFile => files'[k] # NoFile
        BY <2>5, <3>1
      <3>3. (KeyOf(j))' = KeyOf(j)
        BY <2>2 DEF KeyOf
      <3> QED
        BY <3>1, <3>2, <3>3 DEF Store!Exists
    <2>9. \A a \in Algs : CountersMatch(d, a)'
      BY <1>1, <2>1, <2>2 DEF CountersMatch
    <2> QED
      BY <1>1, <2>1, <2>2, <2>3, <2>4, <2>7, <2>8, <2>9, SaveFrame DEF TypeOK, KeyOf
  <1>5. CASE WriteCheckpoint(d)
    <2> DEFINE i == saver[d].wrote + 1
    <2>1. /\ files' = [files EXCEPT ![saver[d].key] =
                         Store!WriteAt(files[saver[d].key], i, saver[d].state)]
          /\ saver' = [saver EXCEPT ![d].wrote = i]
          /\ call[d].pc = "write"
          /\ UNCHANGED <<call, answer, registry, triggered, saved, begun, crashes>>
      BY <1>5 DEF WriteCheckpoint, Store!WriteBlock, runVars, At
    <2>2. saver[d].key = KeyOf(j) /\ saver[d].state = j
      BY <1>1, <2>1 DEF CallIsSound, At
    <2>3. /\ saver'[d].key = KeyOf(j) /\ saver'[d].state = j
          /\ \A e \in Drivers : e # d => saver'[e] = saver[e]
      BY <1>1, <2>1, <2>2
    <2>4. Store!Saving(d)' <=> At(d, "write")'
      BY <1>3, <2>1, <2>3, StoreAssumption DEF Store!Saving, At
    <2>5. /\ \A k \in Algs \X Iterations : k # KeyOf(j) => files'[k] = files[k]
          /\ files'[KeyOf(j)] = Store!WriteAt(files[KeyOf(j)], i, j)
      BY <1>1, <1>3, <2>1, <2>2
    <2>6. files[KeyOf(j)] # NoFile
      BY <1>1, <1>3, <2>1, <2>2, StoreHasOpenFiles DEF Store!Exists, At
    <2>7. /\ \A n \in 1 .. Blocks :
               files'[KeyOf(j)][n] \in {files[KeyOf(j)][n], j, Hole}
          /\ files'[KeyOf(j)] \in [1 .. Blocks -> Jobs \cup {Missing, Hole}]
      <3>1. files[KeyOf(j)] \in Store!Content
        BY <1>1, <1>3, <2>6
      <3>2. ASSUME NEW c \in Store!Content, NEW m, NEW n \in 1 .. Blocks
            PROVE  Store!WriteAt(c, m, j)[n] \in {c[n], j, Hole}
        BY DEF Store!WriteAt
      <3>3. ASSUME NEW c \in Store!Content, NEW m
            PROVE  Store!WriteAt(c, m, j) \in [1 .. Blocks -> Jobs \cup {Missing, Hole}]
        BY <1>3 DEF Store!WriteAt, Store!Content
      <3> HIDE DEF i
      <3> QED
        BY <2>5, <3>1, <3>2, <3>3
    <2>8. BlocksAreKeyed'
      <3>1. ASSUME NEW k \in Algs \X Iterations, NEW n \in 1 .. Blocks,
                   files'[k] # NoFile, files'[k][n] \in Jobs
            PROVE  <<AlgOf[files'[k][n]], ItersOf[files'[k][n]]>> = k
        <4>1. CASE k # KeyOf(j)
          <5>1. files'[k] = files[k]
            BY <2>5, <4>1
          <5> QED
            BY <1>1, <3>1, <5>1 DEF BlocksAreKeyed, Store!Exists, KeyOf
        <4>2. CASE k = KeyOf(j) /\ files'[k][n] = j
          BY <4>2 DEF KeyOf
        <4>3. CASE k = KeyOf(j) /\ files'[k][n] = files[k][n]
          BY <1>1, <2>6, <3>1, <4>3 DEF BlocksAreKeyed, Store!Exists, KeyOf
        <4> QED
          BY <2>7, <3>1, <4>1, <4>2, <4>3, StoreAssumption
      <3> QED
        BY <3>1 DEF BlocksAreKeyed, Store!Exists, KeyOf
    <2>9. /\ \A k \in Algs \X Iterations : Store!Exists(k) => Store!Exists(k)'
          /\ Store!Exists(KeyOf(j))'
      <3>1. files'[KeyOf(j)] # NoFile
        BY <2>7, StoreAssumption
      <3>2. \A k \in Algs \X Iterations : files[k] # NoFile => files'[k] # NoFile
        BY <2>5, <3>1
      <3>3. (KeyOf(j))' = KeyOf(j)
        BY <2>1 DEF KeyOf
      <3> QED
        BY <3>1, <3>2, <3>3 DEF Store!Exists
    <2>10. \A a \in Algs : CountersMatch(d, a)'
      BY <1>1, <2>1 DEF CountersMatch
    <2> QED
      BY <1>1, <2>1, <2>3, <2>4, <2>8, <2>9, <2>10, SaveFrame DEF TypeOK, KeyOf
  <1>6. CASE CloseCheckpoint(d)
    <2>0. PICK a \in Algs : a = AlgOf[j]
      BY <1>3, KeyType
    <2>1. /\ saver' = [saver EXCEPT ![d] = Store!Idle] /\ UNCHANGED files
          /\ saved' = [saved EXCEPT ![d][a].count = @ + 1,
                                    ![d][a].iterations = @ + ItersOf[j]]
          /\ call[d].pc = "write" /\ Goto(d, "count_iterations")
          /\ UNCHANGED <<answer, registry, triggered, begun, crashes>>
      BY <1>6, <2>0 DEF CloseCheckpoint, Store!Close, At
    <2>2. /\ call' \in [Drivers -> [pc : PCs, kind : Kinds \cup {"none"},
                                     job : Jobs \cup {Nobody},
                                     ask : Iterations \cup {0}, retries : 0 .. 1]]
          /\ call'[d].pc = "count_iterations" /\ call'[d].job = j
          /\ \A e \in Drivers : e # d => call'[e] = call[e]
      BY <1>1, <2>1, GotoMoves DEF PCs
    <2>3. saver'[d].key = Nobody /\ \A e \in Drivers : e # d => saver'[e] = saver[e]
      BY <1>1, <2>1 DEF Store!Idle
    <2>4. Store!Saving(d)' <=> At(d, "write")'
      BY <2>2, <2>3 DEF Store!Saving, At
    <2>5. BlocksAreKeyed' /\ \A k \in Algs \X Iterations : Store!Exists(k) => Store!Exists(k)'
      BY <1>1, <2>1 DEF BlocksAreKeyed, Store!Exists
    <2>6. Store!Exists(KeyOf(j))'
      <3>1. files[KeyOf(j)] # NoFile
        BY <1>1, <1>3, <2>1, StoreHasOpenFiles DEF Store!Exists, At, CallIsSound
      <3>2. (KeyOf(j))' = KeyOf(j)
        BY <2>2 DEF KeyOf
      <3> QED
        BY <2>1, <3>1, <3>2 DEF Store!Exists
    <2>7. /\ saved' \in [Drivers -> [Algs -> [count : Nat, iterations : Nat]]]
          /\ \A e \in Drivers : e # d => saved'[e] = saved[e]
          /\ saved'[d][a].count = saved[d][a].count + 1
          /\ saved'[d][a].iterations = saved[d][a].iterations + ItersOf[j]
          /\ \A b \in Algs : b # a => saved'[d][b] = saved[d][b]
      <3>1. a \in Algs /\ ItersOf[j] \in Nat
        BY <1>3, KeyType
      <3>2. saved \in [Drivers -> [Algs -> [count : Nat, iterations : Nat]]]
        BY <1>1 DEF TypeOK
      <3> HIDE DEF j
      <3> QED
        BY <2>1, <3>1, <3>2
    <2>8. \A b \in Algs : CountersMatch(d, b)'
      <3>1. /\ registry \in [Drivers -> [Algs -> [iterations : Nat, jobs : Nat,
                                                  gauges : Jobs \cup {Nobody}]]]
            /\ saved \in [Drivers -> [Algs -> [count : Nat, iterations : Nat]]]
        BY <1>1 DEF TypeOK
      <3>2. a \in Algs /\ ItersOf[j] \in Nat
        BY <1>3, KeyType
      <3>3. registry' = registry /\ call'[d].pc = "count_iterations" /\ call'[d].job = j
              /\ call[d].pc = "write"
        BY <2>1, <2>2
      <3>4. CountersMatch(d, a) => CountersMatch(d, a)'
        BY <2>0, <2>7, <3>1, <3>2, <3>3 DEF CountersMatch
      <3>5. ASSUME NEW b \in Algs, b # a
            PROVE  CountersMatch(d, b) => CountersMatch(d, b)'
        BY <2>0, <2>7, <3>1, <3>3, <3>5 DEF CountersMatch
      <3>6. \A b \in Algs : CountersMatch(d, b)
        BY <1>1
      <3>7. CountersMatch(d, a)'
        BY <3>2, <3>4, <3>6
      <3>8. \A b \in Algs : b # a => CountersMatch(d, b)'
        BY <3>5, <3>6
      <3> QED
        BY <3>7, <3>8
    <2> QED
      BY <1>1, <2>1, <2>2, <2>3, <2>4, <2>5, <2>6, <2>7, <2>8, SaveFrame DEF At
  <1>7. CASE SaveRaises(d)
    <2>1. /\ saver' = [saver EXCEPT ![d] = Store!Idle] /\ UNCHANGED files
          /\ call[d].pc = "write" /\ Return(d, "raised", Nobody)
          /\ UNCHANGED <<registry, triggered, saved, begun, crashes>>
      BY <1>7 DEF SaveRaises, Store!Abandon, Raise, At
    <2>2. /\ call' \in [Drivers -> [pc : PCs, kind : Kinds \cup {"none"},
                                     job : Jobs \cup {Nobody},
                                     ask : Iterations \cup {0}, retries : 0 .. 1]]
          /\ answer' \in [Drivers ->
                   [how : {"none", "ran", "computed", "resumed", "raised"},
                    job : Jobs \cup {Nobody}, output : Jobs \cup {Nobody},
                    ask : Iterations \cup {0}]]
          /\ call'[d].pc = "idle" /\ answer'[d].how = "raised"
          /\ \A e \in Drivers : e # d => call'[e] = call[e] /\ answer'[e] = answer[e]
      BY <1>1, <2>1, ReturnMoves
    <2>3. triggered' \in [Drivers -> BOOLEAN] /\ begun' = begun /\ crashes' \in 0 .. MaxCrashes
      BY <1>1, <2>1 DEF TypeOK
    <2>4. UNCHANGED <<registry, saved>> /\ call[d].pc \notin {"count_iterations", "count_jobs"}
      BY <2>1
    <2> QED
      BY <2>1, <2>2, <2>3, <2>4, AbandonFrame
  <1> QED
    BY <1>4, <1>5, <1>6, <1>7, Zenon DEF Save

-----------------------------------------------------------------------------
(* Recording.                                                              *)

\* A step that counts and goes on.
LEMMA CountFrame ==
  ASSUME Inv, [Next]_vars, NEW d \in Drivers, NEW pc \in {"count_jobs", "set_gauges", "merge"},
         call[d].pc \in {"count_iterations", "count_jobs", "set_gauges"},
         Goto(d, pc), StoreUnchanged,
         UNCHANGED <<answer, triggered, saved, begun, crashes>>,
         registry' \in [Drivers -> [Algs -> [iterations : Nat, jobs : Nat,
                                             gauges : Jobs \cup {Nobody}]]],
         \A e \in Drivers : e # d => registry'[e] = registry[e],
         \A a \in Algs : CountersMatch(d, a)'
  PROVE  Inv'
PROOF
  <1>1. TypeOK /\ CallIsSound(d) /\ BlocksAreKeyed
    BY DEF Inv
  <1>2. /\ call' \in [Drivers -> [pc : PCs, kind : Kinds \cup {"none"},
                                   job : Jobs \cup {Nobody},
                                   ask : Iterations \cup {0}, retries : 0 .. 1]]
        /\ call'[d].pc = pc /\ call'[d].job = call[d].job
        /\ \A e \in Drivers : e # d => call'[e] = call[e]
    BY <1>1, GotoMoves DEF PCs
  <1>3. UNCHANGED <<files, saver, damage, latest>>
    BY DEF StoreUnchanged
  <1>4. \A e \in Drivers : Store!Saving(e)' <=> At(e, "write")'
    <2>1. \A e \in Drivers : Store!Saving(e) <=> At(e, "write")
      BY <1>1 DEF TypeOK
    <2> QED
      BY <1>2, <1>3, <2>1 DEF At, Store!Saving
  <1>5. TypeOK'
    BY <1>1, <1>2, <1>4, StoreStep DEF TypeOK
  <1>6. BlocksAreKeyed' /\ (\A k \in Algs \X Iterations : Store!Exists(k) => Store!Exists(k)')
    BY <1>1, <1>3 DEF BlocksAreKeyed, Store!Exists
  <1>7. CallIsSound(d)'
    BY <1>1, <1>2, <1>3 DEF CallIsSound, SavedPCs, At, Store!Exists, KeyOf
  <1> QED
    BY <1>2, <1>3, <1>5, <1>6, <1>7, DriverFrame

LEMMA RecordStep == ASSUME Inv, [Next]_vars, NEW d \in Drivers, Record(d) PROVE Inv'
PROOF
  <1> DEFINE j == call[d].job
  <1>1. /\ TypeOK /\ CallIsSound(d) /\ \A b \in Algs : CountersMatch(d, b)
        /\ registry \in [Drivers -> [Algs -> [iterations : Nat, jobs : Nat,
                                              gauges : Jobs \cup {Nobody}]]]
        /\ saved \in [Drivers -> [Algs -> [count : Nat, iterations : Nat]]]
    BY DEF Inv, TypeOK
  <1>2. call[d].pc \in SavedPCs
    BY DEF Record, CountIterations, CountJob, SetGauges, Merge, MergeRaises, At, SavedPCs
  <1>3. j \in Jobs /\ ItersOf[j] \in Nat /\ Store!Exists(KeyOf(j))
    BY <1>1, <1>2, KeyType DEF CallIsSound, SavedPCs
  <1>a. PICK a \in Algs : a = AlgOf[j]
    BY <1>3, KeyType
  <1>4. CASE CountIterations(d)
    <2>1. /\ registry' = [registry EXCEPT ![d][a].iterations = @ + ItersOf[j]]
          /\ call[d].pc = "count_iterations" /\ Goto(d, "count_jobs") /\ StoreUnchanged
          /\ UNCHANGED <<answer, triggered, saved, begun, crashes>>
      BY <1>a, <1>4 DEF CountIterations, At
    <2>2. /\ registry' \in [Drivers -> [Algs -> [iterations : Nat, jobs : Nat,
                                                 gauges : Jobs \cup {Nobody}]]]
          /\ \A e \in Drivers : e # d => registry'[e] = registry[e]
          /\ registry'[d][a].iterations = registry[d][a].iterations + ItersOf[j]
          /\ registry'[d][a].jobs = registry[d][a].jobs
          /\ \A b \in Algs : b # a => registry'[d][b] = registry[d][b]
      <3>1. registry'[d][a] = [registry[d][a] EXCEPT !.iterations = @ + ItersOf[j]]
        BY <1>1, <2>1
      <3>2. registry'[d][a] \in [iterations : Nat, jobs : Nat, gauges : Jobs \cup {Nobody}]
        <4>1. /\ registry[d][a] \in [iterations : Nat, jobs : Nat, gauges : Jobs \cup {Nobody}]
              /\ ItersOf[j] \in Nat
          BY <1>1, <1>3
        <4>2. registry[d][a].iterations + ItersOf[j] \in Nat
          <5> HIDE DEF j
          <5> QED
            BY <4>1
        <4> HIDE DEF j
        <4> QED
          BY <3>1, <4>1, <4>2
      <3> HIDE DEF j
      <3> QED
        BY <1>1, <1>3, <2>1, <3>1, <3>2
    <2>3. call'[d].pc = "count_jobs" /\ call'[d].job = j
      BY <1>1, <2>1, GotoMoves DEF PCs
    <2>4. CountersMatch(d, a)'
      <3>1. /\ registry[d][a] \in [iterations : Nat, jobs : Nat, gauges : Jobs \cup {Nobody}]
            /\ saved[d][a] \in [count : Nat, iterations : Nat]
        BY <1>1
      <3>2. /\ saved[d][a].count = registry[d][a].jobs + 1
            /\ saved[d][a].iterations = registry[d][a].iterations + ItersOf[j]
        BY <1>1, <1>a, <2>1 DEF CountersMatch
      <3>3. /\ saved'[d][a].count = registry'[d][a].jobs + 1
            /\ saved'[d][a].iterations = registry'[d][a].iterations
        BY <2>1, <2>2, <3>2
      <3>4. registry'[d][a].iterations \in Nat /\ AlgOf[call'[d].job] = a
        BY <1>a, <2>2, <2>3
      <3> QED
        BY <2>3, <3>3, <3>4 DEF CountersMatch
    <2>5. ASSUME NEW b \in Algs, b # a
          PROVE  CountersMatch(d, b)'
      <3>1. saved'[d][b] = saved[d][b] /\ registry'[d][b] = registry[d][b]
        BY <2>1, <2>2, <2>5
      <3>2. AlgOf[j] # b /\ AlgOf[call'[d].job] # b
        BY <1>a, <2>3, <2>5
      <3>3. CountersMatch(d, b)
        BY <1>1
      <3> HIDE DEF j
      <3> QED
        BY <3>1, <3>2, <3>3 DEF CountersMatch, j
    <2>6. \A b \in Algs : CountersMatch(d, b)'
      BY <2>4, <2>5
    <2> QED
      BY <2>1, <2>2, <2>6, CountFrame
  <1>5. CASE CountJob(d)
    <2>1. /\ registry' = [registry EXCEPT ![d][a].jobs = @ + 1]
          /\ call[d].pc = "count_jobs" /\ Goto(d, "set_gauges") /\ StoreUnchanged
          /\ UNCHANGED <<answer, triggered, saved, begun, crashes>>
      BY <1>a, <1>5 DEF CountJob, At
    <2>2. /\ registry' \in [Drivers -> [Algs -> [iterations : Nat, jobs : Nat,
                                                 gauges : Jobs \cup {Nobody}]]]
          /\ \A e \in Drivers : e # d => registry'[e] = registry[e]
          /\ registry'[d][a].iterations = registry[d][a].iterations
          /\ registry'[d][a].jobs = registry[d][a].jobs + 1
          /\ \A b \in Algs : b # a => registry'[d][b] = registry[d][b]
      <3>0. registry[d][a] \in [iterations : Nat, jobs : Nat, gauges : Jobs \cup {Nobody}]
        BY <1>1
      <3>1. registry'[d][a] = [registry[d][a] EXCEPT !.jobs = @ + 1]
        BY <1>1, <2>1
      <3>2. registry'[d][a] \in [iterations : Nat, jobs : Nat, gauges : Jobs \cup {Nobody}]
        BY <3>0, <3>1
      <3> QED
        BY <1>1, <2>1, <3>1, <3>2
    <2>3. call'[d].pc = "set_gauges" /\ call'[d].job = j
      BY <1>1, <2>1, GotoMoves DEF PCs
    <2>4. CountersMatch(d, a)'
      <3>1. /\ registry[d][a] \in [iterations : Nat, jobs : Nat, gauges : Jobs \cup {Nobody}]
            /\ saved[d][a] \in [count : Nat, iterations : Nat]
        BY <1>1
      <3>2. /\ saved[d][a].count = registry[d][a].jobs + 1
            /\ saved[d][a].iterations = registry[d][a].iterations
        BY <1>1, <1>a, <2>1, <3>1 DEF CountersMatch
      <3>3. /\ saved'[d][a].count = registry'[d][a].jobs
            /\ saved'[d][a].iterations = registry'[d][a].iterations
        BY <2>1, <2>2, <3>2
      <3>4. registry'[d][a].iterations \in Nat /\ registry'[d][a].jobs \in Nat
        BY <2>2
      <3> QED
        BY <2>3, <3>3, <3>4 DEF CountersMatch
    <2>5. ASSUME NEW b \in Algs, b # a
          PROVE  CountersMatch(d, b)'
      <3>1. saved'[d][b] = saved[d][b] /\ registry'[d][b] = registry[d][b]
        BY <2>1, <2>2, <2>5
      <3>2. AlgOf[j] # b /\ AlgOf[call'[d].job] # b
        BY <1>a, <2>3, <2>5
      <3>3. CountersMatch(d, b)
        BY <1>1
      <3> HIDE DEF j
      <3> QED
        BY <3>1, <3>2, <3>3 DEF CountersMatch, j
    <2>6. \A b \in Algs : CountersMatch(d, b)'
      BY <2>4, <2>5
    <2> QED
      BY <2>1, <2>2, <2>6, CountFrame
  <1>6. CASE SetGauges(d)
    <2>1. /\ registry' = [registry EXCEPT ![d][a].gauges = j]
          /\ call[d].pc = "set_gauges" /\ StoreUnchanged
          /\ UNCHANGED <<triggered, saved, begun, crashes>>
          /\ \/ Goto(d, "merge") /\ UNCHANGED answer
             \/ Return(d, "ran", j)
      BY <1>a, <1>6 DEF SetGauges, At
    <2>2. /\ registry' \in [Drivers -> [Algs -> [iterations : Nat, jobs : Nat,
                                                 gauges : Jobs \cup {Nobody}]]]
          /\ \A e \in Drivers : e # d => registry'[e] = registry[e]
          /\ \A b \in Algs : /\ registry'[d][b].iterations = registry[d][b].iterations
                             /\ registry'[d][b].jobs = registry[d][b].jobs
      <3> HIDE DEF j
      <3> QED
        BY <1>1, <1>3, <2>1
    <2>3. CASE Goto(d, "merge") /\ UNCHANGED answer
      <3>1. call'[d].pc = "merge" /\ call'[d].job = j
        BY <1>1, <2>3, GotoMoves DEF PCs
      <3>2. \A b \in Algs : CountersMatch(d, b)'
        BY <1>1, <2>1, <2>2, <3>1 DEF CountersMatch
      <3> QED
        BY <2>1, <2>2, <2>3, <3>2, CountFrame
    <2>4. CASE Return(d, "ran", j)
      BY <1>3, <2>1, <2>2, <2>4, QuietReturn
    <2> QED
      BY <2>1, <2>3, <2>4
  <1>7. CASE Merge(d) \/ MergeRaises(d)
    <2>1. /\ call[d].pc = "merge" /\ StoreUnchanged
          /\ UNCHANGED <<registry, triggered, saved, begun, crashes>>
          /\ Return(d, "ran", j) \/ Return(d, "raised", Nobody)
      BY <1>7 DEF Merge, MergeRaises, Raise, At
    <2> QED
      BY <1>1, <1>3, <2>1, QuietReturn
  <1> QED
    BY <1>4, <1>5, <1>6, <1>7, Zenon DEF Record

LEMMA CrashStep == ASSUME Inv, [Next]_vars, NEW d \in Drivers, Crash(d) PROVE Inv'
PROOF
  <1>1. TypeOK
    BY DEF Inv
  <1>2. /\ call' \in [Drivers -> [pc : PCs, kind : Kinds \cup {"none"},
                                   job : Jobs \cup {Nobody},
                                   ask : Iterations \cup {0}, retries : 0 .. 1]]
        /\ call'[d].pc = "idle" /\ \A e \in Drivers : e # d => call'[e] = call[e]
    BY <1>1 DEF Crash, TypeOK, NoCall, PCs
  <1>3. /\ answer' \in [Drivers ->
                   [how : {"none", "ran", "computed", "resumed", "raised"},
                    job : Jobs \cup {Nobody}, output : Jobs \cup {Nobody},
                    ask : Iterations \cup {0}]]
        /\ answer'[d].how = "none" /\ \A e \in Drivers : e # d => answer'[e] = answer[e]
    BY <1>1 DEF Crash, TypeOK, NoAnswer
  <1>4. /\ UNCHANGED files
        /\ \/ saver' = [saver EXCEPT ![d] = Store!Idle]
           \/ saver' = saver /\ ~Store!Saving(d)
    BY DEF Crash, Store!Abandon, StoreUnchanged
  <1>5. /\ registry' = [registry EXCEPT ![d] = [a \in Algs |-> ZeroEntry]]
        /\ saved' = [saved EXCEPT ![d] = [a \in Algs |-> ZeroSaved]]
        /\ begun' = begun
    BY DEF Crash
  <1>6. triggered' \in [Drivers -> BOOLEAN] /\ crashes' \in 0 .. MaxCrashes
    BY <1>1, BoundsAssumption DEF Crash, TypeOK
  <1> QED
    BY <1>2, <1>3, <1>4, <1>5, <1>6, AbandonFrame

-----------------------------------------------------------------------------
LEMMA StutterInv == ASSUME Inv, UNCHANGED vars PROVE Inv'
PROOF
  <1>1. StoreProofs!Inv' /\ Store!TypeOK'
    BY StoreStep
  <1>2. TypeOK'
    BY <1>1 DEF Inv, TypeOK, vars, runVars, Store!Saving, At
  <1>3. BlocksAreKeyed'
    BY DEF Inv, BlocksAreKeyed, Store!Exists, vars
  <1>4. \A d \in Drivers : CallIsSound(d)' /\ \A a \in Algs : CountersMatch(d, a)'
    BY DEF Inv, CallIsSound, CountersMatch, Store!Exists, At, KeyOf, vars, runVars
  <1> QED
    BY <1>1, <1>2, <1>3, <1>4 DEF Inv

LEMMA NextInv == Inv /\ [Next]_vars => Inv'
PROOF
  <1> SUFFICES ASSUME Inv, [Next]_vars PROVE Inv'
    OBVIOUS
  <1>1. CASE UNCHANGED vars
    BY <1>1, StutterInv
  <1>2. CASE Next
    <2>1. PICK d \in Drivers :
            \/ \E kind \in Kinds, j \in Jobs :
                 \E i \in IF kind = "resume" THEN Asks[j] ELSE {0} : Begin(d, kind, j, i)
            \/ Resume(d) \/ Run(d) \/ Save(d) \/ Record(d) \/ Crash(d)
      BY <1>2, Zenon DEF Next
    <2> QED
      BY <2>1, BeginStep, ResumeStep, RunStep, SaveStep, RecordStep, CrashStep, Zenon
  <1> QED
    BY <1>1, <1>2

LEMMA Invariance == Spec => []Inv
BY InitInv, NextInv, PTL DEF Spec

\* In every state the variables have their types, and a driver is inside save
\* exactly while it is at the write of its call.
THEOREM TypeCorrect == Spec => []TypeOK
PROOF
  <1>1. Inv => TypeOK
    BY DEF Inv
  <1> QED
    BY <1>1, Invariance, PTL

\* The runtimes use the checkpoint directory as FileCheckpointStore says.
THEOREM ImplementsStore == Spec => Store!Spec
PROOF
  <1>1. Init => Store!Init
    BY DEF Init
  <1> QED
    BY <1>1, StepImplementsStore, Invariance, PTL DEF Spec, Store!Spec, Store!storeVars

\* The counters of every process agree with the checkpoints it completed.
THEOREM CountersAgree == Spec => []CountersMatchCheckpoints
PROOF
  <1>1. Inv => CountersMatchCheckpoints
    BY Zenon DEF Inv, CountersMatchCheckpoints, CountersMatch
  <1> QED
    BY <1>1, Invariance, PTL

\* A run that returned has left a checkpoint, intact unless another save of
\* its key was cut short or overlapped since.
THEOREM FinishedRunIsSaved == Spec => []FinishedRunLeavesCheckpoint
PROOF
  <1>1. Inv => FinishedRunLeavesCheckpoint
    <2> SUFFICES ASSUME Inv, NEW d \in Drivers, answer[d].how = "ran"
                 PROVE  LET k == KeyOf(answer[d].job) IN
                        /\ Store!Exists(k)
                        /\ damage[k] = "none" /\ (\A e \in Drivers : saver[e].key # k)
                             => files[k] = Store!Whole(latest[k])
      BY DEF FinishedRunLeavesCheckpoint
    <2> DEFINE k == KeyOf(answer[d].job)
    <2>1. answer[d].job \in Jobs /\ Store!Exists(k)
      BY DEF Inv, CallIsSound
    <2>2. k \in Algs \X Iterations
      BY <2>1, KeyType
    <2>3. StoreProofs!FileIsPrefix(k)
      BY <2>2, Zenon DEF Inv, StoreProofs!Inv
    <2> QED
      BY <2>1, <2>3
      DEF StoreProofs!FileIsPrefix, StoreProofs!Exists, Store!Exists, StoreProofs!Whole,
          Store!Whole
  <1> QED
    BY <1>1, Invariance, PTL

-----------------------------------------------------------------------------
(* What resume_or_run reads.                                               *)

\* A step of one driver leaves the calls of the others alone.
LEMMA OthersKeepTheirCalls ==
  ASSUME TypeOK, NEW d \in Drivers,
         \/ \E kind \in Kinds, j \in Jobs :
              \E i \in IF kind = "resume" THEN Asks[j] ELSE {0} : Begin(d, kind, j, i)
         \/ Resume(d) \/ Run(d) \/ Save(d) \/ Record(d) \/ Crash(d)
  PROVE  \A e \in Drivers : e # d => call'[e] = call[e]
PROOF
  <1>1. DOMAIN call = Drivers
    BY DEF TypeOK
  <1>2. ASSUME NEW kind \in Kinds, NEW j \in Jobs, NEW i, Begin(d, kind, j, i)
        PROVE  \A e \in Drivers : e # d => call'[e] = call[e]
    <2> DEFINE pc == CASE kind = "resume"  -> "exists"
                       [] kind = "recover" -> "fault"
                       [] OTHER            -> "compute"
    <2>1. call' = [call EXCEPT ![d] = [pc |-> pc, kind |-> kind, job |-> j, ask |-> i,
                                       retries |-> 0]]
      BY <1>2 DEF Begin
    <2> HIDE DEF pc
    <2> QED
      BY <1>1, <2>1
  <1>3. CASE MaybeRaise(d)
    <2> DEFINE n == IF triggered[d] THEN 0 ELSE 1
    <2>1. call' = [call EXCEPT ![d] = [call[d] EXCEPT !.pc = "compute", !.retries = n]]
      BY <1>1, <1>3 DEF MaybeRaise
    <2> HIDE DEF n
    <2> QED
      BY <1>1, <2>1
  <1>4. CASE \/ Resume(d) \/ Compute(d) \/ ComputeRaises(d)
             \/ Save(d) \/ Record(d) \/ Crash(d)
    <2>1. \/ call' = [call EXCEPT ![d] = NoCall]
          \/ \E pc \in PCs : Goto(d, pc)
          \/ call' = call
      BY <1>4
      DEF Resume, LookUp, Load, LoadRaises, LoadMisreads, Compute, ComputeRaises, Save,
          OpenCheckpoint, WriteCheckpoint, CloseCheckpoint, SaveRaises, Record,
          CountIterations, CountJob, SetGauges, Merge, MergeRaises, Crash, Raise, Return,
          runVars, PCs
    <2> QED
      BY <1>1, <2>1, GotoMoves
  <1> QED
    BY <1>2, <1>3, <1>4 DEF Run

\* A call leaves load by one of these.
LEMMA LoadEnds ==
  ASSUME Inv, Next, NEW d \in Drivers, At(d, "load"), ~At(d, "load")'
  PROVE  Load(d) \/ LoadRaises(d) \/ LoadMisreads(d) \/ Crash(d)
PROOF
  <1>1. PICK e \in Drivers :
          \/ \E kind \in Kinds, j \in Jobs :
               \E i \in IF kind = "resume" THEN Asks[j] ELSE {0} : Begin(e, kind, j, i)
          \/ Resume(e) \/ Run(e) \/ Save(e) \/ Record(e) \/ Crash(e)
    BY Zenon DEF Next
  <1>2. e = d
    <2>1. TypeOK
      BY DEF Inv
    <2>2. e # d => call'[d] = call[d]
      BY <1>1, <2>1, OthersKeepTheirCalls, Zenon
    <2> QED
      BY <2>2 DEF At
  <1> QED
    BY <1>1, <1>2
    DEF At, Begin, Resume, LookUp, Run, MaybeRaise, Compute, ComputeRaises, Save,
        OpenCheckpoint, WriteCheckpoint, CloseCheckpoint, SaveRaises, Record,
        CountIterations, CountJob, SetGauges, Merge, MergeRaises

\* A file whose saves have not overlapped holds nothing but a prefix of the
\* last save.
LEMMA WholeIsTheLast ==
  ASSUME Inv, NEW k \in Algs \X Iterations, Store!Exists(k), damage[k] # "overlap"
  PROVE  /\ latest[k] \in Jobs
         /\ \A s \in Jobs : files[k] = Store!Whole(s) => s = latest[k]
         /\ ~Store!Mixed(k)
         /\ damage[k] = "none" /\ (\A e \in Drivers : saver[e].key # k) => Store!Loadable(k)
PROOF
  <1>1. StoreProofs!FileIsPrefix(k) /\ StoreProofs!Exists(k)
    BY Zenon DEF Inv, StoreProofs!Inv, StoreProofs!Exists, Store!Exists
  <1>2. /\ latest[k] \in Jobs
        /\ \E n \in 0 .. Blocks : files[k] = StoreProofs!Prefix(n, latest[k])
        /\ damage[k] = "none" /\ (\A e \in Drivers : saver[e].key # k)
             => files[k] = StoreProofs!Whole(latest[k])
    BY <1>1 DEF StoreProofs!FileIsPrefix
  <1>3. PICK n \in 0 .. Blocks : files[k] = StoreProofs!Prefix(n, latest[k])
    BY <1>2
  <1>4. \A i \in 1 .. Blocks : files[k][i] \in Jobs => files[k][i] = latest[k]
    BY <1>3, StoreAssumption DEF StoreProofs!Prefix
  <1>5. \A s \in Jobs : files[k] = Store!Whole(s) => s = latest[k]
    <2>1. 1 \in 1 .. Blocks
      BY StoreAssumption
    <2> QED
      BY <1>4, <2>1 DEF Store!Whole
  <1>6. ~Store!Mixed(k)
    BY <1>4 DEF Store!Mixed
  <1>7. files[k] = StoreProofs!Whole(latest[k]) => Store!Loadable(k)
    BY <1>2 DEF StoreProofs!Whole, Store!Whole, Store!Loadable
  <1> QED
    BY <1>2, <1>5, <1>6, <1>7

\* resume_or_run hands out what the last save of the key it was asked for has
\* written and raises over no intact file, for any number of processes that
\* save, resume and crash.  Where saves of one file overlap, the output may be
\* another of the same key or nothing that was saved.
THEOREM ResumeReadsItsFile == Spec => ResumeReadsTheLastSave
PROOF
  <1> DEFINE Reads ==
        \A d \in Drivers : At(d, "load") /\ ~At(d, "load")' =>
          LET k == <<AlgOf[call[d].job], call[d].ask>> IN
          /\ answer'[d].how = "resumed" =>
               /\ answer'[d].output # Nobody => KeyOf(answer'[d].output) = k
               /\ damage[k] # "overlap" => answer'[d].output \in Jobs \cap {latest[k]}
          /\ answer'[d].how = "raised" =>
               damage[k] # "none" \/ \E e \in Drivers : saver[e].key = k
  <1>1. Inv /\ [Next]_vars => [Reads]_vars
    <2> SUFFICES ASSUME Inv, Next, NEW d \in Drivers, At(d, "load"), ~At(d, "load")'
                 PROVE  LET k == <<AlgOf[call[d].job], call[d].ask>> IN
                        /\ answer'[d].how = "resumed" =>
                             /\ answer'[d].output # Nobody => KeyOf(answer'[d].output) = k
                             /\ damage[k] # "overlap" =>
                                  answer'[d].output \in Jobs \cap {latest[k]}
                        /\ answer'[d].how = "raised" =>
                             damage[k] # "none" \/ \E e \in Drivers : saver[e].key = k
      BY Zenon
    <2> DEFINE k == <<AlgOf[call[d].job], call[d].ask>>
    <2>1. TypeOK /\ CallIsSound(d)
      BY DEF Inv
    <2>2. k \in Algs \X Iterations /\ Store!Exists(k)
      BY <2>1, KeyType DEF CallIsSound, At
    <2>3. DOMAIN answer = Drivers
      BY <2>1 DEF TypeOK
    <2> HIDE DEF k
    <2>4. CASE Load(d)
      <3>1. PICK s \in Jobs : files[k] = Store!Whole(s) /\ Return(d, "resumed", s)
        BY <2>4, Zenon DEF Load, k
      <3>2. answer'[d].how = "resumed" /\ answer'[d].output = s
        BY <2>3, <3>1 DEF Return
      <3>3. KeyOf(s) = k
        BY <2>2, <3>1, LoadedHasTheKey
      <3>4. damage[k] # "overlap" => s = latest[k]
        BY <2>2, <3>1, WholeIsTheLast
      <3> QED
        BY <3>2, <3>3, <3>4 DEF k
    <2>5. CASE LoadRaises(d)
      <3>1. ~Store!Loadable(k) /\ Return(d, "raised", Nobody)
        BY <2>5, Zenon DEF LoadRaises, Raise, k
      <3>2. answer'[d].how = "raised"
        BY <2>3, <3>1 DEF Return
      <3>3. damage[k] = "none" => \E e \in Drivers : saver[e].key = k
        BY <2>2, <3>1, WholeIsTheLast
      <3> QED
        BY <3>2, <3>3 DEF k
    <2>6. CASE LoadMisreads(d)
      <3>1. Store!Mixed(k) /\ Return(d, "resumed", Nobody)
        BY <2>6, Zenon DEF LoadMisreads, k
      <3>2. answer'[d].how = "resumed" /\ answer'[d].output = Nobody
        BY <2>3, <3>1 DEF Return
      <3>3. damage[k] = "overlap"
        BY <2>2, <3>1, WholeIsTheLast
      <3> QED
        BY <3>2, <3>3 DEF k
    <2>7. CASE Crash(d)
      <3>1. answer'[d] = NoAnswer
        BY <2>3, <2>7 DEF Crash
      <3> QED
        BY <3>1 DEF NoAnswer
    <2> QED
      BY <2>4, <2>5, <2>6, <2>7, LoadEnds, Zenon DEF k
  <1> QED
    BY <1>1, Invariance, PTL DEF Spec, ResumeReadsTheLastSave
=============================================================================
