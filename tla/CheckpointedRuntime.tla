------------------------ MODULE CheckpointedRuntime -------------------------
(***************************************************************************)
(* The runtimes that run one algorithm plugin and record it: LocalRuntime  *)
(* (core/runtime.py), PartitionedLocalRuntime, ResumeRuntime,              *)
(* FaultInjectingRuntime and PregelRuntime, over the checkpoint directory  *)
(* of FileCheckpointStore, and the MetricsRegistry of each process.        *)
(*                                                                         *)
(* A driver is a process that makes calls, one at a time; the directory is *)
(* shared and survives, the registry and the fault of a process die with   *)
(* it.  A plugin is a function of its input, so a job (algorithm,          *)
(* parameters, data) stands for its own output, and what the code reads of *)
(* the result is the algorithm's name and the number of iterations: the    *)
(* key of the checkpoint.                                                  *)
(***************************************************************************)
EXTENDS Naturals, FiniteSets

CONSTANTS
  Drivers,     \* processes
  Jobs,        \* (algorithm, parameters, data)
  Algs,        \* names of algorithms
  AlgOf,       \* AlgOf[j]: spec.name
  ItersOf,     \* ItersOf[j]: result.iterations
  Asks,        \* Asks[j]: the iterations a caller may ask resume_or_run for
  Kinds,       \* the calls made: run, partitioned, resume, recover, pregel
  MaxCalls,    \* bound on the calls of all drivers
  MaxCrashes,  \* bound on the crashes
  Blocks, NoFile, Missing, Hole, Nobody    \* of FileCheckpointStore

AllKinds == {"run", "partitioned", "resume", "recover", "pregel"}

ASSUME JobsAssumption ==
  /\ AlgOf \in [Jobs -> Algs]
  /\ ItersOf \in [Jobs -> Nat]
  /\ Asks \in [Jobs -> SUBSET Nat]
ASSUME KindsAssumption == Kinds \subseteq AllKinds
ASSUME BoundsAssumption == MaxCalls \in Nat /\ MaxCrashes \in Nat

VARIABLES
  files, saver, damage, latest,   \* the checkpoint directory
  call,        \* the call each driver is in; ask is 0 unless it resumes
  answer,      \* what the last call of each driver gave its caller
  registry,    \* by driver and algorithm: counters and gauges
  triggered,   \* fault.triggered of each driver
  saved,       \* history: saves completed by the process, [count, iterations]
  begun,       \* number of calls begun
  crashes      \* number of crashes

Iterations == {ItersOf[j] : j \in Jobs} \cup UNION {Asks[j] : j \in Jobs}

KeyOf(j) == <<AlgOf[j], ItersOf[j]>>

\* The assumptions of FileCheckpointStore, on these constants.
ASSUME StoreAssumption ==
  /\ Blocks \in Nat \ {0}
  /\ Missing # Hole /\ Missing \notin Jobs /\ Hole \notin Jobs
  /\ Nobody \notin Jobs /\ Nobody \notin Algs \X Iterations
  /\ NoFile \notin [1 .. Blocks -> Jobs \cup {Missing, Hole}]

Store == INSTANCE FileCheckpointStore
           WITH Savers <- Drivers, Keys <- Algs \X Iterations, States <- Jobs

runVars == <<call, answer, registry, triggered, saved, begun, crashes>>
vars    == <<files, saver, damage, latest, runVars>>

NoCall    == [pc |-> "idle", kind |-> "none", job |-> Nobody, ask |-> 0,
              retries |-> 0]
NoAnswer  == [how |-> "none", job |-> Nobody, output |-> Nobody, ask |-> 0]
ZeroEntry == [iterations |-> 0, jobs |-> 0, gauges |-> Nobody]
ZeroSaved == [count |-> 0, iterations |-> 0]

\* Driver d is about to run the statement pc of a call.
At(d, pc) == call[d].pc = pc

Goto(d, pc) == call' = [call EXCEPT ![d].pc = pc]

\* The call of d ends: it returns a result or raises.
Return(d, how, output) ==
  /\ call' = [call EXCEPT ![d] = NoCall]
  /\ answer' = [answer EXCEPT ![d] =
                  [how |-> how, job |-> call[d].job, output |-> output,
                   ask |-> call[d].ask]]

Raise(d) == Return(d, "raised", Nobody)

StoreUnchanged == UNCHANGED <<files, saver, damage, latest>>

-----------------------------------------------------------------------------
(* Faulty variants of actions below.                                       *)

\* A resumed call saves under the iteration its caller asked for.
FaultyOpenCheckpoint(d) ==
  LET i == IF call[d].kind = "resume" THEN call[d].ask ELSE ItersOf[call[d].job] IN
  /\ At(d, "save")
  /\ Store!Open(d, <<AlgOf[call[d].job], i>>, call[d].job)
  /\ Goto(d, "write")
  /\ UNCHANGED <<answer, registry, triggered, saved, begun, crashes>>

\* The result is returned and counted without being saved.
FaultyCompute(d) ==
  /\ At(d, "compute")
  /\ Goto(d, "count_iterations")
  /\ StoreUnchanged
  /\ UNCHANGED <<answer, registry, triggered, saved, begun, crashes>>

\* An exception of save is swallowed and the run goes on to be counted.
FaultySaveRaises(d) ==
  /\ At(d, "write")
  /\ Store!Abandon(d)
  /\ Goto(d, "count_iterations")
  /\ UNCHANGED <<answer, registry, triggered, saved, begun, crashes>>

-----------------------------------------------------------------------------
(* Calls.                                                                  *)

Begin(d, kind, j, i) ==
  /\ At(d, "idle")
  /\ begun < MaxCalls
  /\ begun' = begun + 1
  /\ call' = [call EXCEPT ![d] =
                [pc |-> CASE kind = "resume"  -> "exists"
                          [] kind = "recover" -> "fault"
                          [] OTHER            -> "compute",
                 kind |-> kind, job |-> j, ask |-> i, retries |-> 0]]
  /\ answer' = [answer EXCEPT ![d] = NoAnswer]
  /\ StoreUnchanged
  /\ UNCHANGED <<registry, triggered, saved, crashes>>

\* resume_or_run: `if checkpoint_store.exists(...)`, keyed by the name and
\* the iteration the caller asks for.
LookUp(d) ==
  /\ At(d, "exists")
  /\ Goto(d, IF Store!Exists(<<AlgOf[call[d].job], call[d].ask>>)
               THEN "load" ELSE "compute")
  /\ StoreUnchanged
  /\ UNCHANGED <<answer, registry, triggered, saved, begun, crashes>>

\* The checkpoint becomes the result, with converged=True.
Load(d) ==
  LET k == <<AlgOf[call[d].job], call[d].ask>> IN
  /\ At(d, "load")
  /\ \E s \in Jobs : files[k] = Store!Whole(s) /\ Return(d, "resumed", s)
  /\ StoreUnchanged
  /\ UNCHANGED <<registry, triggered, saved, begun, crashes>>

\* pickle.load raises EOFError or UnpicklingError: the exception leaves
\* resume_or_run, which has no fallback.
LoadRaises(d) ==
  LET k == <<AlgOf[call[d].job], call[d].ask>> IN
  /\ At(d, "load")
  /\ ~Store!Loadable(k)
  /\ Raise(d)
  /\ StoreUnchanged
  /\ UNCHANGED <<registry, triggered, saved, begun, crashes>>

\* A file that mixes two pickles may also load as something nobody saved,
\* which is returned like any other result.
LoadMisreads(d) ==
  LET k == <<AlgOf[call[d].job], call[d].ask>> IN
  /\ At(d, "load")
  /\ Store!Mixed(k)
  /\ Return(d, "resumed", Nobody)
  /\ StoreUnchanged
  /\ UNCHANGED <<registry, triggered, saved, begun, crashes>>

\* run_with_recovery: the first call raises InjectedFault before anything
\* ran and is retried; later calls find the fault triggered.
MaybeRaise(d) ==
  /\ At(d, "fault")
  /\ triggered' = [triggered EXCEPT ![d] = TRUE]
  /\ call' = [call EXCEPT ![d].pc = "compute",
                          ![d].retries = IF triggered[d] THEN 0 ELSE 1]
  /\ StoreUnchanged
  /\ UNCHANGED <<answer, registry, saved, begun, crashes>>

\* algorithm.run returns.  PregelRuntime has no checkpoint store and returns
\* the result at once; the others save it first.
Compute(d) ==
  /\ At(d, "compute")
  /\ IF call[d].kind = "pregel"
       THEN Return(d, "computed", call[d].job)
       ELSE Goto(d, "save") /\ UNCHANGED answer
  /\ StoreUnchanged
  /\ UNCHANGED <<registry, triggered, saved, begun, crashes>>

\* partitions <= 0, or the plugin rejects its input.
ComputeRaises(d) ==
  /\ At(d, "compute")
  /\ Raise(d)
  /\ StoreUnchanged
  /\ UNCHANGED <<registry, triggered, saved, begun, crashes>>

-----------------------------------------------------------------------------
(* checkpoint_store.save(result.algorithm, result.iterations, ...).        *)

OpenCheckpoint(d) ==
  /\ At(d, "save")
  /\ Store!Open(d, KeyOf(call[d].job), call[d].job)
  /\ Goto(d, "write")
  /\ UNCHANGED <<answer, registry, triggered, saved, begun, crashes>>

WriteCheckpoint(d) ==
  /\ At(d, "write")
  /\ Store!WriteBlock(d)
  /\ UNCHANGED runVars

CloseCheckpoint(d) ==
  LET a == AlgOf[call[d].job] IN
  /\ At(d, "write")
  /\ Store!Close(d)
  /\ saved' = [saved EXCEPT ![d][a].count = @ + 1,
                            ![d][a].iterations = @ + ItersOf[call[d].job]]
  /\ Goto(d, "count_iterations")
  /\ UNCHANGED <<answer, registry, triggered, begun, crashes>>

\* dump or the file system raises; run does not catch it.
SaveRaises(d) ==
  /\ At(d, "write")
  /\ Store!Abandon(d)
  /\ Raise(d)
  /\ UNCHANGED <<registry, triggered, saved, begun, crashes>>

-----------------------------------------------------------------------------
(* The metrics of the process, and the end of run.                         *)

CountIterations(d) ==
  /\ At(d, "count_iterations")
  /\ registry' = [registry EXCEPT
                    ![d][AlgOf[call[d].job]].iterations = @ + ItersOf[call[d].job]]
  /\ Goto(d, "count_jobs")
  /\ StoreUnchanged
  /\ UNCHANGED <<answer, triggered, saved, begun, crashes>>

CountJob(d) ==
  /\ At(d, "count_jobs")
  /\ registry' = [registry EXCEPT ![d][AlgOf[call[d].job]].jobs = @ + 1]
  /\ Goto(d, "set_gauges")
  /\ StoreUnchanged
  /\ UNCHANGED <<answer, triggered, saved, begun, crashes>>

\* The gauges of an algorithm show the metrics of its last run.
SetGauges(d) ==
  LET j == call[d].job IN
  /\ At(d, "set_gauges")
  /\ registry' = [registry EXCEPT ![d][AlgOf[j]].gauges = j]
  /\ IF call[d].kind = "partitioned"
       THEN Goto(d, "merge") /\ UNCHANGED answer
       ELSE Return(d, "ran", j)
  /\ StoreUnchanged
  /\ UNCHANGED <<triggered, saved, begun, crashes>>

\* _partition_metrics adds the partition metrics to the result.
Merge(d) ==
  /\ At(d, "merge")
  /\ Return(d, "ran", call[d].job)
  /\ StoreUnchanged
  /\ UNCHANGED <<registry, triggered, saved, begun, crashes>>

\* The first item looks like an edge and a later one is not: hash
\* partitioning raises when everything has been recorded already.
MergeRaises(d) ==
  /\ At(d, "merge")
  /\ Raise(d)
  /\ StoreUnchanged
  /\ UNCHANGED <<registry, triggered, saved, begun, crashes>>

-----------------------------------------------------------------------------
\* The process is killed and started again: the directory is all that stays.
Crash(d) ==
  /\ ~At(d, "idle")
  /\ crashes < MaxCrashes
  /\ crashes' = crashes + 1
  /\ IF Store!Saving(d) THEN Store!Abandon(d) ELSE StoreUnchanged
  /\ call' = [call EXCEPT ![d] = NoCall]
  /\ answer' = [answer EXCEPT ![d] = NoAnswer]
  /\ registry' = [registry EXCEPT ![d] = [a \in Algs |-> ZeroEntry]]
  /\ saved' = [saved EXCEPT ![d] = [a \in Algs |-> ZeroSaved]]
  /\ triggered' = [triggered EXCEPT ![d] = FALSE]
  /\ UNCHANGED begun

Init ==
  /\ Store!Init
  /\ call = [d \in Drivers |-> NoCall]
  /\ answer = [d \in Drivers |-> NoAnswer]
  /\ registry = [d \in Drivers |-> [a \in Algs |-> ZeroEntry]]
  /\ triggered = [d \in Drivers |-> FALSE]
  /\ saved = [d \in Drivers |-> [a \in Algs |-> ZeroSaved]]
  /\ begun = 0
  /\ crashes = 0

Resume(d)  == LookUp(d) \/ Load(d) \/ LoadRaises(d) \/ LoadMisreads(d)
Run(d)     == MaybeRaise(d) \/ Compute(d) \/ ComputeRaises(d)
Save(d)    == OpenCheckpoint(d) \/ WriteCheckpoint(d) \/ CloseCheckpoint(d)
                \/ SaveRaises(d)
Record(d)  == CountIterations(d) \/ CountJob(d) \/ SetGauges(d) \/ Merge(d)
                \/ MergeRaises(d)

Next ==
  \E d \in Drivers :
    \/ \E kind \in Kinds, j \in Jobs :
         \E i \in IF kind = "resume" THEN Asks[j] ELSE {0} : Begin(d, kind, j, i)
    \/ Resume(d)
    \/ Run(d)
    \/ Save(d)
    \/ Record(d)
    \/ Crash(d)

Spec == Init /\ [][Next]_vars

-----------------------------------------------------------------------------
(* Properties.                                                             *)

PCs == {"idle", "exists", "load", "fault", "compute", "save", "write",
        "count_iterations", "count_jobs", "set_gauges", "merge"}

\* Types, and a driver is inside save exactly between open and close.
TypeOK ==
  /\ Store!TypeOK
  /\ call \in [Drivers -> [pc : PCs, kind : Kinds \cup {"none"},
                           job : Jobs \cup {Nobody},
                           ask : Iterations \cup {0}, retries : 0 .. 1]]
  /\ answer \in [Drivers ->
                   [how : {"none", "ran", "computed", "resumed", "raised"},
                    job : Jobs \cup {Nobody}, output : Jobs \cup {Nobody},
                    ask : Iterations \cup {0}]]
  /\ registry \in [Drivers -> [Algs -> [iterations : Nat, jobs : Nat,
                                        gauges : Jobs \cup {Nobody}]]]
  /\ triggered \in [Drivers -> BOOLEAN]
  /\ saved \in [Drivers -> [Algs -> [count : Nat, iterations : Nat]]]
  /\ begun \in 0 .. MaxCalls
  /\ crashes \in 0 .. MaxCrashes
  /\ \A d \in Drivers : Store!Saving(d) <=> At(d, "write")

\* The counters of a process agree with the checkpoints it has completed: a
\* job is counted only after it was saved, and what a scrape can see torn is
\* at most the run in progress, whose iterations are added before the job.
CountersMatchCheckpoints ==
  \A d \in Drivers, a \in Algs :
    LET mine(pcs) == call[d].pc \in pcs /\ AlgOf[call[d].job] = a
        behind(pcs, n) == IF mine(pcs) THEN n ELSE 0
    IN
    /\ saved[d][a].count =
         registry[d][a].jobs + behind({"count_iterations", "count_jobs"}, 1)
    /\ saved[d][a].iterations =
         registry[d][a].iterations
           + behind({"count_iterations"}, ItersOf[call[d].job])

\* A result that a run of any runtime but PregelRuntime returned has left a
\* checkpoint under its key, and if no other save of that key was cut short
\* or overlapped since, the file holds the output that was saved last.
FinishedRunLeavesCheckpoint ==
  \A d \in Drivers : answer[d].how = "ran" =>
    LET k == KeyOf(answer[d].job) IN
    /\ Store!Exists(k)
    /\ damage[k] = "none" /\ (\A e \in Drivers : saver[e].key # k)
         => files[k] = Store!Whole(latest[k])

\* What resume_or_run hands out is what the last save of the key it was asked
\* for has written, by whichever process and before however many crashes: not
\* an older output, nor part of one.  Saves of one file that overlap break
\* this, and then resume may even return what nobody has saved, but still no
\* output of another key.  It raises only over a file that a save has cut
\* short, that saves have mixed, or that is being written.
ResumeReadsTheLastSave ==
  [][\A d \in Drivers : At(d, "load") /\ ~At(d, "load")' =>
       LET k == <<AlgOf[call[d].job], call[d].ask>> IN
       /\ answer'[d].how = "resumed" =>
            /\ answer'[d].output # Nobody => KeyOf(answer'[d].output) = k
            /\ damage[k] # "overlap" => answer'[d].output \in Jobs \cap {latest[k]}
       /\ answer'[d].how = "raised" =>
            damage[k] # "none" \/ \E e \in Drivers : saver[e].key = k]_vars

\* What resume hands out is the output of the job it was called for: the
\* checkpoint of the architecture document identifies the algorithm config
\* and the input data version.
ResumedOutputIsOfThisJob ==
  \A d \in Drivers : answer[d].how = "resumed" => answer[d].output = answer[d].job
=============================================================================
