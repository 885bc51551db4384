--------------------------- MODULE FifoScheduler ----------------------------
(***************************************************************************)
(* FifoScheduler of core/scheduler.py.                                     *)
(*                                                                         *)
(* One instance keeps a deque of job ids, a dictionary of jobs and a       *)
(* dictionary of JobStatus objects, with no lock.  Client threads call     *)
(* submit and status, worker threads call run_next; every statement that   *)
(* touches the shared attributes is a step.  With one worker the same      *)
(* module describes the sequential use of the tests, where the only thing  *)
(* that runs between two steps of run_next is the job's own code.          *)
(*                                                                         *)
(* The JobStatus objects have an identity: submit creates one per job,     *)
(* run_next mutates that object when the job starts, and REPLACES it by a  *)
(* second object when the job ends.  `first` and `final` are the states of *)
(* the two objects, `statuses` says which of them the dictionary holds.    *)
(***************************************************************************)
EXTENDS Naturals, Sequences, FiniteSets

CONSTANTS
  JobIds,      \* the identifiers uuid4() can return (no two calls agree)
  Clients,     \* threads that call submit
  Workers,     \* threads that call run_next
  NoJob        \* the value of a local job_id that is not assigned

ASSUME NoJobAssumption == NoJob \notin JobIds

VARIABLES
  issued,      \* identifiers uuid4() has returned
  jobs,        \* keys of self.jobs
  statuses,    \* self.statuses: which object is stored under the key
  first,       \* state of the object that submit creates
  final,       \* state of the object that run_next creates at the end
  queue,       \* self.queue, the head is popped
  submitter,   \* [pc, job] of every client thread inside submit
  runner,      \* [pc, job] of every worker thread inside run_next
  handles,     \* JobStatus objects handed out by status and run_next
  appended,    \* history: every id ever appended to the queue, in order
  popped       \* history: every id ever popped from the queue, in order

vars == <<issued, jobs, statuses, first, final, queue, submitter, runner,
          handles, appended, popped>>

SubmitPC == {"idle", "store_job", "store_status", "append"}
RunPC    == {"idle", "pop", "mark", "run"}

Outcomes == {"completed", "failed"}

-----------------------------------------------------------------------------
(* Faulty variants of actions below, each a slip that is easy to make in   *)
(* this code.  No specification uses them: substituted for the action they *)
(* vary, they show that the properties at the end can fail.                *)

\* pop() instead of popleft().
FaultyRunPopRight(w) ==
  LET j == queue[Len(queue)] IN
  /\ runner[w].pc = "pop"
  /\ queue # <<>>
  /\ queue' = SubSeq(queue, 1, Len(queue) - 1)
  /\ popped' = Append(popped, j)
  /\ runner' = [runner EXCEPT ![w] = [pc |-> "mark", job |-> j]]
  /\ UNCHANGED <<issued, jobs, statuses, first, final, submitter, handles,
                 appended>>

\* An early return between popleft and the try block.
FaultyRunPopReturns(w) ==
  /\ runner[w].pc = "pop"
  /\ queue # <<>>
  /\ queue' = Tail(queue)
  /\ popped' = Append(popped, Head(queue))
  /\ runner' = [runner EXCEPT ![w] = [pc |-> "idle", job |-> NoJob]]
  /\ UNCHANGED <<issued, jobs, statuses, first, final, submitter, handles,
                 appended>>

\* The assignment of RUNNING is missing.
FaultyRunMark(w) ==
  /\ runner[w].pc = "mark"
  /\ runner' = [runner EXCEPT ![w].pc = "run"]
  /\ UNCHANGED <<issued, jobs, statuses, first, final, queue, submitter,
                 handles, appended, popped>>

\* A `finally` puts the interrupted job back without resetting its status.
FaultyRunInterrupted(w) ==
  /\ runner[w].pc = "run"
  /\ queue' = Append(queue, runner[w].job)
  /\ runner' = [runner EXCEPT ![w] = [pc |-> "idle", job |-> NoJob]]
  /\ UNCHANGED <<issued, jobs, statuses, first, final, submitter, handles,
                 appended, popped>>

-----------------------------------------------------------------------------
(* submit(payload): lines 35-46.                                           *)

\* uuid4() and AlgorithmJob(...): nothing shared is touched before the
\* payload has been read completely.
SubmitBuild(c, j) ==
  /\ submitter[c].pc = "idle"
  /\ j \notin issued
  /\ issued' = issued \cup {j}
  /\ submitter' = [submitter EXCEPT ![c] = [pc |-> "store_job", job |-> j]]
  /\ UNCHANGED <<jobs, statuses, first, final, queue, runner, handles,
                 appended, popped>>

\* payload["algorithm"], payload["data"] or int(payload["partitions"])
\* raises: the identifier is lost and nothing else happened.
SubmitRaises(c, j) ==
  /\ submitter[c].pc = "idle"
  /\ j \notin issued
  /\ issued' = issued \cup {j}
  /\ UNCHANGED <<jobs, statuses, first, final, queue, submitter, runner,
                 handles, appended, popped>>

SubmitStoreJob(c) ==
  /\ submitter[c].pc = "store_job"
  /\ jobs' = jobs \cup {submitter[c].job}
  /\ submitter' = [submitter EXCEPT ![c].pc = "store_status"]
  /\ UNCHANGED <<issued, statuses, first, final, queue, runner, handles,
                 appended, popped>>

SubmitStoreStatus(c) ==
  LET j == submitter[c].job IN
  /\ submitter[c].pc = "store_status"
  /\ statuses' = [statuses EXCEPT ![j] = "first"]
  /\ first' = [first EXCEPT ![j] = "queued"]
  /\ submitter' = [submitter EXCEPT ![c].pc = "append"]
  /\ UNCHANGED <<issued, jobs, final, queue, runner, handles, appended,
                 popped>>

\* The append publishes the job to the workers; submit returns the id.
SubmitAppend(c) ==
  LET j == submitter[c].job IN
  /\ submitter[c].pc = "append"
  /\ queue' = Append(queue, j)
  /\ appended' = Append(appended, j)
  /\ submitter' = [submitter EXCEPT ![c] = [pc |-> "idle", job |-> NoJob]]
  /\ UNCHANGED <<issued, jobs, statuses, first, final, runner, handles,
                 popped>>

-----------------------------------------------------------------------------
(* status(job_id): lines 60-61.  The caller has the id submit returned and *)
(* gets the live object the dictionary holds, never a copy.                *)
Status(j) ==
  /\ \E i \in DOMAIN appended : appended[i] = j
  /\ <<j, statuses[j]>> \notin handles
  /\ handles' = handles \cup {<<j, statuses[j]>>}
  /\ UNCHANGED <<issued, jobs, statuses, first, final, queue, submitter,
                 runner, appended, popped>>

-----------------------------------------------------------------------------
(* run_next(): lines 48-58.  A call that finds the queue empty returns     *)
(* None and changes nothing.                                               *)

\* `if not self.queue: return None` finds a job.
RunCheck(w) ==
  /\ runner[w].pc = "idle"
  /\ queue # <<>>
  /\ runner' = [runner EXCEPT ![w] = [pc |-> "pop", job |-> NoJob]]
  /\ UNCHANGED <<issued, jobs, statuses, first, final, queue, submitter,
                 handles, appended, popped>>

RunPop(w) ==
  /\ runner[w].pc = "pop"
  /\ queue # <<>>
  /\ queue' = Tail(queue)
  /\ popped' = Append(popped, Head(queue))
  /\ runner' = [runner EXCEPT ![w] = [pc |-> "mark", job |-> Head(queue)]]
  /\ UNCHANGED <<issued, jobs, statuses, first, final, submitter, handles,
                 appended>>

\* popleft() of a deque another worker has emptied since the test: the
\* IndexError leaves run_next.
RunPopRaises(w) ==
  /\ runner[w].pc = "pop"
  /\ queue = <<>>
  /\ runner' = [runner EXCEPT ![w] = [pc |-> "idle", job |-> NoJob]]
  /\ UNCHANGED <<issued, jobs, statuses, first, final, queue, submitter,
                 handles, appended, popped>>

\* statuses[job_id].state = RUNNING mutates the object submit created.
RunMark(w) ==
  LET j == runner[w].job IN
  /\ runner[w].pc = "mark"
  /\ statuses[j] = "first"
  /\ first' = [first EXCEPT ![j] = "running"]
  /\ runner' = [runner EXCEPT ![w].pc = "run"]
  /\ UNCHANGED <<issued, jobs, statuses, final, queue, submitter, handles,
                 appended, popped>>

\* The runner returns or raises an Exception (a job that is missing from
\* self.jobs raises inside the same try); a new JobStatus replaces the old
\* one and is returned.
RunEnd(w, o) ==
  LET j == runner[w].job IN
  /\ runner[w].pc = "run"
  /\ j \in jobs \/ o = "failed"
  /\ statuses' = [statuses EXCEPT ![j] = "final"]
  /\ final' = [final EXCEPT ![j] = o]
  /\ handles' = handles \cup {<<j, "final">>}
  /\ runner' = [runner EXCEPT ![w] = [pc |-> "idle", job |-> NoJob]]
  /\ UNCHANGED <<issued, jobs, first, queue, submitter, appended, popped>>

\* KeyboardInterrupt or SystemExit while the job runs: `except Exception`
\* does not catch it and no status is stored.
RunInterrupted(w) ==
  /\ runner[w].pc = "run"
  /\ runner' = [runner EXCEPT ![w] = [pc |-> "idle", job |-> NoJob]]
  /\ UNCHANGED <<issued, jobs, statuses, first, final, queue, submitter,
                 handles, appended, popped>>

-----------------------------------------------------------------------------
Init ==
  /\ issued = {}
  /\ jobs = {}
  /\ statuses = [j \in JobIds |-> "absent"]
  /\ first = [j \in JobIds |-> "none"]
  /\ final = [j \in JobIds |-> "none"]
  /\ queue = <<>>
  /\ submitter = [c \in Clients |-> [pc |-> "idle", job |-> NoJob]]
  /\ runner = [w \in Workers |-> [pc |-> "idle", job |-> NoJob]]
  /\ handles = {}
  /\ appended = <<>>
  /\ popped = <<>>

Submit(c) ==
  \/ \E j \in JobIds : SubmitBuild(c, j)
  \/ \E j \in JobIds : SubmitRaises(c, j)
  \/ SubmitStoreJob(c)
  \/ SubmitStoreStatus(c)
  \/ SubmitAppend(c)

\* The steps of a run_next call that has found the queue non-empty.
InsideRunNext(w) ==
  \/ RunPop(w)
  \/ RunPopRaises(w)
  \/ RunMark(w)
  \/ \E o \in Outcomes : RunEnd(w, o)
  \/ RunInterrupted(w)

Next ==
  \/ \E c \in Clients : Submit(c)
  \/ \E w \in Workers : RunCheck(w)
  \/ \E w \in Workers : InsideRunNext(w)
  \/ \E j \in JobIds : Status(j)

Spec == Init /\ [][Next]_vars

\* A call that has begun goes on: threads are scheduled, and every plugin
\* bounds its own loop by max_iterations.  Nothing in the code calls submit
\* or run_next again and again, so beginning a call is not fair.
Fairness ==
  /\ \A c \in Clients :
       WF_vars(SubmitStoreJob(c) \/ SubmitStoreStatus(c) \/ SubmitAppend(c))
  /\ \A w \in Workers : WF_vars(InsideRunNext(w))

FairSpec == Spec /\ Fairness

-----------------------------------------------------------------------------
(* Properties.                                                             *)

Held == {runner[w].job : w \in Workers} \ {NoJob}

Ended(j) == final[j] # "none"

\* The state a fresh call of status(j) reports.
Visible(j) ==
  CASE statuses[j] = "absent" -> "unknown"
    [] statuses[j] = "first"  -> first[j]
    [] statuses[j] = "final"  -> final[j]

\* A job whose run was interrupted: nobody runs it, nothing will.
Orphaned(j) == statuses[j] = "first" /\ first[j] = "running" /\ j \notin Held

\* Types of the attributes, and a local job_id that is assigned exactly
\* between popleft and the end of the call.
TypeOK ==
  /\ issued \subseteq JobIds
  /\ jobs \subseteq issued
  /\ statuses \in [JobIds -> {"absent", "first", "final"}]
  /\ first \in [JobIds -> {"none", "queued", "running"}]
  /\ final \in [JobIds -> Outcomes \cup {"none"}]
  /\ queue \in Seq(JobIds)
  /\ submitter \in [Clients -> [pc : SubmitPC, job : JobIds \cup {NoJob}]]
  /\ runner \in [Workers -> [pc : RunPC, job : JobIds \cup {NoJob}]]
  /\ handles \subseteq JobIds \X {"first", "final"}
  /\ appended \in Seq(JobIds)
  /\ popped \in Seq(JobIds)
  /\ \A c \in Clients : submitter[c].job = NoJob <=> submitter[c].pc = "idle"
  /\ \A w \in Workers : runner[w].job = NoJob <=> runner[w].pc \in {"idle", "pop"}

\* No job is lost, duplicated or reordered between submit and run_next: the
\* ids popped so far followed by the ids still queued are the ids appended,
\* and no id was appended twice.
NoneLostNorReordered ==
  /\ appended = popped \o queue
  /\ \A a, b \in DOMAIN appended : appended[a] = appended[b] => a = b

\* A queued id is published in both dictionaries before a worker can pop it.
QueuedReadsQueued ==
  \A i \in DOMAIN queue : queue[i] \in jobs /\ Visible(queue[i]) = "queued"

HeldReadsItsPhase ==
  \A w \in Workers :
    /\ runner[w].pc = "mark" => Visible(runner[w].job) = "queued"
    /\ runner[w].pc = "run"  => Visible(runner[w].job) = "running"

HeldOnce ==
  \A v, w \in Workers : v # w /\ runner[v].job # NoJob =>
                          runner[v].job # runner[w].job

EndedWasRun ==
  \A j \in JobIds : Ended(j) =>
    /\ statuses[j] = "final"
    /\ \A w \in Workers : runner[w].job # j
    /\ \E i \in DOMAIN popped : popped[i] = j

\* What status() reports is where the job is: a queued job reads QUEUED, a
\* job that a worker runs reads RUNNING and is run by that worker only, and a
\* job has an outcome only after it was popped and when no worker holds it
\* any more.
StatusMatchesPosition ==
  QueuedReadsQueued /\ HeldReadsItsPhase /\ HeldOnce /\ EndedWasRun

\* A JobStatus taken before the job ended is never told of the end: run_next
\* replaces the object instead of updating it, so a caller that polls the
\* handle it got from status() reads RUNNING for ever.  Only a new call of
\* status() sees the outcome.
StaleHandleReadsRunning ==
  \A j \in JobIds : Ended(j) /\ <<j, "first">> \in handles => first[j] = "running"

\* Seen through status(), a job only moves forward, one state at a time, and
\* an outcome is final.
StateMovesForward ==
  [][\A j \in JobIds : Visible(j)' # Visible(j) =>
       <<Visible(j), Visible(j)'>> \in
         {<<"unknown", "queued">>, <<"queued", "running">>,
          <<"running", "completed">>, <<"running", "failed">>}]_vars

\* The deque and the two dictionaries implement the abstract queue.
JQ == INSTANCE JobQueue WITH log <- appended, cursor <- Len(popped),
                             outcome <- final
ImplementsJobQueue == JQ!Spec

\* If run_next is called again whenever jobs wait, every accepted job ends or
\* was interrupted; a failing job does not block the ones behind it.
RunNextKeepsBeingCalled ==
  [](queue # <<>> => <>(\E w \in Workers : runner[w].pc # "idle"))

EveryJobSettles ==
  RunNextKeepsBeingCalled =>
    \A j \in JobIds : (j \in jobs) ~> (Ended(j) \/ Orphaned(j))
=============================================================================
