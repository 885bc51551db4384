----------------------------- MODULE JobService -----------------------------
(***************************************************************************)
(* A process that serves jobs: the HTTPServer of `cli serve`, which the    *)
(* Handler of _build_server connects to DistAlgoHTTPApp (core/server.py)   *)
(* and JobAPI (core/api.py); the runtime behind their JobRunner, which is  *)
(* a LocalRuntime, a RayRuntime (backends/ray_runtime.py) or a             *)
(* PregelRuntime; and the MetricsRegistry of that runtime.                 *)
(*                                                                         *)
(* HTTPServer takes one connection after the other and HTTP/1.0 has one    *)
(* request on each, so a request and its connection are one here, and so   *)
(* is the call of handle that it leads to.  The runner is not the app's    *)
(* own: other threads of the process may run jobs on it, as the worker of  *)
(* a FifoScheduler does, and the owner of a RayRuntime may shut it down.   *)
(*                                                                         *)
(* All jobs name one algorithm, as the keys of different algorithms are    *)
(* different.  Between the plugin and the counters a LocalRuntime saves to *)
(* a MemoryCheckpointStore, a step no one here can see.  What              *)
(* MetricsHTTPServer (core/prometheus.py) answers to a scrape is Text at   *)
(* the moment of the scrape; it changes nothing, and has no action.        *)
(***************************************************************************)
EXTENDS Integers, Sequences, FiniteSets

CONSTANTS
  Requests,       \* connections of clients
  Others,         \* calls of JobRunner.run by other threads
  Runtimes,       \* runtimes the service may be built on
  Backlog,        \* request_queue_size of the server socket
  Iterations,     \* values of result.iterations
  MaxRestarts     \* bound on the restarts of the process

ASSUME ThreadsAssumption == Requests \cap Others = {}
ASSUME RuntimesAssumption == Runtimes \subseteq {"local", "ray", "pregel"}
ASSUME BoundsAssumption == Backlog \in Nat /\ Iterations \subseteq Nat /\ MaxRestarts \in Nat
\* A job stops at its max_iterations at the latest.
ASSUME IterationsAssumption == Iterations # {} /\ IsFiniteSet(Iterations)

\* What is asked for: POST /jobs with a body that is JSON; such a job whose
\* answer may be one that cannot be sent, as when the result or the error
\* repeats a lone surrogate of the body; a POST that cannot be read, since
\* Content-Length is no number, the body is not UTF-8 or, on /jobs, no JSON;
\* GET /metrics; any other request.
Jobs == {"job", "surrogate"}
Kinds == Jobs \cup {"unreadable", "metrics", "page"}

VARIABLES
  runtime,      \* the class of runner.runtime
  client,       \* where the client of each request is
  kind,         \* what it has asked for, "none" before
  answer,       \* how its connection ended
  backlog,      \* connections not yet accepted
  serving,      \* connections the server is working on
  run,          \* each call of JobRunner.run: where it is, what it returns
  initialized,  \* RayRuntime._initialized
  ray_up,       \* Ray is running
  stopping,     \* the call of shutdown: "no", or at "stop" or "clear"
  overlapped,   \* history: a run and a shutdown were under way together, and
                \* no shutdown has ended since with no run under way
  told,         \* history: jobs this process has answered as completed
  restarts,
  counters, reading, added, raced    \* the registry

serverVars == <<client, kind, answer, backlog, serving, told>>
rayVars    == <<initialized, ray_up, stopping, overlapped>>
metricVars == <<counters, reading, added, raced>>
vars == <<runtime, serverVars, run, rayVars, restarts, metricVars>>

Threads == Requests \cup Others

\* The metrics of the algorithm; one gauge stands for all of them.
Metrics == {"iterations", "jobs", "gauge"}

Registry == INSTANCE MetricsRegistry WITH Keys <- Metrics

Idle == [pc |-> "idle", iterations |-> 0]

At(t, pc) == run[t].pc = pc

\* Where a call of run is that has begun and not ended.
RunPCs == {"begin", "init", "flag", "compute", "iterations", "jobs", "gauge"}

UnderWay == \E t \in Threads : run[t].pc \in RunPCs

Goto(t, pc) == run' = [run EXCEPT ![t].pc = pc]

\* The connection of r ends; the server is free for the next.
Close(r, how) ==
  /\ answer' = [answer EXCEPT ![r] = how]
  /\ serving' = serving \ {r}

-----------------------------------------------------------------------------
(* Clients.                                                                *)

\* A full backlog refuses connections.  A client is "connected" until it has
\* sent the last byte that Content-Length promises.
Connect(r) ==
  /\ client[r] = "away"
  /\ Len(backlog) < Backlog
  /\ client' = [client EXCEPT ![r] = "connected"]
  /\ backlog' = Append(backlog, r)
  /\ UNCHANGED <<runtime, kind, answer, serving, told, run, rayVars, restarts, metricVars>>

Send(r, what) ==
  /\ client[r] = "connected"
  /\ client' = [client EXCEPT ![r] = "waiting"]
  /\ kind' = [kind EXCEPT ![r] = what]
  /\ UNCHANGED <<runtime, answer, backlog, serving, told, run, rayVars, restarts, metricVars>>

\* The client hangs up before or after it has sent its request.
GiveUp(r) ==
  /\ client[r] \in {"connected", "waiting"}
  /\ answer[r] = "none"
  /\ client' = [client EXCEPT ![r] = "gone"]
  /\ UNCHANGED <<runtime, kind, answer, backlog, serving, told, run, rayVars, restarts, metricVars>>

-----------------------------------------------------------------------------
(* The thread of the server.                                               *)

\* A faulty variant: a server that has a thread for each connection.
FaultyAccept ==
  /\ backlog # <<>>
  /\ serving' = serving \cup {Head(backlog)}
  /\ backlog' = Tail(backlog)
  /\ UNCHANGED <<runtime, client, kind, answer, told, run, rayVars, restarts, metricVars>>

\* serve_forever: one connection at a time.
Accept ==
  /\ serving = {}
  /\ backlog # <<>>
  /\ serving' = {Head(backlog)}
  /\ backlog' = Tail(backlog)
  /\ UNCHANGED <<runtime, client, kind, answer, told, run, rayVars, restarts, metricVars>>

\* do_GET, do_POST and _send for what needs no job.  An exception in them
\* closes the connection without an answer: a POST that cannot be read, and
\* the attribute metrics, which PregelRuntime does not have.
Answer(r) ==
  CASE kind[r] = "unreadable" -> "dropped"
    [] kind[r] = "metrics" /\ runtime = "pregel" -> "dropped"
    [] OTHER -> "answered"

\* A faulty variant of Receive: the exception ends the loop of the server.
FaultyReceive(r) ==
  /\ r \in serving /\ At(r, "idle")
  /\ kind[r] \in {"metrics", "page"}
  /\ Close(r, IF client[r] = "gone" THEN "dropped" ELSE Answer(r))
  /\ UNCHANGED <<runtime, client, kind, backlog, told, run, rayVars, restarts, metricVars>>

\* The request has come, and is answered at once.
Receive(r) ==
  /\ r \in serving /\ At(r, "idle")
  /\ kind[r] \in {"unreadable", "metrics", "page"}
  /\ Close(r, IF client[r] = "gone" THEN "dropped" ELSE Answer(r))
  /\ UNCHANGED <<runtime, client, kind, backlog, told, run, rayVars, restarts, metricVars>>

\* The request is a job: run_json, JobRunner.run.
ReceiveJob(r) ==
  /\ r \in serving /\ At(r, "idle")
  /\ kind[r] \in Jobs
  /\ Goto(r, "begin")
  /\ overlapped' = (overlapped \/ stopping # "no")
  /\ UNCHANGED <<runtime, serverVars, initialized, ray_up, stopping, restarts, metricVars>>

\* The client has gone, before it sent a request or with its request lost.
ReceiveNothing(r) ==
  /\ r \in serving /\ At(r, "idle")
  /\ client[r] = "gone"
  /\ Close(r, "dropped")
  /\ UNCHANGED <<runtime, client, kind, backlog, told, run, rayVars, restarts, metricVars>>

\* A faulty variant of Respond: run_json lets exceptions pass.
FaultyRespond(r) ==
  /\ r \in serving
  /\ run[r].pc \in {"completed", "failed"}
  /\ Close(r, IF client[r] = "gone" \/ At(r, "failed") THEN "dropped" ELSE "completed")
  /\ told' = IF answer'[r] = "completed" THEN told + 1 ELSE told
  /\ run' = [run EXCEPT ![r] = Idle]
  /\ UNCHANGED <<runtime, client, kind, backlog, rayVars, restarts, metricVars>>

\* run_json has made an answer of the result or of the exception.  Encoding it
\* is outside of its try and may fail, and writing it fails if the client has
\* gone: the connection is closed without an answer.
Respond(r) ==
  /\ r \in serving
  /\ run[r].pc \in {"completed", "failed"}
  /\ \E encodes \in BOOLEAN :
       /\ encodes \/ kind[r] = "surrogate"
       /\ Close(r, IF client[r] = "gone" \/ ~encodes THEN "dropped" ELSE run[r].pc)
  /\ told' = IF answer'[r] = "completed" THEN told + 1 ELSE told
  /\ run' = [run EXCEPT ![r] = Idle]
  /\ UNCHANGED <<runtime, client, kind, backlog, rayVars, restarts, metricVars>>

-----------------------------------------------------------------------------
(* JobRunner.run on thread t.                                              *)

StartOther(t) ==
  /\ t \in Others
  /\ At(t, "idle")
  /\ Goto(t, "begin")
  /\ overlapped' = (overlapped \/ stopping # "no")
  /\ UNCHANGED <<runtime, serverVars, initialized, ray_up, stopping, restarts, metricVars>>

\* RayRuntime._ensure_initialized tests the flag.
Begin(t) ==
  /\ At(t, "begin")
  /\ Goto(t, IF runtime = "ray" /\ ~initialized THEN "init" ELSE "compute")
  /\ UNCHANGED <<runtime, serverVars, rayVars, restarts, metricVars>>

\* ray.init(ignore_reinit_error=True): harmless if another thread was first.
InitRay(t) ==
  /\ At(t, "init")
  /\ ray_up' = TRUE
  /\ Goto(t, "flag")
  /\ UNCHANGED <<runtime, serverVars, initialized, stopping, overlapped, restarts, metricVars>>

SetFlag(t) ==
  /\ At(t, "flag")
  /\ initialized' = TRUE
  /\ Goto(t, "compute")
  /\ UNCHANGED <<runtime, serverVars, ray_up, stopping, overlapped, restarts, metricVars>>

\* A faulty variant of EnsureInitialized: the flag is set first, and ray.init
\* is called after it.
FaultyEnsureInitialized(t) ==
  \/ /\ At(t, "init")
     /\ initialized' = TRUE
     /\ Goto(t, "flag")
     /\ UNCHANGED <<runtime, serverVars, ray_up, stopping, overlapped, restarts, metricVars>>
  \/ /\ At(t, "flag")
     /\ ray_up' = TRUE
     /\ Goto(t, "compute")
     /\ UNCHANGED <<runtime, serverVars, initialized, stopping, overlapped, restarts, metricVars>>

\* The two statements of _ensure_initialized behind its test.
EnsureInitialized(t) == InitRay(t) \/ SetFlag(t)

\* An unknown algorithm, partitions that are not positive, a plugin that
\* rejects its input, Ray that does not start: an exception, which run_json
\* turns into an answer and another caller gets.
RunRaises(t) ==
  /\ run[t].pc \in {"begin", "init", "compute"}
  /\ Goto(t, IF t \in Others THEN "over" ELSE "failed")
  /\ UNCHANGED <<runtime, serverVars, rayVars, restarts, metricVars>>

\* algorithm.run; PregelRuntime counts nothing.
Compute(t) ==
  /\ At(t, "compute")
  /\ \E n \in Iterations :
       run' = [run EXCEPT ![t] =
                 [pc |-> IF runtime # "pregel" THEN "iterations"
                         ELSE IF t \in Others THEN "over" ELSE "completed",
                  iterations |-> n]]
  /\ UNCHANGED <<runtime, serverVars, rayVars, restarts, metricVars>>

\* metrics.increment(key, value), the statement at `key`; then comes `next`.
Increment(t, key, value, next) ==
  /\ At(t, key)
  /\ \/ Registry!Read(t, key) /\ UNCHANGED run
     \/ Registry!Store(t, value) /\ Goto(t, next)
  /\ UNCHANGED <<runtime, serverVars, rayVars, restarts>>

\* A faulty variant of CountIterations: the number of iterations is forgotten
\* between the two counters.
FaultyCountIterations(t) == Increment(t, "iterations", 0, "jobs")

CountIterations(t) == Increment(t, "iterations", run[t].iterations, "jobs")
CountJob(t) == Increment(t, "jobs", 1, "gauge")

SetGauges(t) ==
  /\ At(t, "gauge")
  /\ Registry!SetGauge("gauge", 1 + run[t].iterations)
  /\ Goto(t, IF t \in Others THEN "over" ELSE "completed")
  /\ UNCHANGED <<runtime, serverVars, rayVars, restarts>>

Run(t) ==
  \/ Begin(t) \/ EnsureInitialized(t) \/ RunRaises(t) \/ Compute(t)
  \/ CountIterations(t) \/ CountJob(t) \/ SetGauges(t)

-----------------------------------------------------------------------------
(* RayRuntime.shutdown, which any thread may call at any moment, one call at *)
(* a time: the test, ray.shutdown and the flag are a step each.            *)

ShutDown ==
  /\ runtime = "ray" /\ stopping = "no"
  /\ stopping' = IF initialized THEN "stop" ELSE "clear"
  /\ overlapped' = (overlapped \/ UnderWay)
  /\ UNCHANGED <<runtime, serverVars, run, initialized, ray_up, restarts, metricVars>>

StopRay ==
  /\ stopping = "stop"
  /\ ray_up' = FALSE
  /\ stopping' = "clear"
  /\ UNCHANGED <<runtime, serverVars, run, initialized, overlapped, restarts, metricVars>>

ClearFlag ==
  /\ stopping = "clear"
  /\ initialized' = FALSE
  /\ stopping' = "no"
  /\ overlapped' = UnderWay
  /\ UNCHANGED <<runtime, serverVars, run, ray_up, restarts, metricVars>>

-----------------------------------------------------------------------------
\* The process is killed and started again: connections break, and the
\* registry and Ray, which lived in the process, are gone.
Restart ==
  /\ restarts < MaxRestarts
  /\ restarts' = restarts + 1
  /\ answer' = [r \in Requests |->
                  IF client[r] # "away" /\ answer[r] = "none" THEN "cut" ELSE answer[r]]
  /\ backlog' = <<>>
  /\ serving' = {}
  /\ told' = 0
  /\ run' = [t \in Threads |-> Idle]
  /\ initialized' = FALSE
  /\ ray_up' = FALSE
  /\ stopping' = "no"
  /\ overlapped' = FALSE
  /\ Registry!Reset
  /\ UNCHANGED <<runtime, client, kind>>

Init ==
  /\ runtime \in Runtimes
  /\ client = [r \in Requests |-> "away"]
  /\ kind = [r \in Requests |-> "none"]
  /\ answer = [r \in Requests |-> "none"]
  /\ backlog = <<>>
  /\ serving = {}
  /\ told = 0
  /\ run = [t \in Threads |-> Idle]
  /\ initialized = FALSE
  /\ ray_up = FALSE
  /\ stopping = "no"
  /\ overlapped = FALSE
  /\ restarts = 0
  /\ Registry!Init

\* What the thread of the server does for request r.
Handle(r) ==
  \/ Receive(r) \/ ReceiveJob(r) \/ ReceiveNothing(r) \/ Run(r) \/ Respond(r)

Next ==
  \/ \E r \in Requests : Connect(r) \/ GiveUp(r) \/ (\E what \in Kinds : Send(r, what))
  \/ Accept
  \/ \E r \in Requests : Handle(r)
  \/ \E t \in Others : StartOther(t) \/ Run(t)
  \/ ShutDown \/ StopRay \/ ClearFlag
  \/ Restart

Spec == Init /\ [][Next]_vars

\* The server is never idle when it has something to do: its loop, and the
\* calls it makes, all of which end.  Clients and other threads do as they
\* like.
Fairness == WF_vars(Accept) /\ \A r \in Requests : WF_vars(Handle(r))

FairSpec == Spec /\ Fairness

-----------------------------------------------------------------------------
(* Properties.                                                             *)

OneAtATime == serving = {} \/ \E r \in Requests : serving = {r}

\* The variables have their types, and the one connection that is served is
\* the only one whose request is being worked on.
TypeOK ==
  /\ runtime \in Runtimes
  /\ client \in [Requests -> {"away", "connected", "waiting", "gone"}]
  /\ kind \in [Requests -> Kinds \cup {"none"}]
  /\ answer \in [Requests -> {"none", "answered", "completed", "failed", "dropped", "cut"}]
  /\ backlog \in Seq(Requests) /\ Len(backlog) <= Backlog
  /\ OneAtATime
  /\ told \in Nat
  /\ run \in [Threads -> [pc : RunPCs \cup {"idle", "completed", "failed", "over"},
                          iterations : Iterations \cup {0}]]
  /\ initialized \in BOOLEAN /\ ray_up \in BOOLEAN
  /\ stopping \in {"no", "stop", "clear"} /\ overlapped \in BOOLEAN
  /\ restarts \in 0 .. MaxRestarts
  /\ Registry!TypeOK
  /\ \A r \in Requests : ~At(r, "idle") => r \in serving

\* A server that is alone with its runner never loses a count, since it runs
\* one job at a time, and it has counted every job it answered as completed.
\* Another thread on the same runner can make it lose counts, but only where
\* two increments of one key overlap.
AnsweredIsCounted ==
  /\ Registry!CountsAreHonest
  /\ (\A t \in Others : At(t, "idle")) => raced = {}
  /\ runtime # "pregel" /\ "jobs" \notin raced => told <= counters["jobs"]

Least == CHOOSE n \in Iterations : \A m \in Iterations : n <= m
Most  == CHOOSE n \in Iterations : \A m \in Iterations : m <= n

\* What a scrape reads, at any moment: every job that is counted has had its
\* iterations counted, the iterations are ahead by those of the runs between
\* the two increments, and a gauge belongs to a job that is counted.
TextAddsUp ==
  LET ahead == Cardinality({t \in Threads : At(t, "jobs")}) IN
  {"iterations", "jobs"} \cap raced = {} =>
    /\ Least * counters["jobs"] <= counters["iterations"]
    /\ counters["iterations"] <= Most * (counters["jobs"] + ahead)
    /\ counters["gauge"] > 0 => counters["jobs"] > 0

\* From one scrape to the next the counters add up and only go up, until the
\* process is started again; overlapping increments may set them back.
ScrapesAddUp ==
  [][/\ TextAddsUp'
     /\ restarts' = restarts =>
          \A key \in {"iterations", "jobs"} \ raced' : counters[key] <= counters'[key]]_vars

\* A job that can be read and whose answer can be encoded is answered, also
\* when it fails, and so are pages and metrics: a connection is closed on a
\* client that is still there only for a request that cannot be read, an
\* answer that cannot be sent, and the metrics of a runtime that has none.
FailuresAreAnswered ==
  \A r \in Requests :
    answer[r] = "dropped" /\ client[r] # "gone" =>
      \/ kind[r] \in {"unreadable", "surrogate"}
      \/ kind[r] = "metrics" /\ runtime = "pregel"

\* Whichever thread came first, a job that RayRuntime runs has Ray running,
\* unless a shutdown overlapped a run: then the flag may stay set over a Ray
\* that is down, until a shutdown that overlaps none.
RayIsUpForJobs ==
  runtime = "ray" /\ ~overlapped =>
    \A t \in Threads : run[t].pc \in {"compute", "iterations", "jobs", "gauge"} => ray_up

\* The server waits for a client that has connected and sends nothing: there
\* is no timeout, and everybody else waits with it.
Stalled == \E r \in serving : client[r] = "connected"

Sent(r) == kind[r] # "none"

Settled(r) == answer[r] # "none"

\* Every request that was sent gets an answer or is dropped, whatever other
\* requests do to the server, unless a client that sends nothing keeps it.
EverySentRequestSettles ==
  ([]<>~Stalled) => \A r \in Requests : Sent(r) ~> Settled(r)
=============================================================================
