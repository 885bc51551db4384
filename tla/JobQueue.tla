------------------------------ MODULE JobQueue ------------------------------
(***************************************************************************)
(* What core/scheduler.py promises its users, with none of the data        *)
(* structures it uses: jobs are accepted into a log, started in the order  *)
(* of the log, each at most once, and a started job gets at most one       *)
(* outcome, which never changes.                                           *)
(*                                                                         *)
(* The log is never consumed; a cursor counts the jobs already started, so *)
(* FIFO order and at-most-once execution are the shape of the state.       *)
(* FifoScheduler.tla implements this with a deque, two dictionaries and    *)
(* the steps of the threads that call submit and run_next.                 *)
(***************************************************************************)
EXTENDS Naturals, Sequences

CONSTANT JobIds          \* the identifiers uuid4() can return

VARIABLES
  log,                   \* the jobs accepted so far, in order of acceptance
  cursor,                \* how many jobs of the log have been started
  outcome                \* outcome[j]: "none" until j ends

vars == <<log, cursor, outcome>>

Outcomes == {"completed", "failed"}

Accepted == {log[i] : i \in DOMAIN log}
Started  == {log[i] : i \in 1 .. cursor}

Init ==
  /\ log = <<>>
  /\ cursor = 0
  /\ outcome = [j \in JobIds |-> "none"]

\* A new job is accepted behind all the others.
Accept(j) ==
  /\ j \notin Accepted
  /\ log' = Append(log, j)
  /\ UNCHANGED <<cursor, outcome>>

\* The oldest job that was not started is started.
Start ==
  /\ cursor < Len(log)
  /\ cursor' = cursor + 1
  /\ UNCHANGED <<log, outcome>>

\* A started job ends, once.
End(j, o) ==
  /\ j \in Started
  /\ outcome[j] = "none"
  /\ outcome' = [outcome EXCEPT ![j] = o]
  /\ UNCHANGED <<log, cursor>>

Next ==
  \/ \E j \in JobIds : Accept(j)
  \/ Start
  \/ \E j \in JobIds, o \in Outcomes : End(j, o)

Spec == Init /\ [][Next]_vars
=============================================================================
