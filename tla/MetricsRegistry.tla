-------------------------- MODULE MetricsRegistry ---------------------------
(***************************************************************************)
(* MetricsRegistry of core/metrics.py, shared by the threads of a process. *)
(*                                                                         *)
(* `self._counters[key] += value` reads the entry, adds to it and writes   *)
(* it back; nothing keeps another thread from doing the same in between.   *)
(* set_gauge is a single assignment, and to_prometheus_text takes its list *)
(* of the entries in one call, during which no other thread runs.  A key   *)
(* that was never written reads as 0, the default of the dictionary.       *)
(***************************************************************************)
EXTENDS Naturals

CONSTANTS
  Threads,
  Keys       \* (name, labels)

VARIABLES
  counters,  \* _counters
  reading,   \* of each thread: <<>> or <<key, the value it has read>>
  added,     \* history: by key, what increment and set_gauge were told
  raced      \* history: keys of which two increments overlapped

registryVars == <<counters, reading, added, raced>>

Init ==
  /\ counters = [key \in Keys |-> 0]
  /\ reading = [t \in Threads |-> <<>>]
  /\ added = [key \in Keys |-> 0]
  /\ raced = {}

\* increment: the old value is on the stack of thread t.
Read(t, key) ==
  /\ reading[t] = <<>>
  /\ reading' = [reading EXCEPT ![t] = <<key, counters[key]>>]
  /\ raced' = IF \E u \in Threads : reading[u] # <<>> /\ reading[u][1] = key
                THEN raced \cup {key} ELSE raced
  /\ UNCHANGED <<counters, added>>

\* increment: the sum is written.
Store(t, value) ==
  /\ reading[t] # <<>>
  /\ LET key == reading[t][1] IN
       /\ counters' = [counters EXCEPT ![key] = reading[t][2] + value]
       /\ added' = [added EXCEPT ![key] = @ + value]
  /\ reading' = [reading EXCEPT ![t] = <<>>]
  /\ UNCHANGED raced

SetGauge(key, value) ==
  /\ counters' = [counters EXCEPT ![key] = value]
  /\ added' = [added EXCEPT ![key] = value]
  /\ UNCHANGED <<reading, raced>>

\* A new process has a new registry.
Reset ==
  /\ counters' = [key \in Keys |-> 0]
  /\ reading' = [t \in Threads |-> <<>>]
  /\ added' = [key \in Keys |-> 0]
  /\ raced' = {}

-----------------------------------------------------------------------------
\* The variables have their types.
TypeOK ==
  /\ counters \in [Keys -> Nat]
  /\ reading \in [Threads -> {<<>>} \cup (Keys \X Nat)]
  /\ added \in [Keys -> Nat]
  /\ raced \subseteq Keys

\* Overlapping increments lose counts and never invent any; a key that was
\* spared them counts exactly.
CountsAreHonest ==
  \A key \in Keys :
    /\ counters[key] <= added[key]
    /\ key \notin raced => counters[key] = added[key]
=============================================================================
