------------------------ MODULE FileCheckpointStore -------------------------
(***************************************************************************)
(* FileCheckpointStore of core/checkpoint.py: one pickle file for each     *)
(* pair of an algorithm name and an iteration number.                      *)
(*                                                                         *)
(* save opens the file with mode "wb", which truncates what was there, and *)
(* lets pickle.dump write to it through a buffer, so the new content       *)
(* reaches the file in several writes at the writer's own offset.  There   *)
(* is no temporary file, no rename and no lock: a process that dies or an  *)
(* exception in dump leaves a prefix, and two processes that save under    *)
(* the same key write into the same file.                                  *)
(*                                                                         *)
(* A pickle is Blocks writes long.  What matters of a block is whose state *)
(* it belongs to.                                                          *)
(***************************************************************************)
EXTENDS Naturals

CONSTANTS
  Savers,      \* processes that save
  Keys,        \* (algorithm, iteration)
  States,      \* outputs that are pickled
  Blocks,      \* writes to the file per pickle
  NoFile,      \* the path does not exist
  Missing,     \* the file ends before this block
  Hole,        \* zeros: the file was truncated under a writer with an offset
  Nobody       \* no key or state in hand

ASSUME BlocksAssumption == Blocks \in Nat \ {0}
ASSUME DistinctAssumption ==
  /\ Missing # Hole /\ Missing \notin States /\ Hole \notin States
  /\ Nobody \notin States /\ Nobody \notin Keys
  /\ NoFile \notin [1 .. Blocks -> States \cup {Missing, Hole}]

VARIABLES
  files,       \* the directory: content by key
  saver,       \* [key, state, wrote] of every process inside save
  damage,      \* history: what happened to the save of the key that began last
  latest       \* history: the state whose save of the key began last

storeVars == <<files, saver, damage, latest>>

Idle == [key |-> Nobody, state |-> Nobody, wrote |-> 0]

Saving(d) == saver[d].key # Nobody

Content == [1 .. Blocks -> States \cup {Missing, Hole}]

\* A write at offset i; a gap before it reads as zeros.
WriteAt(content, i, s) ==
  [n \in 1 .. Blocks |->
     CASE n = i -> s
       [] n < i /\ content[n] = Missing -> Hole
       [] OTHER -> content[n]]

-----------------------------------------------------------------------------
(* Faulty variants of the actions below.                                   *)

\* Mode "r+b" for a file that exists: the old content is not truncated.
FaultyOpen(d, k, s) ==
  /\ ~Saving(d)
  /\ files' = [files EXCEPT ![k] =
                 IF @ = NoFile THEN [n \in 1 .. Blocks |-> Missing] ELSE @]
  /\ saver' = [saver EXCEPT ![d] = [key |-> k, state |-> s, wrote |-> 0]]
  /\ damage' = [damage EXCEPT ![k] =
                  IF \E e \in Savers : saver[e].key = k THEN "overlap" ELSE "none"]
  /\ latest' = [latest EXCEPT ![k] = s]

\* The call returns before the buffer is flushed.
FaultyClose(d) ==
  /\ Saving(d)
  /\ saver' = [saver EXCEPT ![d] = Idle]
  /\ UNCHANGED <<files, damage, latest>>

-----------------------------------------------------------------------------
(* save(algorithm, iteration, state).                                      *)

\* path.open("wb") truncates the file, or creates it.
Open(d, k, s) ==
  /\ ~Saving(d)
  /\ files' = [files EXCEPT ![k] = [n \in 1 .. Blocks |-> Missing]]
  /\ saver' = [saver EXCEPT ![d] = [key |-> k, state |-> s, wrote |-> 0]]
  /\ damage' = [damage EXCEPT ![k] =
                  IF \E e \in Savers : saver[e].key = k THEN "overlap" ELSE "none"]
  /\ latest' = [latest EXCEPT ![k] = s]

\* One write of pickle.dump, at the offset of this file object.
WriteBlock(d) ==
  LET k == saver[d].key
      i == saver[d].wrote + 1
  IN
  /\ Saving(d)
  /\ i <= Blocks
  /\ files' = [files EXCEPT ![k] = WriteAt(@, i, saver[d].state)]
  /\ saver' = [saver EXCEPT ![d].wrote = i]
  /\ UNCHANGED <<damage, latest>>

\* The end of the with statement: everything is written.
Close(d) ==
  /\ Saving(d)
  /\ saver[d].wrote = Blocks
  /\ saver' = [saver EXCEPT ![d] = Idle]
  /\ UNCHANGED <<files, damage, latest>>

\* The process dies, the disk is full, or the state cannot be pickled: what
\* was written stays, and nothing restores what was truncated.
Abandon(d) ==
  /\ Saving(d)
  /\ saver' = [saver EXCEPT ![d] = Idle]
  /\ damage' = [damage EXCEPT ![saver[d].key] =
                  IF @ = "overlap" THEN @ ELSE "cut"]
  /\ UNCHANGED <<files, latest>>

-----------------------------------------------------------------------------
(* exists and load.                                                        *)

\* exists looks at the path only, not at the content.
Exists(k) == files[k] # NoFile

Whole(s) == [n \in 1 .. Blocks |-> s]

\* pickle.load returns a state only if the file is one state's pickle.
Loadable(k) == \E s \in States : files[k] = Whole(s)

\* Blocks of two states in one file: load raises or returns an object
\* nobody saved.
Mixed(k) ==
  Exists(k) /\ \E m, n \in 1 .. Blocks :
    files[k][m] \in States /\ files[k][n] \in States /\ files[k][m] # files[k][n]

-----------------------------------------------------------------------------
Init ==
  /\ files = [k \in Keys |-> NoFile]
  /\ saver = [d \in Savers |-> Idle]
  /\ damage = [k \in Keys |-> "none"]
  /\ latest = [k \in Keys |-> Nobody]

Next ==
  \E d \in Savers :
    \/ \E k \in Keys, s \in States : Open(d, k, s)
    \/ WriteBlock(d)
    \/ Close(d)
    \/ Abandon(d)

Spec == Init /\ [][Next]_storeVars

-----------------------------------------------------------------------------
(* Properties.                                                             *)

\* The variables have their types: no handle is past the end of its pickle.
TypeOK ==
  /\ files \in [Keys -> Content \cup {NoFile}]
  /\ saver \in [Savers -> [key : Keys \cup {Nobody},
                           state : States \cup {Nobody},
                           wrote : 0 .. Blocks]]
  /\ damage \in [Keys -> {"none", "cut", "overlap"}]
  /\ latest \in [Keys -> States \cup {Nobody}]
  /\ \A d \in Savers : saver[d].key = Nobody <=> saver[d].state = Nobody

\* A save that runs alone and to its end is read back, whatever an earlier
\* one left behind: unless the last save of a key was cut short or another
\* one overlapped it, an existing file that nobody is writing holds the
\* state whose save began last.
IntactUnlessDamaged ==
  \A k \in Keys :
    Exists(k) /\ damage[k] = "none" /\ (\A d \in Savers : saver[d].key # k)
      => files[k] = Whole(latest[k])

\* A crash alone leaves a prefix, which load rejects; only saves of the same
\* key that overlap can leave a file that mixes two states or has a hole,
\* which pickle may take for an object nobody saved.
MixedOnlyByOverlap ==
  \A k \in Keys :
    Mixed(k) \/ (Exists(k) /\ \E n \in 1 .. Blocks : files[k][n] = Hole)
      => damage[k] = "overlap"
=============================================================================
