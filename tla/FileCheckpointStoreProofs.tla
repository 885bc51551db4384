--------------------- MODULE FileCheckpointStoreProofs ----------------------
(***************************************************************************)
(* Theorems about FileCheckpointStore, for every number of processes,      *)
(* keys, states and writes per pickle.                                     *)
(*                                                                         *)
(* The properties speak of files nobody is writing.  They follow from what *)
(* a file looks like while it is written: as long as saves of its key do   *)
(* not overlap, it is a prefix of one pickle, exactly as long as what the  *)
(* only writer has written.                                                *)
(***************************************************************************)
EXTENDS FileCheckpointStore, TLAPS

\* The first n blocks of the pickle of s.
Prefix(n, s) == [i \in 1 .. Blocks |-> IF i <= n THEN s ELSE Missing]

\* The file of key k, as long as saves of k do not overlap.
FileIsPrefix(k) ==
  /\ \A d \in Savers : saver[d].key = k => Exists(k)
  /\ Exists(k) => latest[k] \in States
  /\ damage[k] # "overlap" =>
       /\ \A d, e \in Savers : saver[d].key = k /\ saver[e].key = k => d = e
       /\ \A d \in Savers : saver[d].key = k =>
            /\ files[k] = Prefix(saver[d].wrote, saver[d].state)
            /\ latest[k] = saver[d].state
            /\ damage[k] = "none"
       /\ Exists(k) => \E n \in 0 .. Blocks : files[k] = Prefix(n, latest[k])
       /\ Exists(k) /\ damage[k] = "none" /\ (\A d \in Savers : saver[d].key # k)
            => files[k] = Whole(latest[k])

\* The inductive invariant.
Inv == TypeOK /\ \A k \in Keys : FileIsPrefix(k)

-----------------------------------------------------------------------------
\* The write after the first n of a prefix makes it one block longer.
LEMMA WriteExtendsPrefix ==
  ASSUME NEW n \in 0 .. Blocks, NEW s \in States, n + 1 <= Blocks
  PROVE  WriteAt(Prefix(n, s), n + 1, s) = Prefix(n + 1, s)
PROOF
  <1>1. ASSUME NEW i \in 1 .. Blocks
        PROVE  WriteAt(Prefix(n, s), n + 1, s)[i] = Prefix(n + 1, s)[i]
    <2>1. CASE i = n + 1
      BY <2>1, BlocksAssumption DEF WriteAt, Prefix
    <2>2. CASE i < n + 1
      BY <2>2, BlocksAssumption, DistinctAssumption DEF WriteAt, Prefix
    <2>3. CASE i > n + 1
      BY <2>3, BlocksAssumption, DistinctAssumption DEF WriteAt, Prefix
    <2> QED
      BY <2>1, <2>2, <2>3, BlocksAssumption
  <1> QED
    BY <1>1 DEF WriteAt, Prefix

\* A prefix as long as the pickle is the pickle; the empty one is what
\* truncation leaves.
LEMMA PrefixEnds ==
  ASSUME NEW s
  PROVE  /\ Prefix(Blocks, s) = Whole(s)
         /\ Prefix(0, s) = [n \in 1 .. Blocks |-> Missing]
BY BlocksAssumption DEF Prefix, Whole

\* A file that has blocks is not the absent file.
LEMMA ContentExists == \A c \in Content : c # NoFile
BY DistinctAssumption DEF Content

\* The content after a write is again a content.
LEMMA WriteAtType ==
  ASSUME NEW c \in Content, NEW i \in 1 .. Blocks, NEW s \in States
  PROVE  WriteAt(c, i, s) \in Content
BY DEF WriteAt, Content

-----------------------------------------------------------------------------
LEMMA InitInv == Init => Inv
BY DistinctAssumption, BlocksAssumption
DEF Init, Inv, TypeOK, FileIsPrefix, Exists, Idle

\* Every step keeps the types.
LEMMA NextTypeOK == TypeOK /\ (\A k \in Keys : FileIsPrefix(k)) /\ [Next]_storeVars => TypeOK'
PROOF
  <1> SUFFICES ASSUME TypeOK, \A k \in Keys : FileIsPrefix(k), [Next]_storeVars
               PROVE  TypeOK'
    OBVIOUS
  <1> USE BlocksAssumption, DistinctAssumption DEF TypeOK
  <1>1. ASSUME NEW d \in Savers, NEW k \in Keys, NEW s \in States, Open(d, k, s)
        PROVE  TypeOK'
    <2>1. [n \in 1 .. Blocks |-> Missing] \in Content
      BY DEF Content
    <2> QED
      BY <1>1, <2>1 DEF Open
  <1>2. ASSUME NEW d \in Savers, WriteBlock(d)
        PROVE  TypeOK'
    <2>1. /\ saver[d].key \in Keys /\ saver[d].state \in States
          /\ saver[d].wrote + 1 \in 1 .. Blocks
      BY <1>2 DEF WriteBlock, Saving
    <2>2. files[saver[d].key] \in Content
      BY <2>1 DEF FileIsPrefix, Exists
    <2>3. WriteAt(files[saver[d].key], saver[d].wrote + 1, saver[d].state) \in Content
      BY <2>1, <2>2, WriteAtType
    <2> QED
      BY <1>2, <2>1, <2>3 DEF WriteBlock
  <1>3. ASSUME NEW d \in Savers, Close(d)
        PROVE  TypeOK'
    BY <1>3 DEF Close, Idle
  <1>4. ASSUME NEW d \in Savers, Abandon(d)
        PROVE  TypeOK'
    BY <1>4 DEF Abandon, Idle, Saving
  <1>5. CASE UNCHANGED storeVars
    BY <1>5 DEF storeVars
  <1> QED
    BY <1>1, <1>2, <1>3, <1>4, <1>5 DEF Next

\* A step of a saver of k leaves the file a prefix, or marks the overlap; a
\* step of a saver of another key leaves the file of k alone.
LEMMA NextFileIsPrefix ==
  Inv /\ [Next]_storeVars => \A k \in Keys : FileIsPrefix(k)'
PROOF
  <1> SUFFICES ASSUME Inv, [Next]_storeVars, NEW k \in Keys
               PROVE  FileIsPrefix(k)'
    OBVIOUS
  <1>0. TypeOK /\ FileIsPrefix(k) /\ TypeOK'
    BY NextTypeOK DEF Inv
  <1>1. ASSUME NEW d \in Savers, NEW l \in Keys, NEW s \in States, Open(d, l, s)
        PROVE  FileIsPrefix(k)'
    <2>1. \A e \in Savers : saver'[e] =
            IF e = d THEN [key |-> l, state |-> s, wrote |-> 0] ELSE saver[e]
      BY <1>0, <1>1 DEF Open, TypeOK
    <2>2. saver[d].key = Nobody /\ Nobody \notin Keys
      BY <1>1, DistinctAssumption DEF Open, Saving
    <2>3. CASE l # k
      <3>1. /\ files'[k] = files[k] /\ damage'[k] = damage[k]
            /\ latest'[k] = latest[k]
        BY <1>0, <1>1, <2>3 DEF Open, TypeOK
      <3>2. \A e \in Savers : saver'[e].key = k <=> saver[e].key = k
        BY <2>1, <2>2, <2>3
      <3>3. \A e \in Savers : saver'[e].key = k => saver'[e] = saver[e]
        BY <2>1, <2>3
      <3> QED
        BY <1>0, <3>1, <3>2, <3>3 DEF FileIsPrefix, Exists
    <2>4. CASE l = k
      <3>1. /\ files'[k] = Prefix(0, s) /\ latest'[k] = s
            /\ damage'[k] = IF \E e \in Savers : saver[e].key = k
                              THEN "overlap" ELSE "none"
        BY <1>0, <1>1, <2>4, PrefixEnds DEF Open, TypeOK
      <3>2. files'[k] # NoFile
        BY <3>1, DistinctAssumption DEF Prefix
      <3>3. damage'[k] # "overlap" =>
              /\ damage'[k] = "none"
              /\ \A e \in Savers : saver'[e].key = k => e = d
        BY <3>1, <2>1
      <3>4. 0 \in 0 .. Blocks
        BY BlocksAssumption
      <3> QED
        BY <2>1, <2>4, <3>1, <3>2, <3>3, <3>4 DEF FileIsPrefix, Exists
    <2> QED
      BY <2>3, <2>4
  <1>2. ASSUME NEW d \in Savers, WriteBlock(d)
        PROVE  FileIsPrefix(k)'
    <2> DEFINE i == saver[d].wrote + 1
    <2>1. /\ saver[d].key \in Keys /\ saver[d].state \in States
          /\ saver[d].wrote \in 0 .. Blocks /\ i <= Blocks /\ i \in 0 .. Blocks
      BY <1>0, <1>2, BlocksAssumption, DistinctAssumption
      DEF WriteBlock, Saving, TypeOK
    <2>2. /\ \A e \in Savers : /\ saver'[e].key = saver[e].key
                               /\ saver'[e].state = saver[e].state
                               /\ e # d => saver'[e] = saver[e]
          /\ saver'[d].wrote = i
          /\ UNCHANGED <<damage, latest>>
      BY <1>0, <1>2 DEF WriteBlock, TypeOK
    <2>3. CASE saver[d].key # k
      <3>1. files'[k] = files[k]
        BY <1>0, <1>2, <2>3 DEF WriteBlock, TypeOK
      <3>2. \A e \in Savers : saver'[e].key = k => saver'[e] = saver[e]
        BY <2>2, <2>3
      <3> QED
        BY <1>0, <2>2, <3>1, <3>2 DEF FileIsPrefix, Exists
    <2>4. CASE saver[d].key = k
      <3>1. files'[k] = WriteAt(files[k], i, saver[d].state)
        BY <1>0, <1>2, <2>4 DEF WriteBlock, TypeOK
      <3>2. Exists(k) /\ latest[k] \in States
        BY <1>0, <2>4 DEF FileIsPrefix
      <3>3. files[k] \in Content
        BY <1>0, <3>2 DEF TypeOK, Exists
      <3>4. files'[k] # NoFile
        BY <2>1, <3>1, <3>3, WriteAtType, ContentExists, BlocksAssumption
      <3>5. ASSUME damage[k] # "overlap"
            PROVE  /\ files'[k] = Prefix(i, saver[d].state)
                   /\ latest[k] = saver[d].state
                   /\ \A e \in Savers : saver[e].key = k => e = d
        BY <1>0, <2>1, <2>4, <3>1, <3>5, WriteExtendsPrefix DEF FileIsPrefix
      <3> HIDE DEF i
      <3>6. ASSUME damage[k] # "overlap"
            PROVE  damage[k] = "none"
        BY <1>0, <2>4, <3>6 DEF FileIsPrefix
      <3> QED
        BY <2>1, <2>2, <2>4, <3>2, <3>4, <3>5, <3>6 DEF FileIsPrefix, Exists
    <2> QED
      BY <2>3, <2>4
  <1>3. ASSUME NEW d \in Savers, Close(d)
        PROVE  FileIsPrefix(k)'
    <2>1. /\ \A e \in Savers : saver'[e] = IF e = d THEN Idle ELSE saver[e]
          /\ UNCHANGED <<files, damage, latest>>
          /\ saver[d].wrote = Blocks
      BY <1>0, <1>3 DEF Close, TypeOK
    <2>2. \A e \in Savers : saver'[e].key = k => e # d
      BY <2>1, DistinctAssumption DEF Idle
    <2>3. CASE saver[d].key # k
      BY <1>0, <2>1, <2>2, <2>3 DEF FileIsPrefix, Exists
    <2>4. CASE saver[d].key = k
      <3>1. damage[k] # "overlap" => files[k] = Whole(latest[k])
        BY <1>0, <2>1, <2>4, PrefixEnds DEF FileIsPrefix
      <3> QED
        BY <1>0, <2>1, <2>2, <3>1 DEF FileIsPrefix, Exists
    <2> QED
      BY <2>3, <2>4
  <1>4. ASSUME NEW d \in Savers, Abandon(d)
        PROVE  FileIsPrefix(k)'
    <2>1. /\ \A e \in Savers : saver'[e] = IF e = d THEN Idle ELSE saver[e]
          /\ UNCHANGED <<files, latest>>
          /\ damage'[k] = IF saver[d].key = k /\ damage[k] # "overlap"
                            THEN "cut" ELSE damage[k]
      BY <1>0, <1>4 DEF Abandon, TypeOK
    <2>2. \A e \in Savers : saver'[e].key = k => e # d
      BY <2>1, DistinctAssumption DEF Idle
    <2>3. CASE saver[d].key # k
      BY <1>0, <2>1, <2>2, <2>3 DEF FileIsPrefix, Exists
    <2>4. CASE saver[d].key = k
      <3>1. damage[k] # "overlap" =>
              damage'[k] = "cut" /\ \A e \in Savers : saver'[e].key # k
        BY <1>0, <2>1, <2>2, <2>4 DEF FileIsPrefix
      <3> QED
        BY <1>0, <2>1, <2>2, <2>4, <3>1 DEF FileIsPrefix, Exists
    <2> QED
      BY <2>3, <2>4
  <1>5. CASE UNCHANGED storeVars
    BY <1>0, <1>5 DEF storeVars, FileIsPrefix, Exists
  <1> QED
    BY <1>1, <1>2, <1>3, <1>4, <1>5 DEF Next

-----------------------------------------------------------------------------
\* Every reachable state satisfies Inv.
THEOREM StoreInvariance == Spec => []Inv
PROOF
  <1>1. Inv /\ [Next]_storeVars => Inv'
    BY NextTypeOK, NextFileIsPrefix DEF Inv
  <1> QED
    BY InitInv, <1>1, PTL DEF Spec

\* The store keeps its types.
THEOREM StoreTypeCorrect == Spec => []TypeOK
PROOF
  <1>1. Inv => TypeOK
    BY DEF Inv
  <1> QED
    BY <1>1, StoreInvariance, PTL

\* A save that runs alone and to its end is read back.
THEOREM LoneSaveIsReadBack == Spec => []IntactUnlessDamaged
PROOF
  <1>1. Inv => IntactUnlessDamaged
    BY DEF Inv, FileIsPrefix, IntactUnlessDamaged
  <1> QED
    BY <1>1, StoreInvariance, PTL

\* Without overlapping saves of a key, load returns a saved state or raises.
THEOREM CrashesNeverMix == Spec => []MixedOnlyByOverlap
PROOF
  <1>1. Inv => MixedOnlyByOverlap
    <2> SUFFICES ASSUME Inv, NEW k \in Keys, damage[k] # "overlap", Exists(k)
                 PROVE  /\ ~Mixed(k)
                        /\ \A n \in 1 .. Blocks : files[k][n] # Hole
      BY DEF MixedOnlyByOverlap, Mixed
    <2>1. PICK n \in 0 .. Blocks : files[k] = Prefix(n, latest[k])
      BY DEF Inv, FileIsPrefix
    <2>2. latest[k] \in States
      BY DEF Inv, FileIsPrefix
    <2>3. \A i \in 1 .. Blocks : files[k][i] \in {latest[k], Missing}
      BY <2>1 DEF Prefix
    <2> QED
      BY <2>2, <2>3, DistinctAssumption DEF Mixed
  <1> QED
    BY <1>1, StoreInvariance, PTL
=============================================================================
