------------------------ MODULE FifoSchedulerProofs -------------------------
(***************************************************************************)
(* Theorems about FifoScheduler, for every set of job ids, of clients and  *)
(* of workers.                                                             *)
(*                                                                         *)
(* The safety properties are not inductive one by one.  That a popped job  *)
(* reads QUEUED needs to know that submit published the status before the  *)
(* append, which is a fact about the clients inside submit; that a status  *)
(* of one job is never changed for another needs to know that no id is in  *)
(* two places.  Inv collects these facts.                                  *)
(***************************************************************************)
EXTENDS FifoScheduler, SequenceTheorems, TLAPS

\* What is appended was published first.
Published ==
  \A i \in DOMAIN appended :
    appended[i] \in jobs /\ statuses[appended[i]] # "absent"

\* How far a client has come with the id it was given.
ClientProgress(c) ==
  submitter[c].pc # "idle" =>
    /\ submitter[c].job \in issued
    /\ \A i \in DOMAIN appended : appended[i] # submitter[c].job
    /\ submitter[c].pc # "append" => statuses[submitter[c].job] = "absent"
    /\ submitter[c].pc # "store_job" => submitter[c].job \in jobs
    /\ submitter[c].pc = "append" =>
         /\ statuses[submitter[c].job] = "first"
         /\ first[submitter[c].job] = "queued"

\* Every client inside submit has an id of its own.
SubmitProgress ==
  /\ \A c \in Clients : ClientProgress(c)
  /\ \A c, d \in Clients :
       c # d /\ submitter[c].job # NoJob => submitter[c].job # submitter[d].job

\* Which of the two objects of a job is stored tells whether it has ended.
Objects ==
  \A j \in JobIds :
    /\ statuses[j] # "absent" => j \in jobs
    /\ statuses[j] = "final" <=> Ended(j)
    /\ statuses[j] = "final" => first[j] = "running"

\* A worker got its job from popleft.
HeldWasPopped ==
  \A w \in Workers : runner[w].job # NoJob =>
    \E i \in DOMAIN popped : popped[i] = runner[w].job

\* The inductive invariant.
Inv ==
  /\ TypeOK
  /\ NoneLostNorReordered
  /\ StatusMatchesPosition
  /\ Published
  /\ SubmitProgress
  /\ Objects
  /\ HeldWasPopped

-----------------------------------------------------------------------------
(* Sequences.                                                              *)

\* popleft moves the boundary between what was popped and what is queued,
\* and nothing else.
LEMMA PopKeepsTheLog ==
  ASSUME NEW S, NEW p \in Seq(S), NEW q \in Seq(S), q # <<>>
  PROVE  /\ Append(p, Head(q)) \o Tail(q) = p \o q
         /\ Append(p, Head(q)) \in Seq(S)
         /\ Tail(q) \in Seq(S)
         /\ Head(q) \in S
PROOF
  <1>1. Head(q) \in S /\ Tail(q) \in Seq(S) /\ Len(Tail(q)) = Len(q) - 1
        /\ \A i \in 1 .. Len(Tail(q)) : Tail(q)[i] = q[i + 1]
    BY HeadTailProperties
  <1>2. /\ Append(p, Head(q)) \in Seq(S)
        /\ Len(Append(p, Head(q))) = Len(p) + 1
        /\ \A i \in 1 .. Len(p) : Append(p, Head(q))[i] = p[i]
        /\ Append(p, Head(q))[Len(p) + 1] = Head(q)
    BY <1>1, AppendProperties
  <1> DEFINE a == Append(p, Head(q))
             l == a \o Tail(q)
             r == p \o q
  <1>3. Len(p) \in Nat /\ Len(q) \in Nat \ {0}
    BY LenProperties, EmptySeq
  <1>4. /\ l \in Seq(S) /\ Len(l) = Len(a) + Len(Tail(q))
        /\ \A i \in 1 .. Len(a) + Len(Tail(q)) :
             l[i] = IF i <= Len(a) THEN a[i] ELSE Tail(q)[i - Len(a)]
    BY <1>1, <1>2, ConcatProperties
  <1>5. /\ r \in Seq(S) /\ Len(r) = Len(p) + Len(q)
        /\ \A i \in 1 .. Len(p) + Len(q) :
             r[i] = IF i <= Len(p) THEN p[i] ELSE q[i - Len(p)]
    BY ConcatProperties
  <1>6. Head(q) = q[1]
    OBVIOUS
  <1> HIDE DEF a, l, r
  <1>7. Len(l) = Len(r)
    BY <1>1, <1>2, <1>3, <1>4, <1>5 DEF a
  <1>8. ASSUME NEW i \in 1 .. Len(l) PROVE l[i] = r[i]
    <2>1. CASE i <= Len(p)
      BY <2>1, <1>1, <1>2, <1>3, <1>4, <1>5, <1>7 DEF a
    <2>2. CASE i = Len(p) + 1
      BY <2>2, <1>1, <1>2, <1>3, <1>4, <1>5, <1>6, <1>7 DEF a
    <2>3. CASE i > Len(p) + 1
      <3>1. i - (Len(p) + 1) \in 1 .. Len(Tail(q))
        BY <2>3, <1>1, <1>2, <1>3, <1>4, <1>7 DEF a
      <3>2. l[i] = Tail(q)[i - (Len(p) + 1)]
        BY <2>3, <1>2, <1>3, <1>4 DEF a
      <3>3. Tail(q)[i - (Len(p) + 1)] = q[i - (Len(p) + 1) + 1]
        BY <3>1, <1>1
      <3>4. r[i] = q[i - Len(p)]
        BY <2>3, <1>3, <1>5, <1>7
      <3>5. i - (Len(p) + 1) + 1 = i - Len(p)
        BY <1>1, <1>2, <1>3, <1>4 DEF a
      <3> QED
        BY <3>2, <3>3, <3>4, <3>5
    <2>4. i \in Int
      BY <1>1, <1>2, <1>3, <1>4 DEF a
    <2> QED
      BY <2>1, <2>2, <2>3, <2>4, <1>3
  <1>9. l = r
    BY <1>4, <1>5, <1>7, <1>8, SeqEqual
  <1> QED
    BY <1>1, <1>2, <1>9 DEF l, r, a

\* Where the popped and the queued ids are in the log, and that no id is
\* both popped and queued or queued twice.
LEMMA Positions ==
  ASSUME TypeOK, NoneLostNorReordered
  PROVE  /\ DOMAIN appended = 1 .. Len(appended)
         /\ DOMAIN popped = 1 .. Len(popped)
         /\ DOMAIN queue = 1 .. Len(queue)
         /\ Len(popped) \in Nat /\ Len(queue) \in Nat
         /\ Len(appended) = Len(popped) + Len(queue)
         /\ \A i \in DOMAIN popped :
              i \in DOMAIN appended /\ appended[i] = popped[i]
         /\ \A k \in DOMAIN queue :
              Len(popped) + k \in DOMAIN appended
                /\ appended[Len(popped) + k] = queue[k]
         /\ \A i \in DOMAIN popped, k \in DOMAIN queue : popped[i] # queue[k]
         /\ \A k, l \in DOMAIN queue : queue[k] = queue[l] => k = l
PROOF
  <1>1. /\ popped \in Seq(JobIds) /\ queue \in Seq(JobIds)
        /\ appended \in Seq(JobIds) /\ appended = popped \o queue
        /\ \A a, b \in DOMAIN appended : appended[a] = appended[b] => a = b
    BY DEF TypeOK, NoneLostNorReordered
  <1>2. /\ Len(popped) \in Nat /\ Len(queue) \in Nat
        /\ DOMAIN appended = 1 .. Len(appended)
        /\ DOMAIN popped = 1 .. Len(popped)
        /\ DOMAIN queue = 1 .. Len(queue)
    BY <1>1, LenProperties
  <1>3. /\ Len(appended) = Len(popped) + Len(queue)
        /\ \A i \in 1 .. Len(popped) + Len(queue) : appended[i] =
             IF i <= Len(popped) THEN popped[i] ELSE queue[i - Len(popped)]
    BY <1>1, ConcatProperties
  <1>4. \A i \in DOMAIN popped : i \in DOMAIN appended /\ appended[i] = popped[i]
    BY <1>2, <1>3
  <1>5. ASSUME NEW k \in DOMAIN queue
        PROVE  Len(popped) + k \in DOMAIN appended
                 /\ appended[Len(popped) + k] = queue[k]
    <2>1. Len(popped) + k \in 1 .. Len(popped) + Len(queue)
          /\ ~(Len(popped) + k <= Len(popped)) /\ Len(popped) + k - Len(popped) = k
      BY <1>2
    <2> QED
      BY <2>1, <1>2, <1>3
  <1>6. ASSUME NEW i \in DOMAIN popped, NEW k \in DOMAIN queue
        PROVE  popped[i] # queue[k]
    <2>1. i # Len(popped) + k
      BY <1>2
    <2>2. appended[i] # appended[Len(popped) + k]
      BY <2>1, <1>1, <1>4, <1>5
    <2> QED
      BY <2>2, <1>4, <1>5
  <1>7. ASSUME NEW k \in DOMAIN queue, NEW l \in DOMAIN queue, queue[k] = queue[l]
        PROVE  k = l
    <2>1. appended[Len(popped) + k] = appended[Len(popped) + l]
      BY <1>5, <1>7
    <2>2. Len(popped) + k = Len(popped) + l
      BY <2>1, <1>1, <1>5
    <2> QED
      BY <2>2, <1>2
  <1> QED
    BY <1>2, <1>3, <1>4, <1>5, <1>6, <1>7

-----------------------------------------------------------------------------
(* Type correctness.                                                       *)

LEMMA InitInv == Init => Inv
PROOF
  <1> SUFFICES ASSUME Init PROVE Inv
    OBVIOUS
  <1> USE NoJobAssumption DEF Init
  <1>1. TypeOK
    BY DEF TypeOK, SubmitPC, RunPC, Outcomes
  <1>2. NoneLostNorReordered
    <2>1. <<>> \o <<>> = <<>>
      BY EmptySeq, ConcatEmptySeq
    <2> QED
      BY <2>1 DEF NoneLostNorReordered
  <1>3. StatusMatchesPosition
    BY DEF StatusMatchesPosition, QueuedReadsQueued, HeldReadsItsPhase, HeldOnce,
           EndedWasRun, Ended
  <1> QED
    BY <1>1, <1>2, <1>3
    DEF Inv, Published, SubmitProgress, ClientProgress, Objects, HeldWasPopped, Ended

\* Every step keeps the types.  This needs more than TypeOK: that a job is
\* stored under an issued id is a fact about the clients, and that a handle
\* is an object, not "absent", is a fact about what was published.
LEMMA NextTypeOK == Inv /\ [Next]_vars => TypeOK'
PROOF
  <1> SUFFICES ASSUME Inv, [Next]_vars PROVE TypeOK'
    OBVIOUS
  <1>0. TypeOK /\ SubmitProgress /\ Published
    BY DEF Inv
  <1> USE NoJobAssumption DEF TypeOK, SubmitPC, RunPC, Outcomes
  <1>1. ASSUME NEW c \in Clients, NEW j \in JobIds, SubmitBuild(c, j)
        PROVE  TypeOK'
    BY <1>0, <1>1 DEF SubmitBuild
  <1>2. ASSUME NEW c \in Clients, NEW j \in JobIds, SubmitRaises(c, j)
        PROVE  TypeOK'
    BY <1>0, <1>2 DEF SubmitRaises
  <1>3. ASSUME NEW c \in Clients, SubmitStoreJob(c)
        PROVE  TypeOK'
    BY <1>0, <1>3 DEF SubmitStoreJob, SubmitProgress, ClientProgress
  <1>4. ASSUME NEW c \in Clients, SubmitStoreStatus(c)
        PROVE  TypeOK'
    BY <1>0, <1>4 DEF SubmitStoreStatus
  <1>5. ASSUME NEW c \in Clients, SubmitAppend(c)
        PROVE  TypeOK'
    BY <1>0, <1>5 DEF SubmitAppend
  <1>6. ASSUME NEW w \in Workers, RunCheck(w)
        PROVE  TypeOK'
    BY <1>0, <1>6 DEF RunCheck
  <1>7. ASSUME NEW w \in Workers, RunPop(w)
        PROVE  TypeOK'
    <2>1. /\ Append(popped, Head(queue)) \in Seq(JobIds)
          /\ Tail(queue) \in Seq(JobIds) /\ Head(queue) \in JobIds
      BY <1>0, <1>7, PopKeepsTheLog DEF RunPop
    <2> QED
      BY <1>0, <2>1, <1>7 DEF RunPop
  <1>8. ASSUME NEW w \in Workers, RunPopRaises(w)
        PROVE  TypeOK'
    BY <1>0, <1>8 DEF RunPopRaises
  <1>9. ASSUME NEW w \in Workers, RunMark(w)
        PROVE  TypeOK'
    BY <1>0, <1>9 DEF RunMark
  <1>10. ASSUME NEW w \in Workers, NEW o \in Outcomes, RunEnd(w, o)
         PROVE  TypeOK'
    BY <1>0, <1>10 DEF RunEnd
  <1>11. ASSUME NEW w \in Workers, RunInterrupted(w)
         PROVE  TypeOK'
    BY <1>0, <1>11 DEF RunInterrupted
  <1>12. ASSUME NEW j \in JobIds, Status(j)
         PROVE  TypeOK'
    BY <1>0, <1>12 DEF Status, Published
  <1>13. CASE UNCHANGED vars
    BY <1>0, <1>13 DEF vars
  <1> QED
    BY <1>1, <1>2, <1>3, <1>4, <1>5, <1>6, <1>7, <1>8, <1>9, <1>10, <1>11,
       <1>12, <1>13 DEF Next, Submit, InsideRunNext

\* What SubmitAppend does to the log and to the queue, position by position.
LEMMA AppendEffect ==
  ASSUME Inv, NEW c \in Clients, SubmitAppend(c)
  PROVE  /\ submitter[c].job \in JobIds
         /\ DOMAIN appended = 1 .. Len(appended) /\ Len(appended) \in Nat
         /\ DOMAIN appended' = 1 .. Len(appended) + 1
         /\ appended'[Len(appended) + 1] = submitter[c].job
         /\ \A i \in DOMAIN appended : appended'[i] = appended[i]
         /\ DOMAIN queue = 1 .. Len(queue) /\ Len(queue) \in Nat
         /\ DOMAIN queue' = 1 .. Len(queue) + 1
         /\ queue'[Len(queue) + 1] = submitter[c].job
         /\ \A i \in DOMAIN queue : queue'[i] = queue[i]
PROOF
  <1>1. submitter[c].job \in JobIds
    BY NoJobAssumption DEF Inv, TypeOK, SubmitAppend
  <1>2. /\ appended \in Seq(JobIds) /\ appended' = Append(appended, submitter[c].job)
        /\ queue \in Seq(JobIds) /\ queue' = Append(queue, submitter[c].job)
    BY DEF Inv, TypeOK, SubmitAppend
  <1>3. /\ DOMAIN appended = 1 .. Len(appended) /\ Len(appended) \in Nat
        /\ DOMAIN queue = 1 .. Len(queue) /\ Len(queue) \in Nat
    BY <1>2, LenProperties
  <1>4. /\ appended' \in Seq(JobIds) /\ Len(appended') = Len(appended) + 1
        /\ \A i \in 1 .. Len(appended) : appended'[i] = appended[i]
        /\ appended'[Len(appended) + 1] = submitter[c].job
    BY <1>1, <1>2, AppendProperties
  <1>5. /\ queue' \in Seq(JobIds) /\ Len(queue') = Len(queue) + 1
        /\ \A i \in 1 .. Len(queue) : queue'[i] = queue[i]
        /\ queue'[Len(queue) + 1] = submitter[c].job
    BY <1>1, <1>2, AppendProperties
  <1>6. DOMAIN appended' = 1 .. Len(appended') /\ DOMAIN queue' = 1 .. Len(queue')
    BY <1>4, <1>5, LenProperties
  <1> QED
    BY <1>1, <1>3, <1>4, <1>5, <1>6

\* What RunPop does to the queue and to the history, position by position.
LEMMA PopEffect ==
  ASSUME Inv, NEW w \in Workers, RunPop(w)
  PROVE  /\ Head(queue) \in JobIds
         /\ DOMAIN queue = 1 .. Len(queue) /\ Len(queue) \in Nat \ {0}
         /\ Head(queue) = queue[1]
         /\ DOMAIN queue' = 1 .. Len(queue) - 1
         /\ \A i \in DOMAIN queue' : i + 1 \in DOMAIN queue /\ queue'[i] = queue[i + 1]
         /\ DOMAIN popped = 1 .. Len(popped) /\ Len(popped) \in Nat
         /\ DOMAIN popped' = 1 .. Len(popped) + 1
         /\ popped'[Len(popped) + 1] = Head(queue)
         /\ \A i \in DOMAIN popped : popped'[i] = popped[i]
PROOF
  <1>1. /\ popped \in Seq(JobIds) /\ popped' = Append(popped, Head(queue))
        /\ queue \in Seq(JobIds) /\ queue # <<>> /\ queue' = Tail(queue)
    BY DEF Inv, TypeOK, RunPop
  <1>2. /\ Head(queue) \in JobIds /\ queue' \in Seq(JobIds)
        /\ Len(queue') = Len(queue) - 1
        /\ \A i \in 1 .. Len(queue') : queue'[i] = queue[i + 1]
    BY <1>1, HeadTailProperties
  <1>3. /\ DOMAIN queue = 1 .. Len(queue) /\ Len(queue) \in Nat \ {0}
        /\ DOMAIN popped = 1 .. Len(popped) /\ Len(popped) \in Nat
        /\ DOMAIN queue' = 1 .. Len(queue')
    BY <1>1, <1>2, LenProperties, EmptySeq
  <1>4. /\ popped' \in Seq(JobIds) /\ Len(popped') = Len(popped) + 1
        /\ \A i \in 1 .. Len(popped) : popped'[i] = popped[i]
        /\ popped'[Len(popped) + 1] = Head(queue)
    BY <1>1, <1>2, AppendProperties
  <1>5. DOMAIN popped' = 1 .. Len(popped')
    BY <1>4, LenProperties
  <1>6. Head(queue) = queue[1]
    BY <1>1
  <1>7. \A i \in DOMAIN queue' : i + 1 \in DOMAIN queue
    BY <1>2, <1>3
  <1> QED
    BY <1>2, <1>3, <1>4, <1>5, <1>6, <1>7

\* submit stores the job and the status before it appends the id.
LEMMA NextPublished == Inv /\ [Next]_vars => Published'
PROOF
  <1> SUFFICES ASSUME Inv, [Next]_vars PROVE Published'
    OBVIOUS
  <1>0. /\ TypeOK /\ NoneLostNorReordered /\ StatusMatchesPosition
        /\ Published /\ SubmitProgress /\ Objects /\ HeldWasPopped
    BY DEF Inv
  <1> USE NoJobAssumption, <1>0 DEF TypeOK, SubmitPC, RunPC, Outcomes, Published
  <1>1. ASSUME NEW c \in Clients, NEW j \in JobIds,
               SubmitBuild(c, j)
         PROVE  Published'
    BY <1>1 DEF SubmitBuild
  <1>2. ASSUME NEW c \in Clients, NEW j \in JobIds,
               SubmitRaises(c, j)
         PROVE  Published'
    BY <1>2 DEF SubmitRaises
  <1>3. ASSUME NEW c \in Clients,
               SubmitStoreJob(c)
         PROVE  Published'
    BY <1>3 DEF SubmitStoreJob
  <1>4. ASSUME NEW c \in Clients,
               SubmitStoreStatus(c)
         PROVE  Published'
    BY <1>4 DEF SubmitStoreStatus
  <1>5. ASSUME NEW c \in Clients,
               SubmitAppend(c)
         PROVE  Published'
    <2>1. /\ submitter[c].job \in jobs /\ statuses[submitter[c].job] = "first"
          /\ submitter[c].job \in JobIds
      BY <1>5 DEF SubmitAppend, SubmitProgress, ClientProgress
    <2> QED
      BY <2>1, <1>5, AppendEffect DEF SubmitAppend
  <1>6. ASSUME NEW w \in Workers,
               RunCheck(w)
         PROVE  Published'
    BY <1>6 DEF RunCheck
  <1>7. ASSUME NEW w \in Workers,
               RunPop(w)
         PROVE  Published'
    BY <1>7 DEF RunPop
  <1>8. ASSUME NEW w \in Workers,
               RunPopRaises(w)
         PROVE  Published'
    BY <1>8 DEF RunPopRaises
  <1>9. ASSUME NEW w \in Workers,
               RunMark(w)
         PROVE  Published'
    BY <1>9 DEF RunMark
  <1>10. ASSUME NEW w \in Workers, NEW o \in Outcomes,
               RunEnd(w, o)
         PROVE  Published'
    BY <1>10 DEF RunEnd
  <1>11. ASSUME NEW w \in Workers,
               RunInterrupted(w)
         PROVE  Published'
    BY <1>11 DEF RunInterrupted
  <1>12. ASSUME NEW j \in JobIds,
               Status(j)
         PROVE  Published'
    BY <1>12 DEF Status
  <1>13. CASE UNCHANGED vars
    BY <1>13 DEF vars
  <1> QED
    BY <1>1, <1>2, <1>3, <1>4, <1>5, <1>6, <1>7, <1>8, <1>9, <1>10, <1>11,
       <1>12, <1>13 DEF Next, Submit, InsideRunNext

\* popleft is the only way to a job.
LEMMA NextHeldWasPopped == Inv /\ [Next]_vars => HeldWasPopped'
PROOF
  <1> SUFFICES ASSUME Inv, [Next]_vars PROVE HeldWasPopped'
    OBVIOUS
  <1>0. /\ TypeOK /\ NoneLostNorReordered /\ StatusMatchesPosition
        /\ Published /\ SubmitProgress /\ Objects /\ HeldWasPopped
    BY DEF Inv
  <1> USE NoJobAssumption, <1>0 DEF TypeOK, SubmitPC, RunPC, Outcomes, HeldWasPopped
  <1>1. ASSUME NEW c \in Clients, NEW j \in JobIds,
               SubmitBuild(c, j)
         PROVE  HeldWasPopped'
    BY <1>1 DEF SubmitBuild
  <1>2. ASSUME NEW c \in Clients, NEW j \in JobIds,
               SubmitRaises(c, j)
         PROVE  HeldWasPopped'
    BY <1>2 DEF SubmitRaises
  <1>3. ASSUME NEW c \in Clients,
               SubmitStoreJob(c)
         PROVE  HeldWasPopped'
    BY <1>3 DEF SubmitStoreJob
  <1>4. ASSUME NEW c \in Clients,
               SubmitStoreStatus(c)
         PROVE  HeldWasPopped'
    BY <1>4 DEF SubmitStoreStatus
  <1>5. ASSUME NEW c \in Clients,
               SubmitAppend(c)
         PROVE  HeldWasPopped'
    BY <1>5 DEF SubmitAppend
  <1>6. ASSUME NEW w \in Workers,
               RunCheck(w)
         PROVE  HeldWasPopped'
    BY <1>6 DEF RunCheck
  <1>7. ASSUME NEW w \in Workers,
               RunPop(w)
         PROVE  HeldWasPopped'
    <2> SUFFICES ASSUME NEW v \in Workers, runner'[v].job # NoJob
                 PROVE  \E i \in DOMAIN popped' : popped'[i] = runner'[v].job
      OBVIOUS
    <2>1. CASE v = w
      <3>1. /\ runner'[v].job = Head(queue)
            /\ Len(popped) + 1 \in DOMAIN popped'
            /\ popped'[Len(popped) + 1] = Head(queue)
        BY <2>1, <1>7, PopEffect DEF RunPop
      <3> QED
        BY <3>1
    <2>2. CASE v # w
      <3>1. runner'[v].job = runner[v].job
        BY <2>2, <1>7 DEF RunPop
      <3>2. PICK i \in DOMAIN popped : popped[i] = runner[v].job
        BY <3>1
      <3>3. i \in DOMAIN popped' /\ popped'[i] = popped[i]
        BY <1>7, PopEffect
      <3> QED
        BY <3>1, <3>2, <3>3
    <2> QED
      BY <2>1, <2>2
  <1>8. ASSUME NEW w \in Workers,
               RunPopRaises(w)
         PROVE  HeldWasPopped'
    BY <1>8 DEF RunPopRaises
  <1>9. ASSUME NEW w \in Workers,
               RunMark(w)
         PROVE  HeldWasPopped'
    BY <1>9 DEF RunMark
  <1>10. ASSUME NEW w \in Workers, NEW o \in Outcomes,
               RunEnd(w, o)
         PROVE  HeldWasPopped'
    BY <1>10 DEF RunEnd
  <1>11. ASSUME NEW w \in Workers,
               RunInterrupted(w)
         PROVE  HeldWasPopped'
    BY <1>11 DEF RunInterrupted
  <1>12. ASSUME NEW j \in JobIds,
               Status(j)
         PROVE  HeldWasPopped'
    BY <1>12 DEF Status
  <1>13. CASE UNCHANGED vars
    BY <1>13 DEF vars
  <1> QED
    BY <1>1, <1>2, <1>3, <1>4, <1>5, <1>6, <1>7, <1>8, <1>9, <1>10, <1>11,
       <1>12, <1>13 DEF Next, Submit, InsideRunNext

\* The second object is stored exactly when the job ends.
LEMMA NextObjects == Inv /\ [Next]_vars => Objects'
PROOF
  <1> SUFFICES ASSUME Inv, [Next]_vars PROVE Objects'
    OBVIOUS
  <1>0. /\ TypeOK /\ NoneLostNorReordered /\ StatusMatchesPosition
        /\ Published /\ SubmitProgress /\ Objects /\ HeldWasPopped
    BY DEF Inv
  <1> USE NoJobAssumption, <1>0 DEF TypeOK, SubmitPC, RunPC, Outcomes, Objects, Ended
  <1>1. ASSUME NEW c \in Clients, NEW j \in JobIds,
               SubmitBuild(c, j)
         PROVE  Objects'
    BY <1>1 DEF SubmitBuild
  <1>2. ASSUME NEW c \in Clients, NEW j \in JobIds,
               SubmitRaises(c, j)
         PROVE  Objects'
    BY <1>2 DEF SubmitRaises
  <1>3. ASSUME NEW c \in Clients,
               SubmitStoreJob(c)
         PROVE  Objects'
    BY <1>3 DEF SubmitStoreJob
  <1>4. ASSUME NEW c \in Clients,
               SubmitStoreStatus(c)
         PROVE  Objects'
    <2>1. /\ submitter[c].job \in JobIds \cap jobs
          /\ statuses[submitter[c].job] = "absent"
      BY <1>4 DEF SubmitStoreStatus, SubmitProgress, ClientProgress
    <2> QED
      BY <2>1, <1>4 DEF SubmitStoreStatus
  <1>5. ASSUME NEW c \in Clients,
               SubmitAppend(c)
         PROVE  Objects'
    BY <1>5 DEF SubmitAppend
  <1>6. ASSUME NEW w \in Workers,
               RunCheck(w)
         PROVE  Objects'
    BY <1>6 DEF RunCheck
  <1>7. ASSUME NEW w \in Workers,
               RunPop(w)
         PROVE  Objects'
    BY <1>7 DEF RunPop
  <1>8. ASSUME NEW w \in Workers,
               RunPopRaises(w)
         PROVE  Objects'
    BY <1>8 DEF RunPopRaises
  <1>9. ASSUME NEW w \in Workers,
               RunMark(w)
         PROVE  Objects'
    BY <1>9 DEF RunMark
  <1>10. ASSUME NEW w \in Workers, NEW o \in Outcomes,
               RunEnd(w, o)
         PROVE  Objects'
    <2>1. /\ runner[w].job \in JobIds
          /\ statuses[runner[w].job] = "first" /\ first[runner[w].job] = "running"
      BY <1>10 DEF RunEnd, StatusMatchesPosition, HeldReadsItsPhase, Visible
    <2> QED
      BY <2>1, <1>10 DEF RunEnd
  <1>11. ASSUME NEW w \in Workers,
               RunInterrupted(w)
         PROVE  Objects'
    BY <1>11 DEF RunInterrupted
  <1>12. ASSUME NEW j \in JobIds,
               Status(j)
         PROVE  Objects'
    BY <1>12 DEF Status
  <1>13. CASE UNCHANGED vars
    BY <1>13 DEF vars
  <1> QED
    BY <1>1, <1>2, <1>3, <1>4, <1>5, <1>6, <1>7, <1>8, <1>9, <1>10, <1>11,
       <1>12, <1>13 DEF Next, Submit, InsideRunNext

\* SubmitAppend leaves the boundary between popped and queued where it was.
LEMMA AppendKeepsTheLog ==
  ASSUME Inv, NEW c \in Clients, SubmitAppend(c)
  PROVE  appended' = popped' \o queue'
PROOF
  <1> DEFINE j == submitter[c].job
  <1>1. /\ popped \in Seq(JobIds) /\ queue \in Seq(JobIds)
        /\ appended = popped \o queue
    BY DEF Inv, TypeOK, NoneLostNorReordered
  <1>2. j \in JobIds
    BY AppendEffect
  <1>3. /\ popped' = popped /\ queue' = Append(queue, j)
        /\ appended' = Append(appended, j)
    BY DEF SubmitAppend
  <1>4. <<j>> \in Seq(JobIds)
    BY <1>2
  <1> HIDE DEF j
  <1>5. popped \o queue \in Seq(JobIds)
    BY <1>1, ConcatProperties
  <1>6. /\ Append(queue, j) = queue \o <<j>>
        /\ Append(appended, j) = appended \o <<j>>
    BY <1>1, <1>2, <1>5, AppendIsConcat
  <1>7. (popped \o queue) \o <<j>> = popped \o (queue \o <<j>>)
    BY <1>1, <1>4, ConcatAssociative
  <1> QED
    BY <1>1, <1>3, <1>6, <1>7

\* A worker holds no id that a client has not appended yet.
LEMMA HeldNotSubmitting ==
  ASSUME Inv, NEW c \in Clients, NEW w \in Workers,
         submitter[c].pc # "idle", runner[w].job # NoJob
  PROVE  submitter[c].job # runner[w].job
PROOF
  <1>1. TypeOK /\ NoneLostNorReordered /\ SubmitProgress /\ HeldWasPopped
    BY DEF Inv
  <1>2. PICK i \in DOMAIN popped : popped[i] = runner[w].job
    BY <1>1 DEF HeldWasPopped
  <1>3. i \in DOMAIN appended /\ appended[i] = popped[i]
    BY <1>1, Positions
  <1> QED
    BY <1>1, <1>2, <1>3 DEF SubmitProgress, ClientProgress

\* An append extends the log by an id no other client has and that was not
\* appended before; popleft leaves the log as it is.
LEMMA NextNoneLostNorReordered == Inv /\ [Next]_vars => NoneLostNorReordered'
PROOF
  <1> SUFFICES ASSUME Inv, [Next]_vars PROVE NoneLostNorReordered'
    OBVIOUS
  <1>0. /\ TypeOK /\ NoneLostNorReordered /\ StatusMatchesPosition
        /\ Published /\ SubmitProgress /\ Objects /\ HeldWasPopped
    BY DEF Inv
  <1> USE NoJobAssumption, <1>0 DEF TypeOK, SubmitPC, NoneLostNorReordered
  <1>1. ASSUME NEW c \in Clients, NEW j \in JobIds, SubmitBuild(c, j)
        PROVE  NoneLostNorReordered'
    BY <1>1 DEF SubmitBuild
  <1>2. ASSUME NEW c \in Clients, NEW j \in JobIds, SubmitRaises(c, j)
        PROVE  NoneLostNorReordered'
    BY <1>2 DEF SubmitRaises
  <1>3. ASSUME NEW c \in Clients, SubmitStoreJob(c)
        PROVE  NoneLostNorReordered'
    BY <1>3 DEF SubmitStoreJob
  <1>4. ASSUME NEW c \in Clients, SubmitStoreStatus(c)
        PROVE  NoneLostNorReordered'
    BY <1>4 DEF SubmitStoreStatus
  <1>5. ASSUME NEW c \in Clients, SubmitAppend(c)
        PROVE  NoneLostNorReordered'
    <2>1. appended' = popped' \o queue'
      BY <1>5, AppendKeepsTheLog
    <2>2. \A i \in DOMAIN appended : appended[i] # submitter[c].job
      BY <1>5 DEF SubmitAppend, SubmitProgress, ClientProgress
    <2>3. ASSUME NEW a \in DOMAIN appended', NEW b \in DOMAIN appended',
                 appended'[a] = appended'[b]
          PROVE  a = b
      <3>1. /\ a \in DOMAIN appended \/ a = Len(appended) + 1
            /\ b \in DOMAIN appended \/ b = Len(appended) + 1
            /\ appended'[Len(appended) + 1] = submitter[c].job
            /\ \A i \in DOMAIN appended : appended'[i] = appended[i]
        BY <1>5, AppendEffect
      <3> QED
        BY <3>1, <2>2, <2>3
    <2> QED
      BY <2>1, <2>3
  <1>6. ASSUME NEW w \in Workers, RunCheck(w)
        PROVE  NoneLostNorReordered'
    BY <1>6 DEF RunCheck
  <1>7. ASSUME NEW w \in Workers, RunPop(w)
        PROVE  NoneLostNorReordered'
    <2>1. appended' = popped' \o queue'
      BY <1>7, PopKeepsTheLog DEF RunPop
    <2> QED
      BY <2>1, <1>7 DEF RunPop
  <1>8. ASSUME NEW w \in Workers, RunPopRaises(w)
        PROVE  NoneLostNorReordered'
    BY <1>8 DEF RunPopRaises
  <1>9. ASSUME NEW w \in Workers, RunMark(w)
        PROVE  NoneLostNorReordered'
    BY <1>9 DEF RunMark
  <1>10. ASSUME NEW w \in Workers, NEW o \in Outcomes, RunEnd(w, o)
         PROVE  NoneLostNorReordered'
    BY <1>10 DEF RunEnd
  <1>11. ASSUME NEW w \in Workers, RunInterrupted(w)
         PROVE  NoneLostNorReordered'
    BY <1>11 DEF RunInterrupted
  <1>12. ASSUME NEW j \in JobIds, Status(j)
         PROVE  NoneLostNorReordered'
    BY <1>12 DEF Status
  <1>13. CASE UNCHANGED vars
    BY <1>13 DEF vars
  <1> QED
    BY <1>1, <1>2, <1>3, <1>4, <1>5, <1>6, <1>7, <1>8, <1>9, <1>10, <1>11,
       <1>12, <1>13 DEF Next, Submit, InsideRunNext

\* A step of one client leaves the others where they are, because their ids
\* differ; a worker touches no id that is still inside submit, because what
\* it holds was popped.
LEMMA NextSubmitProgress == Inv /\ [Next]_vars => SubmitProgress'
PROOF
  <1> SUFFICES ASSUME Inv, [Next]_vars PROVE SubmitProgress'
    OBVIOUS
  <1>0. /\ TypeOK /\ NoneLostNorReordered /\ StatusMatchesPosition
        /\ Published /\ SubmitProgress /\ Objects /\ HeldWasPopped
    BY DEF Inv
  <1> USE NoJobAssumption, <1>0 DEF TypeOK, SubmitPC, RunPC, Outcomes, SubmitProgress, ClientProgress
  <1>1. ASSUME NEW c \in Clients, NEW j \in JobIds, SubmitBuild(c, j)
        PROVE  SubmitProgress'
    <2>1. /\ statuses[j] = "absent" /\ j \notin jobs
          /\ \A i \in DOMAIN appended : appended[i] # j
          /\ \A d \in Clients : submitter[d].job # j
      BY <1>1 DEF SubmitBuild, Published, Objects
    <2>2. \A d \in Clients : submitter'[d] =
            IF d = c THEN [pc |-> "store_job", job |-> j] ELSE submitter[d]
      BY <1>1 DEF SubmitBuild
    <2>3. /\ issued' = issued \cup {j}
          /\ UNCHANGED <<jobs, statuses, first, appended>>
      BY <1>1 DEF SubmitBuild
    <2>4. \A d, e \in Clients : d # e /\ submitter'[d].job # NoJob =>
             submitter'[d].job # submitter'[e].job
      BY <2>1, <2>2
    <2>5. ASSUME NEW d \in Clients, submitter'[d].pc # "idle", d # c
          PROVE  submitter'[d] = submitter[d] /\ submitter[d].pc # "idle"
      BY <2>2, <2>5
    <2>6. ASSUME NEW d \in Clients PROVE ClientProgress(d)'
      <3>1. CASE d = c
        BY <3>1, <2>1, <2>2, <2>3
      <3>2. CASE d # c
        BY <3>2, <2>3, <2>5
      <3> QED
        BY <3>1, <3>2
    <2> QED
      BY <2>4, <2>6
  <1>2. ASSUME NEW c \in Clients, NEW j \in JobIds, SubmitRaises(c, j)
        PROVE  SubmitProgress'
    BY <1>2 DEF SubmitRaises
  <1>3. ASSUME NEW c \in Clients, SubmitStoreJob(c)
        PROVE  SubmitProgress'
    BY <1>3 DEF SubmitStoreJob
  <1>4. ASSUME NEW c \in Clients, SubmitStoreStatus(c)
        PROVE  SubmitProgress'
    <2>1. /\ submitter[c].job \in JobIds
          /\ submitter[c].pc = "store_status"
          /\ \A d \in Clients : d # c => submitter[d].job # submitter[c].job
      BY <1>4 DEF SubmitStoreStatus
    <2>2. \A d \in Clients :
            /\ submitter'[d].job = submitter[d].job
            /\ submitter'[d].pc = IF d = c THEN "append" ELSE submitter[d].pc
      BY <1>4 DEF SubmitStoreStatus
    <2>3. \A j \in JobIds :
            /\ statuses'[j] = IF j = submitter[c].job THEN "first" ELSE statuses[j]
            /\ first'[j] = IF j = submitter[c].job THEN "queued" ELSE first[j]
      BY <1>4 DEF SubmitStoreStatus
    <2>4. UNCHANGED <<issued, jobs, appended>>
      BY <1>4 DEF SubmitStoreStatus
    <2>5. ASSUME NEW d \in Clients, submitter'[d].pc # "idle"
          PROVE  submitter[d].job \in JobIds /\ submitter[d].pc # "idle"
      BY <2>1, <2>2, <2>5
    <2> QED
      BY <2>1, <2>2, <2>3, <2>4, <2>5
  <1>5. ASSUME NEW c \in Clients, SubmitAppend(c)
        PROVE  SubmitProgress'
    <2>1. \A d \in Clients : submitter'[d] =
            IF d = c THEN [pc |-> "idle", job |-> NoJob] ELSE submitter[d]
      BY <1>5 DEF SubmitAppend
    <2>2. \A i \in DOMAIN appended' :
            \/ i \in DOMAIN appended /\ appended'[i] = appended[i]
            \/ appended'[i] = submitter[c].job
      BY <1>5, AppendEffect
    <2>3. submitter[c].job # NoJob
      BY <1>5 DEF SubmitAppend
    <2>4. UNCHANGED <<issued, jobs, statuses, first>>
      BY <1>5 DEF SubmitAppend
    <2>5. ASSUME NEW d \in Clients, submitter'[d].pc # "idle"
          PROVE  /\ submitter'[d] = submitter[d]
                 /\ \A i \in DOMAIN appended' : appended'[i] # submitter'[d].job
      BY <2>1, <2>2, <2>3, <2>5
    <2>6. \A d, e \in Clients : d # e /\ submitter'[d].job # NoJob =>
             submitter'[d].job # submitter'[e].job
      BY <2>1
    <2> QED
      BY <2>4, <2>5, <2>6
  <1>6. ASSUME NEW w \in Workers, RunCheck(w)
        PROVE  SubmitProgress'
    BY <1>6 DEF RunCheck
  <1>7. ASSUME NEW w \in Workers, RunPop(w)
        PROVE  SubmitProgress'
    BY <1>7 DEF RunPop
  <1>8. ASSUME NEW w \in Workers, RunPopRaises(w)
        PROVE  SubmitProgress'
    BY <1>8 DEF RunPopRaises
  <1>9. ASSUME NEW w \in Workers, RunMark(w)
        PROVE  SubmitProgress'
    <2>1. runner[w].job # NoJob
      BY <1>9 DEF RunMark
    <2>2. \A c \in Clients : submitter[c].pc # "idle" =>
            submitter[c].job # runner[w].job
      BY <2>1, HeldNotSubmitting
    <2> QED
      BY <2>2, <1>9 DEF RunMark
  <1>10. ASSUME NEW w \in Workers, NEW o \in Outcomes, RunEnd(w, o)
         PROVE  SubmitProgress'
    <2>1. runner[w].job # NoJob
      BY <1>10 DEF RunEnd
    <2>2. \A c \in Clients : submitter[c].pc # "idle" =>
            submitter[c].job # runner[w].job
      BY <2>1, HeldNotSubmitting
    <2> QED
      BY <2>2, <1>10 DEF RunEnd
  <1>11. ASSUME NEW w \in Workers, RunInterrupted(w)
         PROVE  SubmitProgress'
    BY <1>11 DEF RunInterrupted
  <1>12. ASSUME NEW j \in JobIds, Status(j)
         PROVE  SubmitProgress'
    BY <1>12 DEF Status
  <1>13. CASE UNCHANGED vars
    BY <1>13 DEF vars
  <1> QED
    BY <1>1, <1>2, <1>3, <1>4, <1>5, <1>6, <1>7, <1>8, <1>9, <1>10, <1>11,
       <1>12, <1>13 DEF Next, Submit, InsideRunNext

-----------------------------------------------------------------------------
(* Where a job is.                                                         *)

\* A worker holds no queued id, and no client inside submit has one.
LEMMA QueuedIsNowhereElse ==
  ASSUME Inv, NEW k \in DOMAIN queue
  PROVE  /\ queue[k] \in JobIds
         /\ \A w \in Workers : runner[w].job # queue[k]
         /\ \A c \in Clients : submitter[c].job # queue[k]
PROOF
  <1>1. /\ TypeOK /\ NoneLostNorReordered /\ SubmitProgress /\ HeldWasPopped
    BY DEF Inv
  <1>2. queue[k] \in JobIds
    BY <1>1, ElementOfSeq, LenProperties DEF TypeOK
  <1>3. ASSUME NEW w \in Workers PROVE runner[w].job # queue[k]
    <2>1. CASE runner[w].job = NoJob
      BY <2>1, <1>2, NoJobAssumption
    <2>2. CASE runner[w].job # NoJob
      <3>1. PICK i \in DOMAIN popped : popped[i] = runner[w].job
        BY <2>2, <1>1 DEF HeldWasPopped
      <3> QED
        BY <3>1, <1>1, Positions
    <2> QED
      BY <2>1, <2>2
  <1>4. ASSUME NEW c \in Clients PROVE submitter[c].job # queue[k]
    <2>1. CASE submitter[c].pc = "idle"
      BY <2>1, <1>1, <1>2, NoJobAssumption DEF TypeOK
    <2>2. CASE submitter[c].pc # "idle"
      <3>1. Len(popped) + k \in DOMAIN appended
            /\ appended[Len(popped) + k] = queue[k]
        BY <1>1, Positions
      <3> QED
        BY <2>2, <3>1, <1>1 DEF SubmitProgress, ClientProgress
    <2> QED
      BY <2>1, <2>2
  <1> QED
    BY <1>2, <1>3, <1>4

\* The append comes after the two dictionary writes, and nobody else touches
\* the status of a job that is still queued.
LEMMA NextQueuedReadsQueued == Inv /\ [Next]_vars => QueuedReadsQueued'
PROOF
  <1> SUFFICES ASSUME Inv, [Next]_vars PROVE QueuedReadsQueued'
    OBVIOUS
  <1>0. /\ TypeOK /\ Published /\ SubmitProgress /\ Objects
        /\ QueuedReadsQueued /\ HeldReadsItsPhase /\ HeldOnce /\ EndedWasRun
    BY DEF Inv, StatusMatchesPosition
  <1> USE NoJobAssumption, <1>0 DEF TypeOK, SubmitPC, RunPC, Outcomes, QueuedReadsQueued, Visible
  <1>1. ASSUME NEW c \in Clients, NEW j \in JobIds, SubmitBuild(c, j)
        PROVE  QueuedReadsQueued'
    BY <1>1 DEF SubmitBuild
  <1>2. ASSUME NEW c \in Clients, NEW j \in JobIds, SubmitRaises(c, j)
        PROVE  QueuedReadsQueued'
    BY <1>2 DEF SubmitRaises
  <1>3. ASSUME NEW c \in Clients, SubmitStoreJob(c)
        PROVE  QueuedReadsQueued'
    BY <1>3 DEF SubmitStoreJob
  <1>4. ASSUME NEW c \in Clients, SubmitStoreStatus(c)
        PROVE  QueuedReadsQueued'
    <2>1. \A k \in DOMAIN queue :
            queue[k] \in JobIds /\ queue[k] # submitter[c].job
      BY QueuedIsNowhereElse
    <2> QED
      BY <2>1, <1>4 DEF SubmitStoreStatus
  <1>5. ASSUME NEW c \in Clients, SubmitAppend(c)
        PROVE  QueuedReadsQueued'
    <2>1. /\ submitter[c].job \in jobs
          /\ statuses[submitter[c].job] = "first"
          /\ first[submitter[c].job] = "queued"
      BY <1>5 DEF SubmitAppend, SubmitProgress, ClientProgress
    <2>2. \A k \in DOMAIN queue' :
            \/ k \in DOMAIN queue /\ queue'[k] = queue[k]
            \/ queue'[k] = submitter[c].job
      BY <1>5, AppendEffect
    <2>3. UNCHANGED <<jobs, statuses, first, final>>
      BY <1>5 DEF SubmitAppend
    <2>4. \A j : Visible(j)' = Visible(j)
      BY <2>3
    <2>5. submitter[c].job \in JobIds /\ Visible(submitter[c].job) = "queued"
      BY <2>1
    <2> HIDE DEF Visible
    <2> QED
      BY <2>1, <2>2, <2>3, <2>4, <2>5
  <1>6. ASSUME NEW w \in Workers, RunCheck(w)
        PROVE  QueuedReadsQueued'
    BY <1>6 DEF RunCheck
  <1>7. ASSUME NEW w \in Workers, RunPop(w)
        PROVE  QueuedReadsQueued'
    <2>1. \A k \in DOMAIN queue' : k + 1 \in DOMAIN queue /\ queue'[k] = queue[k + 1]
      BY <1>7, PopEffect
    <2>2. UNCHANGED <<jobs, statuses, first, final>>
      BY <1>7 DEF RunPop
    <2>3. \A j : Visible(j)' = Visible(j)
      BY <2>2
    <2> HIDE DEF Visible
    <2> QED
      BY <2>1, <2>2, <2>3
  <1>8. ASSUME NEW w \in Workers, RunPopRaises(w)
        PROVE  QueuedReadsQueued'
    BY <1>8 DEF RunPopRaises
  <1>9. ASSUME NEW w \in Workers, RunMark(w)
        PROVE  QueuedReadsQueued'
    <2>1. \A k \in DOMAIN queue :
            queue[k] \in JobIds /\ queue[k] # runner[w].job
      BY QueuedIsNowhereElse
    <2> QED
      BY <2>1, <1>9 DEF RunMark
  <1>10. ASSUME NEW w \in Workers, NEW o \in Outcomes, RunEnd(w, o)
         PROVE  QueuedReadsQueued'
    <2>1. \A k \in DOMAIN queue :
            queue[k] \in JobIds /\ queue[k] # runner[w].job
      BY QueuedIsNowhereElse
    <2> QED
      BY <2>1, <1>10 DEF RunEnd
  <1>11. ASSUME NEW w \in Workers, RunInterrupted(w)
         PROVE  QueuedReadsQueued'
    BY <1>11 DEF RunInterrupted
  <1>12. ASSUME NEW j \in JobIds, Status(j)
         PROVE  QueuedReadsQueued'
    BY <1>12 DEF Status
  <1>13. CASE UNCHANGED vars
    <2>1. UNCHANGED <<queue, jobs, statuses, first, final>>
      BY <1>13 DEF vars
    <2>2. \A j : Visible(j)' = Visible(j)
      BY <2>1
    <2> HIDE DEF Visible
    <2> QED
      BY <2>1, <2>2
  <1> HIDE <1>0 DEF TypeOK, QueuedReadsQueued, Visible
  <1> QED
    BY <1>1, <1>2, <1>3, <1>4, <1>5, <1>6, <1>7, <1>8, <1>9, <1>10, <1>11,
       <1>12, <1>13 DEF Next, Submit, InsideRunNext

\* popleft hands an id to one worker, because the id is queued once.
LEMMA NextHeldOnce == Inv /\ [Next]_vars => HeldOnce'
PROOF
  <1> SUFFICES ASSUME Inv, [Next]_vars PROVE HeldOnce'
    OBVIOUS
  <1>0. /\ TypeOK /\ Published /\ SubmitProgress /\ Objects
        /\ QueuedReadsQueued /\ HeldReadsItsPhase /\ HeldOnce /\ EndedWasRun
    BY DEF Inv, StatusMatchesPosition
  <1> USE NoJobAssumption, <1>0 DEF TypeOK, SubmitPC, RunPC, Outcomes, HeldOnce
  <1>1. ASSUME NEW c \in Clients, NEW j \in JobIds, SubmitBuild(c, j)
        PROVE  HeldOnce'
    BY <1>1 DEF SubmitBuild
  <1>2. ASSUME NEW c \in Clients, NEW j \in JobIds, SubmitRaises(c, j)
        PROVE  HeldOnce'
    BY <1>2 DEF SubmitRaises
  <1>3. ASSUME NEW c \in Clients, SubmitStoreJob(c)
        PROVE  HeldOnce'
    BY <1>3 DEF SubmitStoreJob
  <1>4. ASSUME NEW c \in Clients, SubmitStoreStatus(c)
        PROVE  HeldOnce'
    BY <1>4 DEF SubmitStoreStatus
  <1>5. ASSUME NEW c \in Clients, SubmitAppend(c)
        PROVE  HeldOnce'
    BY <1>5 DEF SubmitAppend
  <1>6. ASSUME NEW w \in Workers, RunCheck(w)
        PROVE  HeldOnce'
    BY <1>6 DEF RunCheck
  <1>7. ASSUME NEW w \in Workers, RunPop(w)
        PROVE  HeldOnce'
    <2>1. \A v \in Workers : runner[v].job # Head(queue)
      BY <1>7, PopEffect, QueuedIsNowhereElse
    <2> QED
      BY <2>1, <1>7 DEF RunPop
  <1>8. ASSUME NEW w \in Workers, RunPopRaises(w)
        PROVE  HeldOnce'
    BY <1>8 DEF RunPopRaises
  <1>9. ASSUME NEW w \in Workers, RunMark(w)
        PROVE  HeldOnce'
    BY <1>9 DEF RunMark
  <1>10. ASSUME NEW w \in Workers, NEW o \in Outcomes, RunEnd(w, o)
         PROVE  HeldOnce'
    BY <1>10 DEF RunEnd
  <1>11. ASSUME NEW w \in Workers, RunInterrupted(w)
         PROVE  HeldOnce'
    BY <1>11 DEF RunInterrupted
  <1>12. ASSUME NEW j \in JobIds, Status(j)
         PROVE  HeldOnce'
    BY <1>12 DEF Status
  <1>13. CASE UNCHANGED vars
    BY <1>13 DEF vars
  <1> QED
    BY <1>1, <1>2, <1>3, <1>4, <1>5, <1>6, <1>7, <1>8, <1>9, <1>10, <1>11,
       <1>12, <1>13 DEF Next, Submit, InsideRunNext

\* A worker's own steps move the status of its job and the local pc together;
\* the id of another worker or of a client is another id.
LEMMA NextHeldReadsItsPhase == Inv /\ [Next]_vars => HeldReadsItsPhase'
PROOF
  <1> SUFFICES ASSUME Inv, [Next]_vars PROVE HeldReadsItsPhase'
    OBVIOUS
  <1>0. /\ TypeOK /\ Published /\ SubmitProgress /\ Objects
        /\ QueuedReadsQueued /\ HeldReadsItsPhase /\ HeldOnce /\ EndedWasRun
    BY DEF Inv, StatusMatchesPosition
  <1> USE NoJobAssumption, <1>0 DEF TypeOK, SubmitPC, RunPC, Outcomes, HeldReadsItsPhase, Visible
  <1>1. ASSUME NEW c \in Clients, NEW j \in JobIds, SubmitBuild(c, j)
        PROVE  HeldReadsItsPhase'
    BY <1>1 DEF SubmitBuild
  <1>2. ASSUME NEW c \in Clients, NEW j \in JobIds, SubmitRaises(c, j)
        PROVE  HeldReadsItsPhase'
    BY <1>2 DEF SubmitRaises
  <1>3. ASSUME NEW c \in Clients, SubmitStoreJob(c)
        PROVE  HeldReadsItsPhase'
    BY <1>3 DEF SubmitStoreJob
  <1>4. ASSUME NEW c \in Clients, SubmitStoreStatus(c)
        PROVE  HeldReadsItsPhase'
    <2>1. \A w \in Workers : runner[w].job # NoJob =>
            submitter[c].job # runner[w].job
      BY <1>4, HeldNotSubmitting DEF SubmitStoreStatus
    <2> QED
      BY <2>1, <1>4 DEF SubmitStoreStatus
  <1>5. ASSUME NEW c \in Clients, SubmitAppend(c)
        PROVE  HeldReadsItsPhase'
    BY <1>5 DEF SubmitAppend
  <1>6. ASSUME NEW w \in Workers, RunCheck(w)
        PROVE  HeldReadsItsPhase'
    BY <1>6 DEF RunCheck
  <1>7. ASSUME NEW w \in Workers, RunPop(w)
        PROVE  HeldReadsItsPhase'
    <2>1. Visible(Head(queue)) = "queued"
      BY <1>7, PopEffect DEF QueuedReadsQueued
    <2>2. UNCHANGED <<statuses, first, final>>
      BY <1>7 DEF RunPop
    <2>3. \A j : Visible(j)' = Visible(j)
      BY <2>2
    <2>4. \A v \in Workers : runner'[v] =
            IF v = w THEN [pc |-> "mark", job |-> Head(queue)] ELSE runner[v]
      BY <1>7 DEF RunPop
    <2> HIDE DEF Visible
    <2> QED
      BY <2>1, <2>3, <2>4
  <1>8. ASSUME NEW w \in Workers, RunPopRaises(w)
        PROVE  HeldReadsItsPhase'
    BY <1>8 DEF RunPopRaises
  <1>9. ASSUME NEW w \in Workers, RunMark(w)
        PROVE  HeldReadsItsPhase'
    <2>1. \A v \in Workers : v # w => runner[v].job # runner[w].job
      BY <1>9 DEF RunMark, HeldOnce
    <2>2. final[runner[w].job] = final'[runner[w].job] /\ runner[w].job \in JobIds
      BY <1>9 DEF RunMark
    <2> QED
      BY <2>1, <2>2, <1>9 DEF RunMark
  <1>10. ASSUME NEW w \in Workers, NEW o \in Outcomes, RunEnd(w, o)
         PROVE  HeldReadsItsPhase'
    <2>1. \A v \in Workers : v # w => runner[v].job # runner[w].job
      BY <1>10 DEF RunEnd, HeldOnce
    <2>2. runner[w].job \in JobIds
      BY <1>10 DEF RunEnd
    <2> QED
      BY <2>1, <2>2, <1>10 DEF RunEnd
  <1>11. ASSUME NEW w \in Workers, RunInterrupted(w)
         PROVE  HeldReadsItsPhase'
    BY <1>11 DEF RunInterrupted
  <1>12. ASSUME NEW j \in JobIds, Status(j)
         PROVE  HeldReadsItsPhase'
    BY <1>12 DEF Status
  <1>13. CASE UNCHANGED vars
    BY <1>13 DEF vars
  <1> HIDE <1>0 DEF TypeOK, HeldReadsItsPhase, Visible
  <1> QED
    BY <1>1, <1>2, <1>3, <1>4, <1>5, <1>6, <1>7, <1>8, <1>9, <1>10, <1>11,
       <1>12, <1>13 DEF Next, Submit, InsideRunNext

\* A job ends by the step with which its only worker lets go of it.
LEMMA NextEndedWasRun == Inv /\ [Next]_vars => EndedWasRun'
PROOF
  <1> SUFFICES ASSUME Inv, [Next]_vars PROVE EndedWasRun'
    OBVIOUS
  <1>0. /\ TypeOK /\ Published /\ SubmitProgress /\ Objects
        /\ QueuedReadsQueued /\ HeldReadsItsPhase /\ HeldOnce /\ EndedWasRun
    BY DEF Inv, StatusMatchesPosition
  <1> USE NoJobAssumption, <1>0 DEF TypeOK, SubmitPC, RunPC, Outcomes, EndedWasRun, Ended
  <1>1. ASSUME NEW c \in Clients, NEW j \in JobIds, SubmitBuild(c, j)
        PROVE  EndedWasRun'
    BY <1>1 DEF SubmitBuild
  <1>2. ASSUME NEW c \in Clients, NEW j \in JobIds, SubmitRaises(c, j)
        PROVE  EndedWasRun'
    BY <1>2 DEF SubmitRaises
  <1>3. ASSUME NEW c \in Clients, SubmitStoreJob(c)
        PROVE  EndedWasRun'
    BY <1>3 DEF SubmitStoreJob
  <1>4. ASSUME NEW c \in Clients, SubmitStoreStatus(c)
        PROVE  EndedWasRun'
    <2>1. submitter[c].job \in JobIds /\ ~Ended(submitter[c].job)
      BY <1>4 DEF SubmitStoreStatus, SubmitProgress, ClientProgress, Objects
    <2> QED
      BY <2>1, <1>4 DEF SubmitStoreStatus
  <1>5. ASSUME NEW c \in Clients, SubmitAppend(c)
        PROVE  EndedWasRun'
    BY <1>5 DEF SubmitAppend
  <1>6. ASSUME NEW w \in Workers, RunCheck(w)
        PROVE  EndedWasRun'
    BY <1>6 DEF RunCheck
  <1>7. ASSUME NEW w \in Workers, RunPop(w)
        PROVE  EndedWasRun'
    <2>1. /\ Head(queue) \in JobIds /\ Visible(Head(queue)) = "queued"
          /\ \A i \in DOMAIN popped : i \in DOMAIN popped' /\ popped'[i] = popped[i]
      BY <1>7, PopEffect DEF QueuedReadsQueued
    <2>2. ~Ended(Head(queue))
      BY <2>1 DEF Visible, Objects
    <2>3. \A v \in Workers : runner'[v].job \in {runner[v].job, Head(queue)}
      BY <1>7 DEF RunPop
    <2>4. UNCHANGED <<statuses, final>>
      BY <1>7 DEF RunPop
    <2> QED
      BY <2>1, <2>2, <2>3, <2>4
  <1>8. ASSUME NEW w \in Workers, RunPopRaises(w)
        PROVE  EndedWasRun'
    BY <1>8 DEF RunPopRaises
  <1>9. ASSUME NEW w \in Workers, RunMark(w)
        PROVE  EndedWasRun'
    BY <1>9 DEF RunMark
  <1>10. ASSUME NEW w \in Workers, NEW o \in Outcomes, RunEnd(w, o)
         PROVE  EndedWasRun'
    <2>1. \A v \in Workers : v # w => runner[v].job # runner[w].job
      BY <1>10 DEF RunEnd, HeldOnce
    <2>2. /\ runner[w].job \in JobIds
          /\ \E i \in DOMAIN popped : popped[i] = runner[w].job
      BY <1>10 DEF RunEnd, Inv, HeldWasPopped
    <2> QED
      BY <2>1, <2>2, <1>10 DEF RunEnd
  <1>11. ASSUME NEW w \in Workers, RunInterrupted(w)
         PROVE  EndedWasRun'
    BY <1>11 DEF RunInterrupted
  <1>12. ASSUME NEW j \in JobIds, Status(j)
         PROVE  EndedWasRun'
    BY <1>12 DEF Status
  <1>13. CASE UNCHANGED vars
    BY <1>13 DEF vars
  <1> QED
    BY <1>1, <1>2, <1>3, <1>4, <1>5, <1>6, <1>7, <1>8, <1>9, <1>10, <1>11,
       <1>12, <1>13 DEF Next, Submit, InsideRunNext

-----------------------------------------------------------------------------
(* The theorems.                                                           *)

\* Inv holds in every reachable state: whatever the interleaving of clients
\* and workers, the queue, the dictionaries and the threads agree.
THEOREM Invariance == Spec => []Inv
PROOF
  <1>1. Init => Inv
    BY InitInv
  <1>2. Inv /\ [Next]_vars => Inv'
    BY NextTypeOK, NextNoneLostNorReordered, NextPublished, NextSubmitProgress,
       NextObjects, NextHeldWasPopped, NextQueuedReadsQueued,
       NextHeldReadsItsPhase, NextHeldOnce, NextEndedWasRun
    DEF Inv, StatusMatchesPosition
  <1> QED
    BY <1>1, <1>2, PTL DEF Spec

\* The attributes keep their types.
THEOREM TypeCorrect == Spec => []TypeOK
PROOF
  <1>1. Inv => TypeOK
    BY DEF Inv
  <1> QED
    BY <1>1, Invariance, PTL

\* Between submit and run_next no job is lost, duplicated or overtaken.
THEOREM FifoOrder == Spec => []NoneLostNorReordered
PROOF
  <1>1. Inv => NoneLostNorReordered
    BY DEF Inv
  <1> QED
    BY <1>1, Invariance, PTL

\* What status() reports is where the job is.
THEOREM StatusIsTrue == Spec => []StatusMatchesPosition
PROOF
  <1>1. Inv => StatusMatchesPosition
    BY DEF Inv
  <1> QED
    BY <1>1, Invariance, PTL

\* A JobStatus handed out before the end reads RUNNING after the end.
THEOREM HandlesGoStale == Spec => []StaleHandleReadsRunning
PROOF
  <1>1. Inv => StaleHandleReadsRunning
    BY DEF Inv, Objects, StaleHandleReadsRunning
  <1> QED
    BY <1>1, Invariance, PTL

\* Every step of the threads is a step of the abstract queue or none: the
\* append accepts, popleft starts, and the second JobStatus ends the job.
LEMMA StepImplements == Inv /\ [Next]_vars => [JQ!Next]_(JQ!vars)
PROOF
  <1> SUFFICES ASSUME Inv, [Next]_vars PROVE [JQ!Next]_(JQ!vars)
    OBVIOUS
  <1> USE DEF JQ!vars
  <1>1. ASSUME NEW c \in Clients, Submit(c) PROVE [JQ!Next]_(JQ!vars)
    <2>1. CASE SubmitAppend(c)
      <3>1. /\ submitter[c].job \in JobIds
            /\ \A i \in DOMAIN appended : appended[i] # submitter[c].job
        BY <2>1, AppendEffect
        DEF Inv, SubmitProgress, ClientProgress, SubmitAppend
      <3>2. JQ!Accept(submitter[c].job)
        BY <3>1, <2>1 DEF SubmitAppend, JQ!Accept, JQ!Accepted
      <3> QED
        BY <3>1, <3>2 DEF JQ!Next
    <2>2. CASE ~SubmitAppend(c)
      BY <2>2, <1>1
      DEF Submit, SubmitBuild, SubmitRaises, SubmitStoreJob, SubmitStoreStatus
    <2> QED
      BY <2>1, <2>2
  <1>2. ASSUME NEW w \in Workers, RunPop(w) PROVE [JQ!Next]_(JQ!vars)
    <2>1. /\ Len(appended) = Len(popped) + Len(queue)
          /\ Len(popped) \in Nat /\ Len(queue) \in Nat \ {0}
      BY <1>2, PopEffect, Positions DEF Inv
    <2>2. popped \in Seq(JobIds) /\ Head(queue) \in JobIds
      BY <1>2, PopEffect DEF Inv, TypeOK
    <2>3. Len(Append(popped, Head(queue))) = Len(popped) + 1
      BY <2>2, AppendProperties
    <2>4. JQ!Start
      BY <1>2, <2>1, <2>3 DEF RunPop, JQ!Start
    <2> QED
      BY <2>4 DEF JQ!Next
  <1>3. ASSUME NEW w \in Workers, NEW o \in Outcomes, RunEnd(w, o)
        PROVE  [JQ!Next]_(JQ!vars)
    <2> DEFINE j == runner[w].job
    <2>1. j \in JobIds /\ j # NoJob /\ Visible(j) = "running"
      BY <1>3, NoJobAssumption
      DEF RunEnd, Inv, TypeOK, StatusMatchesPosition, HeldReadsItsPhase
    <2>2. PICK i \in DOMAIN popped : popped[i] = j
      BY <2>1 DEF Inv, HeldWasPopped
    <2>3. i \in 1 .. Len(popped) /\ appended[i] = j
      BY <2>2, Positions DEF Inv
    <2>4. final[j] = "none"
      BY <1>3, <2>1 DEF Inv, TypeOK, StatusMatchesPosition, EndedWasRun, Ended
    <2>5. JQ!End(j, o)
      BY <1>3, <2>3, <2>4 DEF RunEnd, JQ!End, JQ!Started
    <2> QED
      BY <2>1, <2>5 DEF JQ!Next, JQ!Outcomes, Outcomes
  <1>4. ASSUME NEW w \in Workers,
               RunCheck(w) \/ RunPopRaises(w) \/ RunMark(w) \/ RunInterrupted(w)
        PROVE  [JQ!Next]_(JQ!vars)
    BY <1>4 DEF RunCheck, RunPopRaises, RunMark, RunInterrupted
  <1>5. ASSUME NEW j \in JobIds, Status(j) PROVE [JQ!Next]_(JQ!vars)
    BY <1>5 DEF Status
  <1>6. CASE UNCHANGED vars
    BY <1>6 DEF vars
  <1> QED
    BY <1>1, <1>2, <1>3, <1>4, <1>5, <1>6 DEF Next, InsideRunNext

\* The scheduler implements the abstract queue: jobs start in the order in
\* which they were accepted, each at most once, and end at most once.
THEOREM Refinement == Spec => ImplementsJobQueue
PROOF
  <1>1. Init => JQ!Init
    BY DEF Init, JQ!Init
  <1> QED
    BY <1>1, StepImplements, Invariance, PTL DEF Spec, ImplementsJobQueue, JQ!Spec

\* Seen through status(), a job moves forward one state at a time.
THEOREM Forward == Spec => StateMovesForward
PROOF
  <1> DEFINE Step == \A j \in JobIds : Visible(j)' # Visible(j) =>
       <<Visible(j), Visible(j)'>> \in
         {<<"unknown", "queued">>, <<"queued", "running">>,
          <<"running", "completed">>, <<"running", "failed">>}
  <1>1. Inv /\ [Next]_vars => [Step]_vars
    <2> SUFFICES ASSUME Inv, Next, NEW j \in JobIds, Visible(j)' # Visible(j)
                 PROVE  <<Visible(j), Visible(j)'>> \in
                          {<<"unknown", "queued">>, <<"queued", "running">>,
                           <<"running", "completed">>, <<"running", "failed">>}
      BY DEF vars
    <2>0. /\ TypeOK /\ SubmitProgress /\ HeldReadsItsPhase
      BY DEF Inv, StatusMatchesPosition
    <2>1. ASSUME NEW c \in Clients, SubmitStoreStatus(c)
          PROVE  Visible(j) = "unknown" /\ Visible(j)' = "queued"
      BY <2>0, <2>1
      DEF SubmitStoreStatus, Visible, TypeOK, SubmitProgress, ClientProgress
    <2>2. ASSUME NEW w \in Workers, RunMark(w)
          PROVE  Visible(j) = "queued" /\ Visible(j)' = "running"
      BY <2>0, <2>2 DEF RunMark, Visible, TypeOK, HeldReadsItsPhase
    <2>3. ASSUME NEW w \in Workers, NEW o \in Outcomes, RunEnd(w, o)
          PROVE  Visible(j) = "running" /\ Visible(j)' \in Outcomes
      BY <2>0, <2>3 DEF RunEnd, Visible, TypeOK, HeldReadsItsPhase
    <2>4. ~UNCHANGED <<statuses, first, final>>
      BY DEF Visible
    <2> QED
      BY <2>1, <2>2, <2>3, <2>4
      DEF Outcomes, Next, Submit, InsideRunNext, SubmitBuild, SubmitRaises,
          SubmitStoreJob, SubmitAppend, RunCheck, RunPop, RunPopRaises,
          RunInterrupted, Status
  <1> QED
    BY <1>1, Invariance, PTL DEF Spec, StateMovesForward
=============================================================================
