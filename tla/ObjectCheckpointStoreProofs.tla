-------------------- MODULE ObjectCheckpointStoreProofs ---------------------
(***************************************************************************)
(* Theorems about ObjectCheckpointStore, for any number of processes,      *)
(* keys, states and calls.                                                 *)
(*                                                                         *)
(* What a client was told to exist stays: no request removes an object or  *)
(* a bucket, and a request that arrives late puts one.  The invariant says *)
(* so of every call that is under way: what it knew when it began holds,   *)
(* and so does what its reply says.                                        *)
(***************************************************************************)
EXTENDS ObjectCheckpointStore, TLAPS

\* The requests about an object, and those about the bucket.
ObjectMethods == {"HEAD", "PUT", "GET"}

\* What method asks about is there; a PUT asks about the bucket.
Present(method, k) ==
  IF method \in {"HEAD", "GET"} THEN objects[k] # Nobody ELSE bucket

\* The request of d names an object with its state, or nothing.
WellFormed(d) ==
  client[d].pc # "idle" =>
    /\ client[d].method \in ObjectMethods => client[d].key \in Keys
    /\ client[d].method \notin ObjectMethods =>
         client[d].key = Nobody /\ client[d].state = Nobody
    /\ client[d].method = "PUT" => client[d].state \in States
    /\ Got(d, "GET", "200") => client[d].state \in States

\* What d knows of what it asks about is true, and so is its reply.
Truthful(d) ==
  /\ client[d].pc # "idle" /\ client[d].known => Present(client[d].method, client[d].key)
  /\ client[d].pc = "reply" /\ client[d].known => client[d].reply # "404"
  /\ client[d].pc = "reply" /\ client[d].reply = "200" =>
       /\ bucket
       /\ client[d].method \in ObjectMethods => objects[client[d].key] # Nobody

ToldIsTrue ==
  /\ "bucket" \in told => bucket
  /\ \A k \in Keys : k \in told => objects[k] # Nobody

Remembered(d) == answer[d].known => answer[d].how \notin {"missing", "404"}

\* The inductive invariant.
Inv ==
  /\ TypeOK
  /\ ToldIsTrue
  /\ \A d \in Clients : WellFormed(d) /\ Truthful(d) /\ Remembered(d)

-----------------------------------------------------------------------------
LEMMA InitInv == Init => Inv
PROOF
  <1> SUFFICES ASSUME Init PROVE Inv
    OBVIOUS
  <1>1. client \in [Clients -> [pc : {"idle", "request", "reply"}, method : Methods,
                                key : Keys \cup {Nobody}, state : States \cup {Nobody},
                                reply : Replies, known : BOOLEAN]]
    BY DEF Init, Idle, Methods, Replies
  <1>2. answer \in [Clients -> [how : Answers, key : Keys \cup {Nobody},
                                state : States \cup {Nobody}, known : BOOLEAN]]
    BY DEF Init, NoAnswer, Answers
  <1>3. latest \in [Keys -> [by : Clients \cup {Nobody}, state : States \cup {Nobody},
                             sole : BOOLEAN, returned : BOOLEAN]]
    BY DEF Init, NoSave
  <1>4. TypeOK
    <2>1. \A d \in Clients : answer[d].how # "loaded"
      BY DEF Init, NoAnswer
    <2>2. calls \in 0 .. MaxCalls /\ objects \in [Keys -> States \cup {Nobody}]
      BY MaxCallsAssumption DEF Init
    <2> QED
      BY <1>1, <1>2, <1>3, <2>1, <2>2 DEF Init, TypeOK
  <1> QED
    BY <1>4 DEF Inv, Init, ToldIsTrue, WellFormed, Truthful, Remembered, Idle, NoAnswer

\* A step of the call of d keeps the invariant if it does so for d, and takes
\* nothing away.
LEMMA CallFrame ==
  ASSUME Inv, TypeOK', ToldIsTrue', NEW d \in Clients,
         bucket => bucket',
         \A k \in Keys : objects[k] # Nobody => objects'[k] # Nobody,
         \A e \in Clients : e # d => client'[e] = client[e] /\ answer'[e] = answer[e],
         WellFormed(d)', Truthful(d)', Remembered(d)'
  PROVE  Inv'
PROOF
  <1>1. ASSUME NEW e \in Clients, e # d
        PROVE  WellFormed(e)' /\ Truthful(e)' /\ Remembered(e)'
    <2>1. client'[e] = client[e] /\ answer'[e] = answer[e] /\ WellFormed(e) /\ Truthful(e)
            /\ Remembered(e)
      BY <1>1 DEF Inv
    <2>2. WellFormed(e)' /\ Remembered(e)'
      BY <2>1 DEF WellFormed, Remembered, Got
    <2>3. client[e].pc # "idle" /\ client[e].method \in ObjectMethods =>
            (objects[client[e].key] # Nobody => objects'[client[e].key] # Nobody)
      BY <2>1 DEF WellFormed
    <2>4. Truthful(e)'
      BY <2>1, <2>3 DEF Truthful, Present, ObjectMethods
    <2> QED
      BY <2>2, <2>4
  <1> QED
    BY <1>1 DEF Inv

\* The client and the answer of a call that ends.
LEMMA ReturnMoves ==
  ASSUME TypeOK, NEW d \in Clients, NEW how \in Answers, Return(d, how)
  PROVE  /\ client' \in [Clients -> [pc : {"idle", "request", "reply"}, method : Methods,
                             key : Keys \cup {Nobody}, state : States \cup {Nobody},
                             reply : Replies, known : BOOLEAN]]
         /\ answer' \in [Clients -> [how : Answers, key : Keys \cup {Nobody},
                             state : States \cup {Nobody}, known : BOOLEAN]]
         /\ client'[d].pc = "idle"
         /\ answer'[d].how = how /\ answer'[d].known = client[d].known
         /\ answer'[d].state = client[d].state
         /\ \A e \in Clients : e # d => client'[e] = client[e] /\ answer'[e] = answer[e]
BY DEF Return, TypeOK, Idle, Replies, Methods

-----------------------------------------------------------------------------
\* The first request of a call.
LEMMA BeginKeepsInv ==
  ASSUME Inv, NEW d \in Clients,
         Begin(d),
         client' \in [Clients -> [pc : {"idle", "request", "reply"}, method : Methods,
                                  key : Keys \cup {Nobody}, state : States \cup {Nobody},
                                  reply : Replies, known : BOOLEAN]],
         \A e \in Clients : e # d => client'[e] = client[e],
         client'[d].pc = "request",
         WellFormed(d)',
         client'[d].known => Present(client'[d].method, client'[d].key),
         latest' \in [Keys -> [by : Clients \cup {Nobody}, state : States \cup {Nobody},
                               sole : BOOLEAN, returned : BOOLEAN]],
         UNCHANGED <<bucket, objects, late, told>>
  PROVE  Inv'
PROOF
  <1>1. TypeOK
    BY DEF Inv
  <1>2. /\ answer' \in [Clients -> [how : Answers, key : Keys \cup {Nobody},
                             state : States \cup {Nobody}, known : BOOLEAN]]
        /\ answer'[d] = NoAnswer
        /\ \A e \in Clients : e # d => answer'[e] = answer[e]
    BY <1>1 DEF Begin, TypeOK, NoAnswer, Answers
  <1>3. calls' \in 0 .. MaxCalls
    BY <1>1, MaxCallsAssumption DEF Begin, TypeOK
  <1>4. \A e \in Clients : answer'[e].how = "loaded" => answer'[e].state \in States
    BY <1>1, <1>2 DEF TypeOK, NoAnswer
  <1>5. TypeOK'
    BY <1>1, <1>2, <1>3, <1>4 DEF TypeOK
  <1>6. ToldIsTrue'
    BY DEF Inv, ToldIsTrue
  <1>7. Truthful(d)' /\ Remembered(d)'
    BY <1>2 DEF Truthful, Remembered, Present, NoAnswer
  <1> QED
    BY <1>2, <1>5, <1>6, <1>7, CallFrame

\* What a new request is.
LEMMA NewRequest ==
  ASSUME TypeOK, NEW d \in Clients, NEW method \in Methods, NEW k \in Keys \cup {Nobody},
         NEW s \in States \cup {Nobody}, NEW what, Request(d, method, k, s, what \in told)
  PROVE  /\ client' \in [Clients -> [pc : {"idle", "request", "reply"}, method : Methods,
                                  key : Keys \cup {Nobody}, state : States \cup {Nobody},
                                  reply : Replies, known : BOOLEAN]]
         /\ \A e \in Clients : e # d => client'[e] = client[e]
         /\ client'[d].pc = "request" /\ client'[d].method = method
         /\ client'[d].key = k /\ client'[d].state = s
         /\ client'[d].known => what \in told
PROOF
  <1>1. "request" \in {"idle", "request", "reply"} /\ "200" \in Replies
          /\ (what \in told) \in BOOLEAN
    BY DEF Replies
  <1>2. client \in [Clients -> [pc : {"idle", "request", "reply"}, method : Methods,
                                key : Keys \cup {Nobody}, state : States \cup {Nobody},
                                reply : Replies, known : BOOLEAN]]
    BY DEF TypeOK
  <1> QED
    BY <1>1, <1>2 DEF Request

LEMMA BeginStep ==
  ASSUME Inv, NEW d \in Clients,
         \/ EnsureBucket(d)
         \/ \E k \in Keys : Load(d, k) \/ Exists(d, k) \/ (\E s \in States : Save(d, k, s))
  PROVE  Inv'
PROOF
  <1>1. /\ TypeOK
        /\ latest \in [Keys -> [by : Clients \cup {Nobody}, state : States \cup {Nobody},
                                sole : BOOLEAN, returned : BOOLEAN]]
    BY DEF Inv, TypeOK
  <1>2. /\ "bucket" \in told => bucket
        /\ \A k \in Keys : k \in told => objects[k] # Nobody
    BY DEF Inv, ToldIsTrue
  <1>3. CASE EnsureBucket(d)
    <2>1. Begin(d) /\ Request(d, "HEAD bucket", Nobody, Nobody, "bucket" \in told)
            /\ UNCHANGED <<bucket, objects, late, told, latest>>
      BY <1>3, Zenon DEF EnsureBucket
    <2>2. "HEAD bucket" \in Methods
      BY DEF Methods
    <2>3. /\ client' \in [Clients -> [pc : {"idle", "request", "reply"}, method : Methods,
                                  key : Keys \cup {Nobody}, state : States \cup {Nobody},
                                  reply : Replies, known : BOOLEAN]]
          /\ \A e \in Clients : e # d => client'[e] = client[e]
          /\ client'[d].pc = "request" /\ client'[d].method = "HEAD bucket"
          /\ client'[d].key = Nobody /\ client'[d].state = Nobody
          /\ client'[d].known => "bucket" \in told
      BY <1>1, <2>1, <2>2, NewRequest, Zenon
    <2>4. WellFormed(d)' /\ (client'[d].known => Present(client'[d].method, client'[d].key))
      BY <1>2, <2>3 DEF WellFormed, Got, Present, ObjectMethods
    <2> QED
      BY <1>1, <2>1, <2>3, <2>4, BeginKeepsInv
  <1>4. ASSUME NEW k \in Keys, Load(d, k) \/ Exists(d, k)
        PROVE  Inv'
    <2>1. PICK method \in {"GET", "HEAD"} :
            Begin(d) /\ Request(d, method, k, Nobody, k \in told)
              /\ UNCHANGED <<bucket, objects, late, told, latest>>
      BY <1>4, Zenon DEF Load, Exists
    <2>2. method \in Methods
      BY DEF Methods
    <2>3. /\ client' \in [Clients -> [pc : {"idle", "request", "reply"}, method : Methods,
                                  key : Keys \cup {Nobody}, state : States \cup {Nobody},
                                  reply : Replies, known : BOOLEAN]]
          /\ \A e \in Clients : e # d => client'[e] = client[e]
          /\ client'[d].pc = "request" /\ client'[d].method = method
          /\ client'[d].key = k /\ client'[d].state = Nobody
          /\ client'[d].known => k \in told
      BY <1>1, <2>1, <2>2, NewRequest, Zenon
    <2>4. WellFormed(d)' /\ (client'[d].known => Present(client'[d].method, client'[d].key))
      BY <1>2, <2>3 DEF WellFormed, Got, Present, ObjectMethods
    <2> QED
      BY <1>1, <2>1, <2>3, <2>4, BeginKeepsInv
  <1>5. ASSUME NEW k \in Keys, NEW s \in States, Save(d, k, s)
        PROVE  Inv'
    <2>1. Begin(d) /\ Request(d, "PUT", k, s, "bucket" \in told)
            /\ UNCHANGED <<bucket, objects, late, told>>
      BY <1>5, Zenon DEF Save
    <2>2. "PUT" \in Methods
      BY DEF Methods
    <2>3. /\ client' \in [Clients -> [pc : {"idle", "request", "reply"}, method : Methods,
                                  key : Keys \cup {Nobody}, state : States \cup {Nobody},
                                  reply : Replies, known : BOOLEAN]]
          /\ \A e \in Clients : e # d => client'[e] = client[e]
          /\ client'[d].pc = "request" /\ client'[d].method = "PUT"
          /\ client'[d].key = k /\ client'[d].state = s
          /\ client'[d].known => "bucket" \in told
      BY <1>1, <2>1, <2>2, NewRequest, Zenon
    <2>4. WellFormed(d)' /\ (client'[d].known => Present(client'[d].method, client'[d].key))
      BY <1>2, <2>3 DEF WellFormed, Got, Present, ObjectMethods
    <2>5. latest' \in [Keys -> [by : Clients \cup {Nobody}, state : States \cup {Nobody},
                                sole : BOOLEAN, returned : BOOLEAN]]
      <3>1. (~UnderWay(k)) \in BOOLEAN
        OBVIOUS
      <3> QED
        BY <1>1, <1>5, <3>1 DEF Save
    <2> QED
      BY <1>1, <2>1, <2>3, <2>4, <2>5, BeginKeepsInv
  <1> QED
    BY <1>3, <1>4, <1>5

-----------------------------------------------------------------------------
\* What the object store does takes nothing away.
LEMMA PutKeeps ==
  ASSUME TypeOK, NEW k \in Keys, NEW s \in States, Put(k, s)
  PROVE  /\ objects' \in [Keys -> States \cup {Nobody}]
         /\ ~bucket => objects' = objects
         /\ bucket => objects'[k] = s
         /\ \A j \in Keys : objects[j] # Nobody => objects'[j] # Nobody
BY NamesAssumption DEF TypeOK, Put

LEMMA ServeStep == ASSUME Inv, NEW d \in Clients, Serve(d) PROVE Inv'
PROOF
  <1> DEFINE r == client[d]
  <1>1. TypeOK /\ ToldIsTrue /\ WellFormed(d) /\ Truthful(d) /\ Remembered(d)
    BY DEF Inv
  <1>2. /\ r.pc = "request" /\ r.method \in Methods /\ r.known \in BOOLEAN
        /\ r.state \in States \cup {Nobody} /\ r.key \in Keys \cup {Nobody}
    BY <1>1 DEF Serve, TypeOK
  <1>3. r.method \in ObjectMethods => r.key \in Keys
    BY <1>1, <1>2 DEF WellFormed
  <1>4. /\ bucket' \in BOOLEAN /\ (bucket => bucket')
        /\ objects' \in [Keys -> States \cup {Nobody}]
        /\ \A j \in Keys : objects[j] # Nobody => objects'[j] # Nobody
        /\ ~bucket => objects' = objects
        /\ r.method # "PUT" => objects' = objects
        /\ r.method = "PUT" /\ bucket => objects'[r.key] # Nobody
    <2>1. bucket' \in BOOLEAN /\ (bucket => bucket')
      BY <1>1 DEF Serve, TypeOK
    <2>2. CASE r.method = "PUT"
      <3>1. r.key \in Keys /\ r.state \in States /\ Put(r.key, r.state)
        BY <1>1, <1>2, <2>2 DEF Serve, WellFormed, ObjectMethods
      <3> QED
        BY <1>1, <2>1, <2>2, <3>1, PutKeeps, NamesAssumption
    <2>3. CASE r.method # "PUT"
      BY <1>1, <2>1, <2>3 DEF Serve, TypeOK
    <2> QED
      BY <2>2, <2>3
  <1>5. ReplyTo(r.method, r.key) \in Replies
    BY DEF ReplyTo, Replies
  <1>6. /\ client' \in [Clients -> [pc : {"idle", "request", "reply"}, method : Methods,
                             key : Keys \cup {Nobody}, state : States \cup {Nobody},
                             reply : Replies, known : BOOLEAN]]
        /\ client'[d].pc = "reply" /\ client'[d].method = r.method /\ client'[d].key = r.key
        /\ client'[d].known = r.known /\ client'[d].reply = ReplyTo(r.method, r.key)
        /\ client'[d].state = IF r.method = "GET" THEN objects[r.key] ELSE r.state
        /\ \A e \in Clients : e # d => client'[e] = client[e]
    <2>1. (IF r.method = "GET" THEN objects[r.key] ELSE r.state) \in States \cup {Nobody}
      BY <1>1, <1>2, <1>3 DEF TypeOK, ObjectMethods
    <2>2. client \in [Clients -> [pc : {"idle", "request", "reply"}, method : Methods,
                             key : Keys \cup {Nobody}, state : States \cup {Nobody},
                             reply : Replies, known : BOOLEAN]]
      BY <1>1 DEF TypeOK
    <2> DEFINE s == IF r.method = "GET" THEN objects[r.key] ELSE r.state
    <2>3. client' = [client EXCEPT ![d] = [r EXCEPT !.pc = "reply",
                       !.reply = ReplyTo(r.method, r.key), !.state = s]]
      BY <2>2 DEF Serve
    <2>a. s \in States \cup {Nobody}
      BY <2>1
    <2> HIDE DEF s
    <2>4. client'[d] = [r EXCEPT !.pc = "reply", !.reply = ReplyTo(r.method, r.key),
                         !.state = s]
      BY <2>2, <2>3
    <2>5. client'[d] \in [pc : {"idle", "request", "reply"}, method : Methods,
                         key : Keys \cup {Nobody}, state : States \cup {Nobody},
                         reply : Replies, known : BOOLEAN]
      BY <1>5, <2>a, <2>2, <2>4
    <2>6. client'[d].state = IF r.method = "GET" THEN objects[r.key] ELSE r.state
      BY <2>2, <2>4 DEF s
    <2> QED
      BY <1>2, <2>2, <2>3, <2>4, <2>5, <2>6
  <1>7. UNCHANGED <<late, answer, calls, told, latest>>
    BY DEF Serve
  <1>8. TypeOK'
    <2>1. ~bucket' => \A k \in Keys : objects'[k] = Nobody
      BY <1>1, <1>4 DEF TypeOK
    <2> QED
      BY <1>1, <1>4, <1>6, <1>7, <2>1 DEF TypeOK
  <1>9. ToldIsTrue'
    BY <1>1, <1>4, <1>7 DEF ToldIsTrue
  <1>10. WellFormed(d)'
    <2>1. Got(d, "GET", "200")' => client'[d].state \in States
      <3>1. SUFFICES ASSUME client'[d].method = "GET", client'[d].reply = "200"
                     PROVE  client'[d].state \in States
        BY DEF Got
      <3>2. r.method = "GET" /\ ReplyTo("GET", r.key) = "200"
        BY <1>6, <3>1
      <3>3. objects[r.key] # Nobody /\ r.key \in Keys
        BY <1>3, <3>2 DEF ReplyTo, ObjectMethods
      <3> QED
        BY <1>1, <1>6, <3>2, <3>3 DEF TypeOK
    <2>2. r.method = "PUT" => r.state \in States
      BY <1>1, <1>2 DEF WellFormed
    <2>3. r.method \notin ObjectMethods => r.key = Nobody /\ r.state = Nobody
      BY <1>1, <1>2 DEF WellFormed
    <2> QED
      BY <1>3, <1>6, <2>1, <2>2, <2>3 DEF WellFormed, ObjectMethods
  <1>11. Truthful(d)'
    <2>1. r.known => Present(r.method, r.key)
      BY <1>1, <1>2 DEF Truthful
    <2>2. r.known =>
            /\ IF r.method \in {"HEAD", "GET"} THEN objects'[r.key] # Nobody ELSE bucket'
            /\ ReplyTo(r.method, r.key) # "404"
      <3>1. CASE r.method \in {"HEAD", "GET"}
        BY <1>3, <1>4, <2>1, <3>1 DEF Present, ReplyTo, ObjectMethods
      <3>2. CASE r.method = "PUT"
        BY <1>4, <2>1, <3>2 DEF Present, ReplyTo
      <3>3. CASE r.method = "HEAD bucket"
        BY <1>4, <2>1, <3>3 DEF Present, ReplyTo
      <3>4. CASE r.method = "PUT bucket"
        BY <1>4, <2>1, <3>4 DEF Present, ReplyTo
      <3> QED
        BY <1>2, <3>1, <3>2, <3>3, <3>4 DEF Methods
    <2>3. ASSUME ReplyTo(r.method, r.key) = "200"
          PROVE  bucket' /\ (r.method \in ObjectMethods => objects'[r.key] # Nobody)
      <3>1. \A k \in Keys : objects[k] # Nobody => bucket
        BY <1>1 DEF TypeOK
      <3>2. CASE r.method \in {"HEAD", "GET"}
        BY <1>3, <1>4, <2>3, <3>1, <3>2 DEF ReplyTo, ObjectMethods
      <3>3. CASE r.method = "PUT"
        BY <1>3, <1>4, <2>3, <3>3 DEF ReplyTo, ObjectMethods
      <3>4. CASE r.method = "HEAD bucket"
        BY <1>4, <2>3, <3>4 DEF ReplyTo, ObjectMethods
      <3>5. CASE r.method = "PUT bucket"
        BY <3>5 DEF Serve, ObjectMethods
      <3> QED
        BY <1>2, <3>2, <3>3, <3>4, <3>5 DEF Methods
    <2> QED
      BY <1>6, <2>2, <2>3 DEF Truthful, Present
  <1>12. Remembered(d)'
    BY <1>1, <1>7 DEF Remembered
  <1> QED
    BY <1>4, <1>6, <1>7, <1>8, <1>9, <1>10, <1>11, <1>12, CallFrame

LEMMA RefuseStep == ASSUME Inv, NEW d \in Clients, Refuse(d) PROVE Inv'
PROOF
  <1>1. TypeOK /\ ToldIsTrue /\ WellFormed(d) /\ Truthful(d) /\ Remembered(d)
    BY DEF Inv
  <1>2. /\ client' \in [Clients -> [pc : {"idle", "request", "reply"}, method : Methods,
                             key : Keys \cup {Nobody}, state : States \cup {Nobody},
                             reply : Replies, known : BOOLEAN]]
        /\ client'[d].pc = "reply" /\ client'[d].reply = "503"
        /\ client[d].pc = "request"
        /\ client'[d].method = client[d].method /\ client'[d].key = client[d].key
        /\ client'[d].state = client[d].state /\ client'[d].known = client[d].known
        /\ \A e \in Clients : e # d => client'[e] = client[e]
    <2>1. client \in [Clients -> [pc : {"idle", "request", "reply"}, method : Methods,
                             key : Keys \cup {Nobody}, state : States \cup {Nobody},
                             reply : Replies, known : BOOLEAN]]
      BY <1>1 DEF TypeOK
    <2>2. /\ client' = [client EXCEPT ![d].pc = "reply", ![d].reply = "503"]
          /\ client[d].pc = "request"
      BY DEF Refuse
    <2>3. client'[d] = [client[d] EXCEPT !.pc = "reply", !.reply = "503"]
      BY <2>1, <2>2
    <2>4. client'[d] \in [pc : {"idle", "request", "reply"}, method : Methods,
                         key : Keys \cup {Nobody}, state : States \cup {Nobody},
                         reply : Replies, known : BOOLEAN]
      BY <2>1, <2>3 DEF Replies
    <2> QED
      BY <2>1, <2>2, <2>3, <2>4
  <1>3. TypeOK'
    BY <1>1, <1>2 DEF Refuse, TypeOK
  <1>4. WellFormed(d)' /\ Truthful(d)' /\ Remembered(d)' /\ ToldIsTrue'
    BY <1>1, <1>2
    DEF Refuse, TypeOK, WellFormed, Truthful, Remembered, ToldIsTrue, Got, Present
  <1> QED
    BY <1>2, <1>3, <1>4, CallFrame DEF Refuse

LEMMA ServeLateStep == ASSUME Inv, NEW p \in late, ServeLate(p) PROVE Inv'
PROOF
  <1>1. TypeOK
    BY DEF Inv
  <1>2. \/ p.key = Nobody
        \/ p.key \in Keys /\ p.state \in States /\ p.key # Nobody
    BY <1>1, NamesAssumption DEF TypeOK
  <1>3. /\ bucket' \in BOOLEAN /\ (bucket => bucket')
        /\ objects' \in [Keys -> States \cup {Nobody}]
        /\ \A j \in Keys : objects[j] # Nobody => objects'[j] # Nobody
        /\ ~bucket => objects' = objects
    <2>1. CASE p.key = Nobody
      BY <1>1, <2>1 DEF ServeLate, TypeOK
    <2>2. CASE p.key \in Keys /\ p.state \in States /\ p.key # Nobody
      <3>1. Put(p.key, p.state) /\ bucket' = bucket
        BY <2>2 DEF ServeLate
      <3> QED
        BY <1>1, <2>2, <3>1, PutKeeps DEF TypeOK
    <2> QED
      BY <1>2, <2>1, <2>2
  <1>4. UNCHANGED <<client, answer, calls, told, latest>> /\ late' \subseteq late
    BY DEF ServeLate
  <1>5. TypeOK'
    <2>1. ~bucket' => \A k \in Keys : objects'[k] = Nobody
      BY <1>1, <1>3 DEF TypeOK
    <2> QED
      BY <1>1, <1>3, <1>4, <2>1 DEF TypeOK
  <1>6. ToldIsTrue'
    BY <1>3, <1>4 DEF Inv, ToldIsTrue
  <1>7. ASSUME NEW d \in Clients
        PROVE  WellFormed(d)' /\ Truthful(d)' /\ Remembered(d)'
    <2>1. WellFormed(d) /\ Truthful(d) /\ Remembered(d) /\ client'[d] = client[d]
            /\ answer'[d] = answer[d]
      BY <1>4 DEF Inv
    <2>2. client[d].pc # "idle" /\ client[d].method \in ObjectMethods =>
            (objects[client[d].key] # Nobody => objects'[client[d].key] # Nobody)
      BY <1>3, <2>1 DEF WellFormed
    <2>3. WellFormed(d)' /\ Remembered(d)'
      BY <2>1 DEF WellFormed, Remembered, Got
    <2>4. Truthful(d)'
      BY <1>3, <2>1, <2>2 DEF Truthful, Present, ObjectMethods
    <2> QED
      BY <2>3, <2>4
  <1> QED
    BY <1>5, <1>6, <1>7 DEF Inv

-----------------------------------------------------------------------------
\* A call ends: what its reply says is remembered by everybody.
LEMMA ReturnKeepsInv ==
  ASSUME Inv, NEW d \in Clients, NEW how \in Answers, Return(d, how),
         UNCHANGED <<bucket, objects, calls>>,
         how = "loaded" => client[d].state \in States,
         client[d].known => how \notin {"missing", "404"},
         told' \subseteq Keys \cup {"bucket"}, ToldIsTrue',
         late' \subseteq [key : Keys, state : States] \cup [key : {Nobody}, state : {Nobody}],
         latest' \in [Keys -> [by : Clients \cup {Nobody}, state : States \cup {Nobody},
                               sole : BOOLEAN, returned : BOOLEAN]]
  PROVE  Inv'
PROOF
  <1>1. TypeOK
    BY DEF Inv
  <1>2. /\ client' \in [Clients -> [pc : {"idle", "request", "reply"}, method : Methods,
                             key : Keys \cup {Nobody}, state : States \cup {Nobody},
                             reply : Replies, known : BOOLEAN]]
        /\ answer' \in [Clients -> [how : Answers, key : Keys \cup {Nobody},
                             state : States \cup {Nobody}, known : BOOLEAN]]
        /\ client'[d].pc = "idle"
        /\ answer'[d].how = how /\ answer'[d].known = client[d].known
        /\ answer'[d].state = client[d].state
        /\ \A e \in Clients : e # d => client'[e] = client[e] /\ answer'[e] = answer[e]
    BY <1>1, ReturnMoves
  <1>3. \A e \in Clients : answer'[e].how = "loaded" => answer'[e].state \in States
    BY <1>1, <1>2 DEF TypeOK
  <1>4. TypeOK'
    BY <1>1, <1>2, <1>3 DEF TypeOK
  <1>5. WellFormed(d)' /\ Truthful(d)' /\ Remembered(d)'
    BY <1>2 DEF WellFormed, Truthful, Remembered, Got
  <1> QED
    BY <1>2, <1>4, <1>5, CallFrame

LEMMA ReceiveStep == ASSUME Inv, NEW d \in Clients, Receive(d) PROVE Inv'
PROOF
  <1> DEFINE r == client[d]
  <1>1. TypeOK /\ ToldIsTrue /\ WellFormed(d) /\ Truthful(d)
    BY DEF Inv
  <1>2. /\ told \subseteq Keys \cup {"bucket"}
        /\ late \subseteq [key : Keys, state : States] \cup [key : {Nobody}, state : {Nobody}]
        /\ latest \in [Keys -> [by : Clients \cup {Nobody}, state : States \cup {Nobody},
                                sole : BOOLEAN, returned : BOOLEAN]]
    BY <1>1 DEF TypeOK
  <1>3. CASE BucketIsThere(d) \/ BucketIsMade(d)
    <2>1. bucket /\ Return(d, "ensured") /\ told' = told \cup {"bucket"} /\ "ensured" \in Answers
      BY <1>1, <1>3 DEF BucketIsThere, BucketIsMade, Got, Truthful, Answers
    <2>2. UNCHANGED <<bucket, objects, late, calls, latest>>
      BY <1>3 DEF BucketIsThere, BucketIsMade
    <2>3. ToldIsTrue'
      BY <1>1, <2>1, <2>2, NamesAssumption DEF ToldIsTrue
    <2>4. told' \subseteq Keys \cup {"bucket"}
      BY <1>2, <2>1
    <2> QED
      BY <1>2, <2>1, <2>2, <2>3, <2>4, ReturnKeepsInv
  <1>4. CASE Stored(d) \/ Loaded(d) \/ IsThere(d)
    <2>1. PICK how \in {"saved", "loaded", "there"} :
            Return(d, how) /\ (how = "loaded" => Got(d, "GET", "200"))
      BY <1>4 DEF Stored, Loaded, IsThere
    <2>2. /\ told' = told \cup {r.key} /\ r.pc = "reply" /\ r.reply = "200"
          /\ r.method \in ObjectMethods
          /\ UNCHANGED <<bucket, objects, late, calls>>
      BY <1>4 DEF Stored, Loaded, IsThere, Got, ObjectMethods
    <2>3. r.key \in Keys /\ objects[r.key] # Nobody
      BY <1>1, <2>2 DEF WellFormed, Truthful
    <2>4. ToldIsTrue'
      BY <1>1, <2>2, <2>3, NamesAssumption DEF ToldIsTrue
    <2>5. told' \subseteq Keys \cup {"bucket"}
      BY <1>2, <2>2, <2>3
    <2>6. latest' \in [Keys -> [by : Clients \cup {Nobody}, state : States \cup {Nobody},
                                sole : BOOLEAN, returned : BOOLEAN]]
      <3>1. CASE Stored(d)
        <4> DEFINE known == latest[r.key].returned \/ latest[r.key].by = d
        <4>1. latest' = [latest EXCEPT ![r.key] = [latest[r.key] EXCEPT !.returned = known]]
          BY <1>2, <2>3, <3>1 DEF Stored
        <4>2. known \in BOOLEAN
          OBVIOUS
        <4> HIDE DEF known
        <4>3. [latest[r.key] EXCEPT !.returned = known]
                \in [by : Clients \cup {Nobody}, state : States \cup {Nobody},
                     sole : BOOLEAN, returned : BOOLEAN]
          BY <1>2, <2>3, <4>2
        <4> QED
          BY <1>2, <2>3, <4>1, <4>3
      <3>2. CASE Loaded(d) \/ IsThere(d)
        BY <1>2, <3>2 DEF Loaded, IsThere
      <3> QED
        BY <1>4, <3>1, <3>2
    <2>7. how \in Answers /\ how \notin {"missing", "404"}
      BY DEF Answers
    <2>8. how = "loaded" => r.state \in States
      BY <1>1, <2>1, <2>2 DEF WellFormed
    <2> QED
      BY <1>2, <2>1, <2>2, <2>4, <2>5, <2>6, <2>7, <2>8, ReturnKeepsInv
  <1>5. CASE IsMissing(d) \/ Raises(d)
    <2>1. PICK how \in {"missing", "404", "409", "503"} :
            Return(d, how) /\ (how \in {"missing", "404"} => r.reply = "404")
      BY <1>1, <1>5 DEF IsMissing, Raises, Got, TypeOK, Replies
    <2>2. r.pc = "reply" /\ UNCHANGED <<bucket, objects, late, calls, told, latest>>
      BY <1>5 DEF IsMissing, Raises, Got
    <2>3. r.known => how \notin {"missing", "404"}
      BY <1>1, <2>1, <2>2 DEF Truthful
    <2>4. ToldIsTrue' /\ how \in Answers /\ how # "loaded"
      BY <1>1, <2>2 DEF ToldIsTrue, Answers
    <2> QED
      BY <1>2, <2>1, <2>2, <2>3, <2>4, ReturnKeepsInv
  <1>6. CASE TimesOut(d)
    <2>1. Return(d, "timeout") /\ UNCHANGED <<bucket, objects, calls, told, latest>>
      BY <1>6 DEF TimesOut
    <2>2. late' \subseteq [key : Keys, state : States] \cup [key : {Nobody}, state : {Nobody}]
      <3>1. CASE r.method = "PUT"
        <4>1. r.key \in Keys /\ r.state \in States
          BY <1>1, <1>6, <3>1 DEF TimesOut, WellFormed, ObjectMethods
        <4>2. [key |-> r.key, state |-> r.state] \in [key : Keys, state : States]
          BY <4>1
        <4> QED
          BY <1>2, <1>6, <4>2 DEF TimesOut
      <3>2. CASE r.method = "PUT bucket"
        <4>1. r.key = Nobody /\ r.state = Nobody
          BY <1>1, <1>6, <3>2 DEF TimesOut, WellFormed, ObjectMethods
        <4>2. [key |-> r.key, state |-> r.state] \in [key : {Nobody}, state : {Nobody}]
          BY <4>1
        <4> QED
          BY <1>2, <1>6, <4>2 DEF TimesOut
      <3>3. CASE UNCHANGED late
        BY <1>2, <3>3
      <3> QED
        BY <1>6, <3>1, <3>2, <3>3 DEF TimesOut
    <2>3. ToldIsTrue' /\ "timeout" \in Answers
      BY <1>1, <2>1 DEF ToldIsTrue, Answers
    <2> QED
      BY <1>2, <2>1, <2>2, <2>3, ReturnKeepsInv
  <1>7. CASE BucketIsMissing(d)
    <2>1. /\ Request(d, "PUT bucket", Nobody, Nobody, r.known)
          /\ r.pc = "reply" /\ r.reply = "404"
          /\ UNCHANGED <<bucket, objects, late, answer, calls, told, latest>>
      BY <1>7 DEF BucketIsMissing, Got
    <2>2. r.known \in BOOLEAN /\ "PUT bucket" \in Methods
      BY <1>1 DEF TypeOK, Methods
    <2>3. ~r.known
      BY <1>1, <2>1 DEF Truthful
    <2>4. /\ client' \in [Clients -> [pc : {"idle", "request", "reply"}, method : Methods,
                               key : Keys \cup {Nobody}, state : States \cup {Nobody},
                               reply : Replies, known : BOOLEAN]]
          /\ client'[d].pc = "request" /\ client'[d].method = "PUT bucket"
          /\ client'[d].key = Nobody /\ client'[d].state = Nobody
          /\ client'[d].known => r.known
          /\ \A e \in Clients : e # d => client'[e] = client[e]
      BY <1>1, <2>1, <2>2 DEF Request, TypeOK, Replies
    <2>5. TypeOK'
      BY <1>1, <2>1, <2>4 DEF TypeOK
    <2>6. WellFormed(d)' /\ Truthful(d)'
      <3>1. WellFormed(d)'
        BY <2>4 DEF WellFormed, Got, ObjectMethods
      <3>2. ~client'[d].known
        BY <2>3, <2>4
      <3>3. Truthful(d)'
        BY <2>4, <3>2 DEF Truthful
      <3> QED
        BY <3>1, <3>3
    <2>7. ToldIsTrue' /\ Remembered(d)'
      BY <1>1, <2>1 DEF Inv, ToldIsTrue, Remembered
    <2> QED
      BY <2>1, <2>4, <2>5, <2>6, <2>7, CallFrame
  <1> QED
    BY <1>3, <1>4, <1>5, <1>6, <1>7 DEF Receive

-----------------------------------------------------------------------------
LEMMA NextInv == Inv /\ [Next]_vars => Inv'
PROOF
  <1> SUFFICES ASSUME Inv, [Next]_vars PROVE Inv'
    OBVIOUS
  <1>1. CASE UNCHANGED vars
    BY <1>1
    DEF vars, Inv, TypeOK, ToldIsTrue, WellFormed, Truthful, Remembered, Got, Present
  <1>2. CASE Next
    BY <1>2, BeginStep, ServeStep, RefuseStep, ServeLateStep, ReceiveStep DEF Next
  <1> QED
    BY <1>1, <1>2

LEMMA InvIsInvariant == Spec => []Inv
BY InitInv, NextInv, PTL DEF Spec

\* In every state the variables have their types, the bucket holds whatever
\* is held, and a load that returned has given a state: the error replies of
\* the store never pass for an object.
THEOREM TypeCorrect == Spec => []TypeOK
PROOF
  <1>1. Inv => TypeOK
    BY DEF Inv
  <1> QED
    BY <1>1, InvIsInvariant, PTL

\* What any client was told to exist is never denied later, however many
\* requests time out, arrive late or are refused.
THEOREM NothingToldIsForgotten == Spec => []NothingIsForgotten
PROOF
  <1>1. Inv => NothingIsForgotten
    BY DEF Inv, NothingIsForgotten, Remembered
  <1> QED
    BY <1>1, InvIsInvariant, PTL

-----------------------------------------------------------------------------
(* What a save that began alone can meet: only its own request, late or    *)
(* not.  A later save of the key is the latest itself.                     *)

Saving(d, k) == client[d].pc # "idle" /\ client[d].method = "PUT" /\ client[d].key = k

\* A late PUT of k carries what the latest save of k does.
LateAgrees(k) == \A p \in late : p.key = k => p.state = latest[k].state

\* So does a PUT the store has not seen, and the saver's own; when that one
\* is answered, the object is what was sent.
SaverAgrees(d, k) ==
  Saving(d, k) =>
    /\ client[d].pc = "request" \/ latest[k].by = d => client[d].state = latest[k].state
    /\ client[d].pc = "reply" /\ client[d].reply = "200" /\ latest[k].by = d =>
         objects[k] = latest[k].state

Undisturbed(k) ==
  latest[k].sole =>
    /\ LateAgrees(k)
    /\ \A d \in Clients : SaverAgrees(d, k)
    /\ latest[k].returned => objects[k] = latest[k].state

Alone == \A k \in Keys : Undisturbed(k)

\* A step that leaves objects and histories alone and brings no PUT.
LEMMA QuietKeepsAlone ==
  ASSUME Alone, NEW d \in Clients,
         UNCHANGED <<objects, latest>>, late' \subseteq late,
         \A e \in Clients : e # d => client'[e] = client[e],
         client'[d].pc = "idle" \/ client'[d].method # "PUT"
  PROVE  Alone'
PROOF
  <1> SUFFICES ASSUME NEW k \in Keys, latest[k].sole
               PROVE  /\ LateAgrees(k)'
                      /\ \A e \in Clients : SaverAgrees(e, k)'
                      /\ latest[k].returned => objects[k] = latest[k].state
    BY DEF Alone, Undisturbed
  <1>1. /\ LateAgrees(k) /\ (\A e \in Clients : SaverAgrees(e, k))
        /\ latest[k].returned => objects[k] = latest[k].state
    BY DEF Alone, Undisturbed
  <1>2. ASSUME NEW e \in Clients PROVE SaverAgrees(e, k)'
    <2>1. CASE e = d
      BY <2>1 DEF SaverAgrees, Saving
    <2>2. CASE e # d
      BY <1>1, <2>2 DEF SaverAgrees, Saving
    <2> QED
      BY <2>1, <2>2
  <1> QED
    BY <1>1, <1>2 DEF LateAgrees

LEMMA BeginKeepsAlone ==
  ASSUME Inv, Alone, NEW d \in Clients,
         \/ EnsureBucket(d)
         \/ \E k \in Keys : Load(d, k) \/ Exists(d, k) \/ (\E s \in States : Save(d, k, s))
  PROVE  Alone'
PROOF
  <1>1. /\ TypeOK /\ client[d].pc = "idle"
        /\ latest \in [Keys -> [by : Clients \cup {Nobody}, state : States \cup {Nobody},
                                sole : BOOLEAN, returned : BOOLEAN]]
    BY DEF Inv, TypeOK, Begin, EnsureBucket, Load, Exists, Save
  <1>2. ASSUME NEW method \in Methods \ {"PUT"}, NEW k \in Keys \cup {Nobody}, NEW what,
               Request(d, method, k, Nobody, what \in told),
               UNCHANGED <<objects, latest, late>>
        PROVE  Alone'
    <2>1. method \in Methods /\ method # "PUT" /\ Nobody \in States \cup {Nobody}
      OBVIOUS
    <2>2. client'[d].method = method /\ \A e \in Clients : e # d => client'[e] = client[e]
      BY <1>1, <1>2, <2>1, NewRequest, Zenon
    <2> QED
      BY <1>2, <2>1, <2>2, QuietKeepsAlone
  <1>3. CASE EnsureBucket(d)
    BY <1>2, <1>3 DEF EnsureBucket, Methods
  <1>4. ASSUME NEW k \in Keys, Load(d, k) \/ Exists(d, k)
        PROVE  Alone'
    <2>1. PICK method \in {"GET", "HEAD"} :
            Request(d, method, k, Nobody, k \in told) /\ UNCHANGED <<objects, latest, late>>
      BY <1>4, Zenon DEF Load, Exists
    <2>2. method \in Methods \ {"PUT"}
      BY DEF Methods
    <2> QED
      BY <1>2, <2>1, <2>2
  <1>5. ASSUME NEW k \in Keys, NEW s \in States, Save(d, k, s)
        PROVE  Alone'
    <2>1. Request(d, "PUT", k, s, "bucket" \in told) /\ UNCHANGED <<objects, late>>
      BY <1>5, Zenon DEF Save
    <2>2. /\ client'[d].pc = "request" /\ client'[d].method = "PUT"
          /\ client'[d].key = k /\ client'[d].state = s
          /\ \A e \in Clients : e # d => client'[e] = client[e]
      <3>1. "PUT" \in Methods
        BY DEF Methods
      <3> QED
        BY <1>1, <2>1, <3>1, NewRequest, Zenon
    <2>3. /\ latest'[k].by = d /\ latest'[k].state = s /\ latest'[k].returned = FALSE
          /\ latest'[k].sole = ~UnderWay(k)
          /\ \A j \in Keys : j # k => latest'[j] = latest[j]
      BY <1>1, <1>5 DEF Save
    <2>4. ASSUME ~UnderWay(k) PROVE Undisturbed(k)'
      <3>1. LateAgrees(k)'
        BY <2>1, <2>4 DEF UnderWay, LateAgrees
      <3>2. ASSUME NEW e \in Clients PROVE SaverAgrees(e, k)'
        <4>1. CASE e = d
          BY <2>2, <2>3, <4>1 DEF SaverAgrees
        <4>2. CASE e # d
          <5>1. Saving(e, k)' => client'[e].pc # "request"
            BY <2>2, <2>4, <4>2 DEF UnderWay, Saving
          <5> QED
            BY <2>3, <4>2, <5>1 DEF SaverAgrees
        <4> QED
          BY <4>1, <4>2
      <3> QED
        BY <2>3, <3>1, <3>2 DEF Undisturbed
    <2>5. ASSUME NEW j \in Keys, j # k PROVE Undisturbed(j)'
      <3>1. Undisturbed(j) /\ latest'[j] = latest[j]
        BY <2>3, <2>5 DEF Alone
      <3>2. ASSUME NEW e \in Clients, SaverAgrees(e, j) PROVE SaverAgrees(e, j)'
        <4>1. CASE e = d
          BY <2>2, <2>5, <4>1 DEF SaverAgrees, Saving
        <4>2. CASE e # d
          BY <2>1, <2>2, <3>1, <3>2, <4>2 DEF SaverAgrees, Saving
        <4> QED
          BY <4>1, <4>2
      <3> QED
        BY <2>1, <3>1, <3>2 DEF Undisturbed, LateAgrees
    <2>6. Undisturbed(k)'
      BY <2>3, <2>4 DEF Undisturbed
    <2> QED
      BY <2>5, <2>6 DEF Alone
  <1> QED
    BY <1>3, <1>4, <1>5

\* The store applies a PUT of k with the state the latest save of k has.
LEMMA PutKeepsReturned ==
  ASSUME TypeOK, NEW k \in Keys, NEW s \in States, Put(k, s)
  PROVE  \A j \in Keys : objects'[j] = objects[j] \/ (j = k /\ objects'[j] = s)
BY DEF TypeOK, Put

LEMMA ServeKeepsAlone == ASSUME Inv, Alone, NEW d \in Clients, Serve(d) PROVE Alone'
PROOF
  <1> DEFINE r == client[d]
  <1>1. TypeOK /\ WellFormed(d) /\ r.pc = "request"
    BY DEF Inv, Serve
  <1>2. UNCHANGED <<late, latest>>
    BY DEF Serve
  <1>3. /\ client'[d].pc = "reply" /\ client'[d].method = r.method /\ client'[d].key = r.key
        /\ client'[d].reply = ReplyTo(r.method, r.key)
        /\ r.method # "GET" => client'[d].state = r.state
        /\ \A e \in Clients : e # d => client'[e] = client[e]
    <2>1. client \in [Clients -> [pc : {"idle", "request", "reply"}, method : Methods,
                             key : Keys \cup {Nobody}, state : States \cup {Nobody},
                             reply : Replies, known : BOOLEAN]]
      BY <1>1 DEF TypeOK
    <2> DEFINE s == IF r.method = "GET" THEN objects[r.key] ELSE r.state
               reply == ReplyTo(r.method, r.key)
    <2>2. client' = [client EXCEPT ![d] = [r EXCEPT !.pc = "reply", !.reply = reply,
                                                    !.state = s]]
      BY <2>1 DEF Serve
    <2>3. r.method # "GET" => s = r.state
      OBVIOUS
    <2> HIDE DEF s, reply
    <2>4. client'[d] = [r EXCEPT !.pc = "reply", !.reply = reply, !.state = s]
      BY <2>1, <2>2
    <2>5. /\ client'[d].pc = "reply" /\ client'[d].method = r.method
          /\ client'[d].key = r.key /\ client'[d].reply = reply /\ client'[d].state = s
      BY <2>1, <2>4
    <2> QED
      BY <2>1, <2>2, <2>3, <2>5 DEF reply
  <1>4. CASE r.method # "PUT"
    BY <1>2, <1>3, <1>4, QuietKeepsAlone DEF Serve
  <1>5. CASE r.method = "PUT"
    <2> DEFINE k == r.key
    <2>1. k \in Keys /\ r.state \in States /\ Put(k, r.state)
      BY <1>1, <1>5 DEF WellFormed, ObjectMethods, Serve
    <2>2. \A j \in Keys : objects'[j] = objects[j] \/ (j = k /\ objects'[j] = r.state)
      BY <1>1, <2>1, PutKeepsReturned
    <2>3. client'[d].reply = "200" => objects'[k] = r.state
      <3>1. bucket => objects'[k] = r.state
        BY <1>1, <2>1, PutKeeps
      <3> QED
        BY <1>3, <1>5, <3>1 DEF ReplyTo
    <2> SUFFICES ASSUME NEW j \in Keys, latest[j].sole
                 PROVE  /\ LateAgrees(j)'
                        /\ \A e \in Clients : SaverAgrees(e, j)'
                        /\ latest[j].returned => objects'[j] = latest[j].state
      BY <1>2 DEF Alone, Undisturbed
    <2>4. /\ LateAgrees(j) /\ (\A e \in Clients : SaverAgrees(e, j))
          /\ latest[j].returned => objects[j] = latest[j].state
      BY DEF Alone, Undisturbed
    <2>5. j = k => r.state = latest[j].state
      BY <1>1, <1>5, <2>4 DEF SaverAgrees, Saving
    <2>6. ASSUME NEW e \in Clients PROVE SaverAgrees(e, j)'
      <3>1. CASE e = d
        BY <1>2, <1>3, <1>5, <2>3, <2>5, <3>1 DEF SaverAgrees, Saving
      <3>2. CASE e # d
        <4>1. client'[e] = client[e] /\ SaverAgrees(e, j)
          BY <1>3, <2>4, <3>2
        <4>2. objects[j] = latest[j].state => objects'[j] = latest[j].state
          BY <2>2, <2>5
        <4> QED
          BY <1>2, <4>1, <4>2 DEF SaverAgrees, Saving
      <3> QED
        BY <3>1, <3>2
    <2> QED
      BY <1>2, <2>2, <2>4, <2>5, <2>6 DEF LateAgrees
  <1> QED
    BY <1>4, <1>5

LEMMA RefuseKeepsAlone == ASSUME Inv, Alone, NEW d \in Clients, Refuse(d) PROVE Alone'
PROOF
  <1>1. /\ client' = [client EXCEPT ![d].pc = "reply", ![d].reply = "503"]
        /\ client[d].pc = "request" /\ UNCHANGED <<objects, late, latest>>
    BY DEF Refuse
  <1>2. client \in [Clients -> [pc : {"idle", "request", "reply"}, method : Methods,
                           key : Keys \cup {Nobody}, state : States \cup {Nobody},
                           reply : Replies, known : BOOLEAN]]
    BY DEF Inv, TypeOK
  <1>3. client'[d] = [client[d] EXCEPT !.pc = "reply", !.reply = "503"]
    BY <1>1, <1>2
  <1>4. /\ client'[d].pc = "reply" /\ client'[d].reply = "503"
        /\ client'[d].method = client[d].method /\ client'[d].key = client[d].key
        /\ client'[d].state = client[d].state
        /\ \A e \in Clients : e # d => client'[e] = client[e]
    BY <1>1, <1>2, <1>3
  <1>5. ASSUME NEW k \in Keys, NEW e \in Clients, SaverAgrees(e, k)
        PROVE  SaverAgrees(e, k)'
    <2>1. CASE e = d
      BY <1>1, <1>4, <1>5, <2>1 DEF SaverAgrees, Saving
    <2>2. CASE e # d
      BY <1>1, <1>4, <1>5, <2>2 DEF SaverAgrees, Saving
    <2> QED
      BY <2>1, <2>2
  <1> QED
    BY <1>1, <1>5 DEF Alone, Undisturbed, LateAgrees

LEMMA ServeLateKeepsAlone ==
  ASSUME Inv, Alone, NEW p \in late, ServeLate(p) PROVE Alone'
PROOF
  <1>1. TypeOK /\ UNCHANGED <<client, latest>> /\ late' \subseteq late
    BY DEF Inv, ServeLate
  <1>2. \/ p.key = Nobody
        \/ p.key \in Keys /\ p.state \in States /\ p.key # Nobody
    BY <1>1, NamesAssumption DEF TypeOK
  <1>3. \A j \in Keys : objects'[j] = objects[j] \/ (j = p.key /\ objects'[j] = p.state)
    <2>1. CASE p.key = Nobody
      BY <2>1 DEF ServeLate
    <2>2. CASE p.key \in Keys /\ p.state \in States /\ p.key # Nobody
      <3>1. Put(p.key, p.state)
        BY <2>2 DEF ServeLate
      <3> QED
        BY <1>1, <2>2, <3>1, PutKeepsReturned
    <2> QED
      BY <1>2, <2>1, <2>2
  <1> SUFFICES ASSUME NEW k \in Keys, latest[k].sole
               PROVE  /\ LateAgrees(k)'
                      /\ \A e \in Clients : SaverAgrees(e, k)'
                      /\ latest[k].returned => objects'[k] = latest[k].state
    BY <1>1 DEF Alone, Undisturbed
  <1>4. /\ LateAgrees(k) /\ (\A e \in Clients : SaverAgrees(e, k))
        /\ latest[k].returned => objects[k] = latest[k].state
    BY DEF Alone, Undisturbed
  <1>5. objects[k] = latest[k].state => objects'[k] = latest[k].state
    BY <1>3, <1>4 DEF LateAgrees
  <1> QED
    BY <1>1, <1>4, <1>5 DEF LateAgrees, SaverAgrees, Saving

\* A call that ends brings nothing but, when it gives up, its own PUT.
LEMMA ReceiveKeepsAlone == ASSUME Inv, Alone, NEW d \in Clients, Receive(d) PROVE Alone'
PROOF
  <1> DEFINE r == client[d]
  <1>1. TypeOK /\ WellFormed(d)
    BY DEF Inv
  <1>2. /\ client \in [Clients -> [pc : {"idle", "request", "reply"}, method : Methods,
                           key : Keys \cup {Nobody}, state : States \cup {Nobody},
                           reply : Replies, known : BOOLEAN]]
        /\ latest \in [Keys -> [by : Clients \cup {Nobody}, state : States \cup {Nobody},
                           sole : BOOLEAN, returned : BOOLEAN]]
    BY <1>1 DEF TypeOK
  <1>3. ASSUME NEW how, Return(d, how)
        PROVE  client'[d].pc = "idle" /\ \A e \in Clients : e # d => client'[e] = client[e]
    BY <1>2, <1>3 DEF Return, Idle
  <1>4. CASE \/ BucketIsThere(d) \/ BucketIsMade(d) \/ Loaded(d) \/ IsThere(d)
             \/ IsMissing(d) \/ Raises(d)
    <2>1. PICK how : Return(d, how)
      BY <1>4
      DEF BucketIsThere, BucketIsMade, Loaded, IsThere, IsMissing, Raises
    <2>2. UNCHANGED <<objects, late, latest>>
      BY <1>4
      DEF BucketIsThere, BucketIsMade, Loaded, IsThere, IsMissing, Raises
    <2> QED
      BY <1>3, <2>1, <2>2, QuietKeepsAlone
  <1>5. CASE BucketIsMissing(d)
    <2>1. /\ Request(d, "PUT bucket", Nobody, Nobody, r.known)
          /\ UNCHANGED <<objects, late, latest>>
      BY <1>5 DEF BucketIsMissing
    <2>2. client'[d].method # "PUT" /\ \A e \in Clients : e # d => client'[e] = client[e]
      BY <1>2, <2>1 DEF Request
    <2> QED
      BY <2>1, <2>2, QuietKeepsAlone
  <1>6. CASE Stored(d)
    <2> DEFINE k == r.key
    <2>1. /\ Return(d, "saved") /\ UNCHANGED <<objects, late>>
          /\ r.pc = "reply" /\ r.method = "PUT" /\ r.reply = "200"
          /\ latest' = [latest EXCEPT ![k].returned = (@ \/ latest[k].by = d)]
      BY <1>6 DEF Stored, Got
    <2>2. k \in Keys
      BY <1>1, <2>1 DEF WellFormed, ObjectMethods
    <2>3. /\ latest'[k].by = latest[k].by /\ latest'[k].state = latest[k].state
          /\ latest'[k].sole = latest[k].sole
          /\ latest'[k].returned => latest[k].returned \/ latest[k].by = d
          /\ \A j \in Keys : j # k => latest'[j] = latest[j]
      BY <1>2, <2>1, <2>2
    <2>4. \A j \in Keys : /\ latest'[j].by = latest[j].by
                          /\ latest'[j].state = latest[j].state
                          /\ latest'[j].sole = latest[j].sole
      BY <2>3
    <2> SUFFICES ASSUME NEW j \in Keys, latest[j].sole
                 PROVE  /\ LateAgrees(j)'
                        /\ \A e \in Clients : SaverAgrees(e, j)'
                        /\ latest'[j].returned => objects[j] = latest[j].state
      BY <2>1, <2>4 DEF Alone, Undisturbed
    <2>5. /\ LateAgrees(j) /\ (\A e \in Clients : SaverAgrees(e, j))
          /\ latest[j].returned => objects[j] = latest[j].state
      BY DEF Alone, Undisturbed
    <2>6. ASSUME NEW e \in Clients PROVE SaverAgrees(e, j)'
      <3>1. CASE e = d
        BY <1>3, <2>1, <3>1 DEF SaverAgrees, Saving
      <3>2. CASE e # d
        <4>1. client'[e] = client[e] /\ SaverAgrees(e, j)
          BY <1>3, <2>1, <2>5, <3>2
        <4> QED
          BY <2>1, <2>4, <4>1 DEF SaverAgrees, Saving
      <3> QED
        BY <3>1, <3>2
    <2>7. latest'[j].returned => objects[j] = latest[j].state
      <3>1. CASE j = k
        BY <2>1, <2>3, <2>5, <3>1 DEF SaverAgrees, Saving
      <3>2. CASE j # k
        BY <2>3, <2>5, <3>2
      <3> QED
        BY <3>1, <3>2
    <2> QED
      BY <2>1, <2>4, <2>5, <2>6, <2>7 DEF LateAgrees
  <1>7. CASE TimesOut(d)
    <2> DEFINE mine == [key |-> r.key, state |-> r.state]
    <2>1. Return(d, "timeout") /\ UNCHANGED <<objects, latest>>
      BY <1>7 DEF TimesOut
    <2>2. CASE UNCHANGED late
      BY <1>3, <2>1, <2>2, QuietKeepsAlone
    <2>3. CASE /\ r.pc = "request" /\ r.method \in {"PUT", "PUT bucket"}
               /\ late' = late \cup {mine}
      <3> SUFFICES ASSUME NEW k \in Keys, latest[k].sole
                   PROVE  /\ LateAgrees(k)'
                          /\ \A e \in Clients : SaverAgrees(e, k)'
                          /\ latest[k].returned => objects[k] = latest[k].state
        BY <2>1 DEF Alone, Undisturbed
      <3>1. /\ LateAgrees(k) /\ (\A e \in Clients : SaverAgrees(e, k))
            /\ latest[k].returned => objects[k] = latest[k].state
        BY DEF Alone, Undisturbed
      <3>2. r.key = k => r.method = "PUT"
        BY <1>1, <2>3, NamesAssumption DEF WellFormed, ObjectMethods
      <3>3. r.key = k => r.state = latest[k].state
        BY <2>3, <3>1, <3>2 DEF SaverAgrees, Saving
      <3>4. mine.key = r.key /\ mine.state = r.state
        OBVIOUS
      <3>5. LateAgrees(k)'
        BY <2>1, <2>3, <3>1, <3>3, <3>4 DEF LateAgrees
      <3>6. ASSUME NEW e \in Clients PROVE SaverAgrees(e, k)'
        <4>1. CASE e = d
          BY <1>3, <2>1, <4>1 DEF SaverAgrees, Saving
        <4>2. CASE e # d
          BY <1>3, <2>1, <3>1, <4>2 DEF SaverAgrees, Saving
        <4> QED
          BY <4>1, <4>2
      <3> QED
        BY <3>1, <3>5, <3>6
    <2> QED
      BY <1>7, <2>2, <2>3 DEF TimesOut
  <1> QED
    BY <1>4, <1>5, <1>6, <1>7 DEF Receive

\* A save that began when no other was under way and that returned is what the
\* object holds until the next save of the key begins, whatever other calls
\* time out, are refused or arrive late.
THEOREM ReturnedSaveIsRead == Spec => []SavedIsReadBack
PROOF
  <1>1. Init => Alone
    BY DEF Init, NoSave, Alone, Undisturbed
  <1>2. Inv /\ Alone /\ [Next]_vars => Alone'
    <2> SUFFICES ASSUME Inv, Alone, [Next]_vars PROVE Alone'
      OBVIOUS
    <2>1. CASE UNCHANGED vars
      BY <2>1 DEF vars, Alone, Undisturbed, LateAgrees, SaverAgrees, Saving
    <2>2. CASE Next
      BY <2>2, BeginKeepsAlone, ServeKeepsAlone, RefuseKeepsAlone, ServeLateKeepsAlone,
         ReceiveKeepsAlone DEF Next
    <2> QED
      BY <2>1, <2>2
  <1>3. Alone => SavedIsReadBack
    BY DEF Alone, Undisturbed, SavedIsReadBack
  <1> QED
    BY <1>1, <1>2, <1>3, InvIsInvariant, PTL DEF Spec
=============================================================================
