----------------------- MODULE ObjectCheckpointStore ------------------------
(***************************************************************************)
(* ObjectCheckpointStore of core/object_checkpoint.py over the             *)
(* MinIOCheckpointClient of core/minio_client.py: a call is one request to *)
(* the object store (ensure_bucket one or two), with a timeout and without *)
(* a retry.                                                                *)
(*                                                                         *)
(* The object store is external: it applies a request at once and whole,   *)
(* and may answer with an error instead.  A request that times out at the  *)
(* client may have been lost, may be on its way still and be applied after *)
(* later ones, or may have been applied with the answer lost.              *)
(***************************************************************************)
EXTENDS Naturals, FiniteSets

CONSTANTS
  Clients,     \* processes with a store object, all on one bucket and prefix
  Keys,        \* (algorithm, iteration)
  States,      \* outputs that are pickled
  Nobody,      \* no key, state or object
  MaxCalls     \* bound on the calls of all clients

ASSUME NamesAssumption == Nobody \notin Keys \cup States /\ "bucket" \notin Keys
ASSUME MaxCallsAssumption == MaxCalls \in Nat

VARIABLES
  bucket,      \* the bucket exists
  objects,     \* what it holds
  late,        \* PUT requests under way whose client has given up, equal ones once
  client,      \* the request each client waits for
  answer,      \* what the last call of each client gave its caller
  calls,       \* calls begun
  told,        \* history: keys known to exist, and "bucket", by some answer
  latest       \* history: the save of each key that began last

vars == <<bucket, objects, late, client, answer, calls, told, latest>>

Methods == {"HEAD bucket", "PUT bucket", "HEAD", "PUT", "GET"}
Replies == {"200", "404", "409", "503"}

Answers == {"none", "ensured", "saved", "loaded", "there", "missing", "404", "409",
            "503", "timeout"}

\* known: what the call asks about was told to exist before it began.
Idle == [pc |-> "idle", method |-> "GET", key |-> Nobody, state |-> Nobody,
         reply |-> "200", known |-> FALSE]

NoAnswer == [how |-> "none", key |-> Nobody, state |-> Nobody, known |-> FALSE]

Got(d, method, reply) ==
  /\ client[d].pc = "reply"
  /\ client[d].method = method
  /\ client[d].reply = reply

Request(d, method, k, s, known) ==
  client' = [client EXCEPT ![d] = [pc |-> "request", method |-> method, key |-> k,
                                   state |-> s, reply |-> "200", known |-> known]]

\* The call of d ends.
Return(d, how) ==
  /\ client' = [client EXCEPT ![d] = Idle]
  /\ answer' = [answer EXCEPT ![d] = [how |-> how, key |-> client[d].key,
                                      state |-> client[d].state, known |-> client[d].known]]

\* sole: no PUT of the key was under way when the save began.
NoSave == [by |-> Nobody, state |-> Nobody, sole |-> FALSE, returned |-> FALSE]

\* A PUT of k that the store may still apply.
UnderWay(k) ==
  \/ \E p \in late : p.key = k
  \/ \E d \in Clients :
       client[d].pc = "request" /\ client[d].method = "PUT" /\ client[d].key = k

-----------------------------------------------------------------------------
(* Faulty variants of the actions below.                                   *)

\* Every HTTPError means that the object is not there.
FaultyIsMissing(d) ==
  /\ client[d].pc = "reply" /\ client[d].method = "HEAD" /\ client[d].reply # "200"
  /\ Return(d, "missing")
  /\ UNCHANGED <<bucket, objects, late, calls, told, latest>>

\* A request that times out is sent again, without a bound.
FaultyTimesOut(d) ==
  /\ client[d].pc \in {"request", "reply"}
  /\ client' = [client EXCEPT ![d].pc = "request"]
  /\ \/ UNCHANGED late
     \/ /\ client[d].method = "PUT"
        /\ late' = late \cup {[key |-> client[d].key, state |-> client[d].state]}
  /\ UNCHANGED <<bucket, objects, answer, calls, told, latest>>

-----------------------------------------------------------------------------
(* The first request of each method.                                       *)

Begin(d) ==
  /\ client[d].pc = "idle"
  /\ calls < MaxCalls
  /\ calls' = calls + 1
  /\ answer' = [answer EXCEPT ![d] = NoAnswer]

\* ensure_bucket: bucket_exists first.
EnsureBucket(d) ==
  /\ Begin(d)
  /\ Request(d, "HEAD bucket", Nobody, Nobody, "bucket" \in told)
  /\ UNCHANGED <<bucket, objects, late, told, latest>>

Save(d, k, s) ==
  /\ Begin(d)
  /\ Request(d, "PUT", k, s, "bucket" \in told)
  /\ latest' = [latest EXCEPT ![k] = [by |-> d, state |-> s, sole |-> ~UnderWay(k),
                                      returned |-> FALSE]]
  /\ UNCHANGED <<bucket, objects, late, told>>

Load(d, k) ==
  /\ Begin(d)
  /\ Request(d, "GET", k, Nobody, k \in told)
  /\ UNCHANGED <<bucket, objects, late, told, latest>>

Exists(d, k) ==
  /\ Begin(d)
  /\ Request(d, "HEAD", k, Nobody, k \in told)
  /\ UNCHANGED <<bucket, objects, late, told, latest>>

-----------------------------------------------------------------------------
(* The object store.                                                       *)

ReplyTo(method, k) ==
  CASE method = "HEAD bucket" -> IF bucket THEN "200" ELSE "404"
    [] method = "PUT bucket"  -> IF bucket THEN "409" ELSE "200"
    [] method = "PUT"         -> IF bucket THEN "200" ELSE "404"
    [] OTHER                  -> IF objects[k] # Nobody THEN "200" ELSE "404"

Put(k, s) == objects' = IF bucket THEN [objects EXCEPT ![k] = s] ELSE objects

Serve(d) ==
  LET r == client[d] IN
  /\ r.pc = "request"
  /\ client' = [client EXCEPT ![d].pc = "reply", ![d].reply = ReplyTo(r.method, r.key),
                              ![d].state = IF r.method = "GET" THEN objects[r.key] ELSE @]
  /\ bucket' = (bucket \/ r.method = "PUT bucket")
  /\ IF r.method = "PUT" THEN Put(r.key, r.state) ELSE UNCHANGED objects
  /\ UNCHANGED <<late, answer, calls, told, latest>>

Refuse(d) ==
  /\ client[d].pc = "request"
  /\ client' = [client EXCEPT ![d].pc = "reply", ![d].reply = "503"]
  /\ UNCHANGED <<bucket, objects, late, answer, calls, told, latest>>

\* A request nobody waits for arrives.  A PUT of the bucket has no key.
ServeLate(p) ==
  /\ p \in late
  /\ late' = late \ {p}
  /\ IF p.key = Nobody THEN bucket' = TRUE /\ UNCHANGED objects
                       ELSE Put(p.key, p.state) /\ UNCHANGED bucket
  /\ UNCHANGED <<client, answer, calls, told, latest>>

-----------------------------------------------------------------------------
(* What the client makes of the reply.                                     *)

BucketIsThere(d) ==
  /\ Got(d, "HEAD bucket", "200")
  /\ Return(d, "ensured")
  /\ told' = told \cup {"bucket"}
  /\ UNCHANGED <<bucket, objects, late, calls, latest>>

BucketIsMissing(d) ==
  /\ Got(d, "HEAD bucket", "404")
  /\ Request(d, "PUT bucket", Nobody, Nobody, client[d].known)
  /\ UNCHANGED <<bucket, objects, late, answer, calls, told, latest>>

BucketIsMade(d) ==
  /\ Got(d, "PUT bucket", "200")
  /\ Return(d, "ensured")
  /\ told' = told \cup {"bucket"}
  /\ UNCHANGED <<bucket, objects, late, calls, latest>>

Stored(d) ==
  /\ Got(d, "PUT", "200")
  /\ Return(d, "saved")
  /\ told' = told \cup {client[d].key}
  /\ latest' = [latest EXCEPT ![client[d].key].returned = (@ \/ latest[client[d].key].by = d)]
  /\ UNCHANGED <<bucket, objects, late, calls>>

Loaded(d) ==
  /\ Got(d, "GET", "200")
  /\ Return(d, "loaded")
  /\ told' = told \cup {client[d].key}
  /\ UNCHANGED <<bucket, objects, late, calls, latest>>

IsThere(d) ==
  /\ Got(d, "HEAD", "200")
  /\ Return(d, "there")
  /\ told' = told \cup {client[d].key}
  /\ UNCHANGED <<bucket, objects, late, calls, latest>>

IsMissing(d) ==
  /\ Got(d, "HEAD", "404")
  /\ Return(d, "missing")
  /\ UNCHANGED <<bucket, objects, late, calls, told, latest>>

\* Every other HTTPError is raised; the loser of two PUTs of the bucket too.
Raises(d) ==
  /\ client[d].pc = "reply" /\ client[d].reply # "200"
  /\ client[d].reply = "404" => client[d].method \in {"GET", "PUT"}
  /\ Return(d, client[d].reply)
  /\ UNCHANGED <<bucket, objects, late, calls, told, latest>>

\* urlopen raises after self.timeout; so does a connection that breaks.
TimesOut(d) ==
  /\ client[d].pc \in {"request", "reply"}
  /\ Return(d, "timeout")
  /\ \/ UNCHANGED late
     \/ /\ client[d].pc = "request" /\ client[d].method \in {"PUT", "PUT bucket"}
        /\ late' = late \cup {[key |-> client[d].key, state |-> client[d].state]}
  /\ UNCHANGED <<bucket, objects, calls, told, latest>>

-----------------------------------------------------------------------------
Init ==
  /\ bucket = FALSE
  /\ objects = [k \in Keys |-> Nobody]
  /\ late = {}
  /\ client = [d \in Clients |-> Idle]
  /\ answer = [d \in Clients |-> NoAnswer]
  /\ calls = 0
  /\ told = {}
  /\ latest = [k \in Keys |-> NoSave]

Receive(d) ==
  \/ BucketIsThere(d) \/ BucketIsMissing(d) \/ BucketIsMade(d)
  \/ Stored(d) \/ Loaded(d) \/ IsThere(d) \/ IsMissing(d)
  \/ Raises(d) \/ TimesOut(d)

Next ==
  \/ \E d \in Clients :
       \/ EnsureBucket(d)
       \/ \E k \in Keys : Load(d, k) \/ Exists(d, k) \/ (\E s \in States : Save(d, k, s))
       \/ Serve(d) \/ Refuse(d) \/ Receive(d)
  \/ \E p \in late : ServeLate(p)

Spec == Init /\ [][Next]_vars

-----------------------------------------------------------------------------
(* Properties.                                                             *)

\* The variables have their types, objects are in a bucket, and a load that
\* returned has given a state.
TypeOK ==
  /\ bucket \in BOOLEAN
  /\ objects \in [Keys -> States \cup {Nobody}]
  /\ ~bucket => \A k \in Keys : objects[k] = Nobody
  /\ late \subseteq [key : Keys, state : States] \cup [key : {Nobody}, state : {Nobody}]
  /\ client \in [Clients -> [pc : {"idle", "request", "reply"}, method : Methods,
                             key : Keys \cup {Nobody}, state : States \cup {Nobody},
                             reply : Replies, known : BOOLEAN]]
  /\ calls \in 0 .. MaxCalls
  /\ told \subseteq Keys \cup {"bucket"}
  /\ answer \in [Clients -> [how : Answers, key : Keys \cup {Nobody},
                             state : States \cup {Nobody}, known : BOOLEAN]]
  /\ \A d \in Clients : answer[d].how = "loaded" => answer[d].state \in States
  /\ latest \in [Keys -> [by : Clients \cup {Nobody}, state : States \cup {Nobody},
                          sole : BOOLEAN, returned : BOOLEAN]]

\* A save that returned is what a load gives until the next save of the key
\* begins, unless another one was still under way when it began, one that had
\* timed out included: then the late request may undo it.
SavedIsReadBack ==
  \A k \in Keys : latest[k].sole /\ latest[k].returned => objects[k] = latest[k].state

\* What any client was told to exist is never denied later: exists does not
\* answer False, load does not find it missing, and a save does not miss the
\* bucket that ensure_bucket returned for.
NothingIsForgotten ==
  \A d \in Clients : answer[d].known => answer[d].how \notin {"missing", "404"}
=============================================================================
