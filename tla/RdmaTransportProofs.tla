------------------------ MODULE RdmaTransportProofs -------------------------
(***************************************************************************)
(* Proofs about RdmaTransport, for any number of slices, tasks, workers,   *)
(* peers and endpoints: no slice is lost or counted twice (Conservation),  *)
(* a task is finished when its slices are (TaskCountsExact), wr_depth and  *)
(* cq_outstanding are exact (DepthExact), and an endpoint is not destroyed *)
(* while they are in use (NoUseAfterReclaim).                              *)
(*                                                                         *)
(* None of the four is inductive.  RdmaInv adds what each thread knows at  *)
(* each of its steps: where the slices in its hands are, which endpoint it *)
(* holds and has locked, and how much it is about to post.                 *)
(***************************************************************************)
EXTENDS RdmaTransport, FiniteSetTheorems, TLAPS

Busy == {"connect", "window", "send"}
NotNew == {s \in Slice : at[s] # "new"}
Succeeded(t) == {s \in SlicesOf(t) : at[s] = "success"}
Failed(t) == {s \in SlicesOf(t) : at[s] = "failed"}
\* What the workers that hold a lock are about to post, as a set.
Claims == {x \in Worker \X (1..MaxWr) : pc[x[1]] = "send" /\ x[2] <= room[x[1]]}

EndpointRecord == [st : {"free", "mapped", "waiting"}, peer : Peer,
                   active : BOOLEAN, conn : BOOLEAN, depth : Int]

SliceTypes ==
    /\ sub \in [Task -> {"no", "queued", "done"}] /\ owed \in [Task -> SUBSET Slice]
    /\ at \in [Slice -> Places] /\ by \in [Slice -> Worker] /\ peer \in [Slice -> Peer]
    /\ on \in [Slice -> EndPoint \cup {None}] /\ retry \in [Slice -> 0..(MaxRetry - 1)]
    /\ good \in [Task -> Nat] /\ bad \in [Task -> Nat]
    /\ finished \in [Task -> BOOLEAN]
    /\ submitted \in Nat /\ processed \in Nat

WorkTypes ==
    /\ ep \in [EndPoint -> EndpointRecord]
    /\ cqOut \in Int /\ active \in BOOLEAN
    /\ pc \in [Worker -> {"loop", "post", "connect", "window", "send", "poll", "uncount",
                          "settle"}]
    /\ todo \in [Worker -> SUBSET Peer] /\ held \in [Worker -> EndPoint \cup {None}]
    /\ room \in [Worker -> 0..Cardinality(Slice)] /\ broken \in [Worker -> SUBSET Slice]
    /\ stale \in [Worker -> BOOLEAN]
    /\ polled \in [EndPoint -> 0..Cardinality(Slice)]
    /\ nrPoll \in 0..Cardinality(Slice) /\ gain \in 0..Cardinality(Slice)
    /\ doomed \subseteq EndPoint /\ torn \subseteq EndPoint /\ events \in 0..MaxEvents

\* Where the slices are that a submitter or a worker has in its hands.
Submission ==
    /\ \A s \in Slice : at[s] = "new" <=> sub[TaskOf[s]] = "no"
    /\ \A t \in Task : /\ owed[t] \subseteq SlicesOf(t)
                       /\ sub[t] # "queued" => owed[t] = {}
    /\ \A t \in Task : finished[t] => \A s \in SlicesOf(t) : at[s] \in {"success", "failed"}

HandsOf(w) ==
    /\ held[w] # None <=> pc[w] \in Busy
    /\ pc[w] \in Busy => Cur(w) \in todo[w]
    /\ broken[w] \subseteq Local(w)
    /\ \A s \in broken[w] : peer[s] \notin todo[w]
    /\ pc[w] \notin Busy \cup {"post"} => broken[w] = {}

Hands == \A w \in Worker : HandsOf(w)

Polling ==
    /\ \A w \in Worker : pc[w] \in {"poll", "uncount", "settle"} => w = Poller
    /\ pc[Poller] \notin {"uncount", "settle"} => gain = 0 /\ \A e \in EndPoint : polled[e] = 0
    /\ pc[Poller] # "uncount" => nrPoll = 0

Counts ==
    /\ submitted + Cardinality(Owed) = processed + gain + Cardinality(Open)
    /\ submitted + Cardinality(Owed) <= Cardinality(NotNew)

TaskCounts == \A t \in Task : /\ good[t] = Cardinality(Succeeded(t))
                              /\ bad[t] = Cardinality(Failed(t))

\* What the lock of an endpoint protects.
Locks ==
    /\ \A e \in EndPoint : ep[e].st = "free" => ~ep[e].active
    /\ \A w \in Worker : pc[w] = "send" => ep[held[w]].active
    /\ \A v, w \in Worker : pc[v] = "send" /\ pc[w] = "send" /\ held[v] = held[w] => v = w

DepthOf(e) == /\ ep[e].depth = Cardinality(Wrs(e)) + polled[e]
              /\ ep[e].depth <= MaxWr
              /\ ep[e].st = "free" => Wrs(e) = {} /\ polled[e] = 0

Depths ==
    /\ \A e \in EndPoint \ torn : DepthOf(e)
    /\ \A w \in Worker : pc[w] = "send" /\ held[w] \notin torn
                            => ep[held[w]].depth + room[w] <= MaxWr

Outstanding ==
    torn = {} => /\ cqOut = Cardinality(Posted) + nrPoll
                 /\ cqOut + Cardinality(Claims) <= MaxCqe + (Cardinality(Worker) - 1) * MaxWr

RdmaInv == /\ SliceTypes /\ WorkTypes /\ Submission /\ Hands /\ Polling
           /\ Counts /\ TaskCounts /\ Locks /\ Depths /\ Outstanding

(***************************************************************************)
(* Facts about the operators.                                              *)
(***************************************************************************)
LEMMA SliceFinite == ASSUME NEW S \in SUBSET Slice
                     PROVE  /\ IsFiniteSet(S) /\ Cardinality(S) \in Nat
                            /\ Cardinality(S) \in 0..Cardinality(Slice)
  <1>1. IsFiniteSet(Slice)  BY TasksAssumption
  <1>2. IsFiniteSet(S) /\ Cardinality(S) <= Cardinality(Slice)  BY <1>1, FS_Subset
  <1>3. Cardinality(S) \in Nat /\ Cardinality(Slice) \in Nat  BY <1>1, <1>2, FS_CardinalityType
  <1> QED  BY <1>2, <1>3

\* Slices that are added to, or taken from, a set of slices are counted.
LEMMA CountAdd == ASSUME NEW S \in SUBSET Slice, NEW T \in SUBSET Slice, S \cap T = {}
                  PROVE  Cardinality(S \cup T) = Cardinality(S) + Cardinality(T)
  <1>1. IsFiniteSet(S) /\ IsFiniteSet(T) /\ Cardinality(S) \in Nat /\ Cardinality(T) \in Nat
    BY SliceFinite
  <1>2. Cardinality(S \cup T) = Cardinality(S) + Cardinality(T) - Cardinality(S \cap T)
    BY <1>1, FS_Union
  <1>3. Cardinality(S \cap T) = 0  BY FS_EmptySet
  <1> QED  BY <1>1, <1>2, <1>3

LEMMA CountSub == ASSUME NEW S \in SUBSET Slice, NEW T \in SUBSET S
                  PROVE  Cardinality(S \ T) = Cardinality(S) - Cardinality(T)
  <1>1. S \ T \in SUBSET Slice /\ T \in SUBSET Slice /\ (S \ T) \cap T = {}  OBVIOUS
  <1>2. Cardinality((S \ T) \cup T) = Cardinality(S \ T) + Cardinality(T)  BY <1>1, CountAdd
  <1>3. (S \ T) \cup T = S  OBVIOUS
  <1>4. Cardinality(S \ T) \in Nat /\ Cardinality(T) \in Nat  BY <1>1, SliceFinite
  <1>5. Cardinality(S) = Cardinality(S \ T) + Cardinality(T)  BY <1>2, <1>3, Zenon
  <1>6. Cardinality(S) \in Nat  BY SliceFinite
  <1> QED  BY <1>4, <1>5, <1>6

LEMMA CountNone == ASSUME NEW S \in SUBSET Slice PROVE Cardinality(S) = 0 <=> S = {}
  BY SliceFinite, FS_EmptySet

LEMMA CountLess == ASSUME NEW S \in SUBSET Slice, NEW T \in SUBSET S
                   PROVE  Cardinality(T) <= Cardinality(S)
  <1>1. IsFiniteSet(S)  BY SliceFinite
  <1> QED  BY <1>1, FS_Subset

LEMMA MinThree ==
    ASSUME NEW a \in Int, NEW b \in Int, NEW c \in Int
    PROVE  /\ Min({a, b, c}) \in Int
           /\ Min({a, b, c}) <= a /\ Min({a, b, c}) <= b /\ Min({a, b, c}) <= c
  <1>1. \E x \in {a, b, c} : \A y \in {a, b, c} : x <= y
    <2>1. CASE a <= b /\ a <= c  BY <2>1
    <2>2. CASE b <= a /\ b <= c  BY <2>2
    <2>3. CASE c <= a /\ c <= b  BY <2>3
    <2> QED  BY <2>1, <2>2, <2>3
  <1>2. Min({a, b, c}) \in {a, b, c} /\ \A y \in {a, b, c} : Min({a, b, c}) <= y
    BY <1>1 DEF Min
  <1> QED  BY <1>2

LEMMA WrCountBounds ==
    ASSUME NEW w \in Worker, WorkTypes, held[w] \in EndPoint
    PROVE  /\ WrCount(w) \in Int
           /\ WrCount(w) <= MaxWr - ep[held[w]].depth
           /\ WrCount(w) <= MaxCqe - cqOut
           /\ WrCount(w) <= Cardinality(LocalTo(w, Cur(w)))
           /\ WrCount(w) <= Cardinality(Slice)
  <1>1. MaxWr - ep[held[w]].depth \in Int /\ MaxCqe - cqOut \in Int
    BY LimitsAssumption DEF WorkTypes, EndpointRecord
  <1>2. LocalTo(w, Cur(w)) \in SUBSET Slice  BY DEF LocalTo, Local
  <1>3. /\ Cardinality(LocalTo(w, Cur(w))) \in Nat
        /\ Cardinality(LocalTo(w, Cur(w))) <= Cardinality(Slice)
        /\ Cardinality(Slice) \in Nat
    BY <1>2, SliceFinite
  <1> DEFINE a == MaxWr - ep[held[w]].depth
             b == MaxCqe - cqOut
             c == Cardinality(LocalTo(w, Cur(w)))
  <1>4. a \in Int /\ b \in Int /\ c \in Int  BY <1>1, <1>3
  <1>5. WrCount(w) = Min({a, b, c})  BY DEF WrCount
  <1> HIDE DEF a, b, c
  <1> DEFINE m == Min({a, b, c})
  <1>6. m \in Int /\ m <= a /\ m <= b /\ m <= c  BY <1>4, MinThree, Zenon
  <1>7. WrCount(w) = m  BY <1>5
  <1> HIDE DEF m
  <1> QED  BY <1>3, <1>4, <1>6, <1>7 DEF a, b, c

LEMMA PerType == ASSUME NEW t, NEW S \in SUBSET Slice
                 PROVE  Per(t, S) \in Nat
  <1>1. {s \in S : TaskOf[s] = t} \in SUBSET Slice  OBVIOUS
  <1> QED  BY <1>1, SliceFinite DEF Per

(***************************************************************************)
(* The types of the tasks' and the slices' variables.                      *)
(***************************************************************************)
SlicesStill == UNCHANGED <<taskVars, sliceVars, countVars>>

\* The steps that leave tasks, slices and their counters alone.
LEMMA StillSteps ==
    /\ UNCHANGED vars => SlicesStill
    /\ \A w \in Worker :
          /\ \A p \in Peer : Lookup(w, p) \/ Insert(w, p) \/ NoEndpoint(w, p) \/ Inactive(w, p)
                                => SlicesStill
          /\ Connect(w) \/ ConnectFails(w) \/ Window(w) \/ WindowClosed(w) \/ Uncount(w)
                => SlicesStill
    /\ \A p \in Peer : PassiveInserts(p) => SlicesStill
    /\ \A e \in EndPoint : PassiveConnects(e) \/ QpFatal(e) => SlicesStill
    /\ DeviceFails \/ Activate => SlicesStill
  <1>1. UNCHANGED vars => SlicesStill  BY DEF vars, SlicesStill
  <1>2. ASSUME NEW w \in Worker, NEW p \in Peer
        PROVE  Lookup(w, p) \/ Insert(w, p) \/ NoEndpoint(w, p) \/ Inactive(w, p) => SlicesStill
    BY DEF Lookup, Insert, NoEndpoint, Inactive, SlicesStill
  <1>3. ASSUME NEW w \in Worker
        PROVE  Connect(w) \/ ConnectFails(w) \/ Window(w) \/ WindowClosed(w) \/ Uncount(w)
                  => SlicesStill
    BY DEF Connect, ConnectFails, Window, WindowClosed, Uncount, SlicesStill
  <1>4. ASSUME NEW e \in EndPoint PROVE PassiveConnects(e) \/ QpFatal(e) => SlicesStill
    BY DEF PassiveConnects, QpFatal, SlicesStill
  <1>5. DeviceFails \/ Activate => SlicesStill  BY DEF DeviceFails, Activate, SlicesStill
  <1>6. ASSUME NEW p \in Peer PROVE PassiveInserts(p) => SlicesStill
    BY DEF PassiveInserts, SlicesStill
  <1> QED  BY <1>1, <1>2, <1>3, <1>4, <1>5, <1>6

LEMMA RedispatchTypes ==
    ASSUME SliceTypes, NEW w \in Worker, NEW S \in SUBSET Slice, NEW n \in [Slice -> Nat],
           \A s \in Slice \ S : n[s] < MaxRetry,
           redispatch(w, S, n)
    PROVE  /\ at' \in [Slice -> Places] /\ by' \in [Slice -> Worker] /\ peer' \in [Slice -> Peer]
           /\ retry' \in [Slice -> 0..(MaxRetry - 1)]
           /\ bad' \in [Task -> Nat] /\ processed' \in Nat
  <1>1. PICK f \in Dispatch(S), gone \in SUBSET S :
           LET dead == gone \cup {s \in S : n[s] >= MaxRetry}
           IN  /\ at' = [s \in Slice |-> IF s \in dead THEN "failed"
                                         ELSE IF s \in S THEN "local" ELSE at[s]]
               /\ by' = [s \in Slice |-> IF s \in S THEN w ELSE by[s]]
               /\ peer' = [s \in Slice |-> IF s \in S \ dead THEN f[s] ELSE peer[s]]
               /\ retry' = [s \in Slice |-> IF s \in dead THEN 0 ELSE n[s]]
               /\ markFailed(dead)
               /\ processed' = processed + Cardinality(dead)
    BY DEF redispatch
  <1> DEFINE dead == gone \cup {s \in S : n[s] >= MaxRetry}
  <1>2. dead \in SUBSET Slice  OBVIOUS
  <1>3. Cardinality(dead) \in Nat  BY <1>2, SliceFinite
  <1>4. \A s \in S : f[s] \in Peer  BY DEF Dispatch
  <1>5. at' \in [Slice -> Places]  BY <1>1 DEF SliceTypes, Places
  <1>6. by' \in [Slice -> Worker] /\ peer' \in [Slice -> Peer]  BY <1>1, <1>4 DEF SliceTypes
  <1>7. \A s \in Slice : s \notin dead => n[s] \in 0..(MaxRetry - 1)
    BY LimitsAssumption
  <1>8. retry' \in [Slice -> 0..(MaxRetry - 1)]
    BY <1>1, <1>7, LimitsAssumption
  <1>9. bad' = [t \in Task |-> bad[t] + Per(t, dead)]  BY <1>1 DEF markFailed
  <1>10. bad' \in [Task -> Nat]
    <2>1. \A t \in Task : Per(t, dead) \in Nat  BY <1>2, PerType
    <2> QED  BY <1>9, <2>1 DEF SliceTypes
  <1>11. processed' \in Nat  BY <1>1, <1>3 DEF SliceTypes
  <1> QED  BY <1>5, <1>6, <1>8, <1>10, <1>11

\* The next-state relation, one disjunct per action.
LEMMA NextSteps ==
    ASSUME [Next]_vars
    PROVE  \/ UNCHANGED vars
           \/ \E w \in Worker :
                 \/ Collect(w) \/ CollectRedispatch(w) \/ Connect(w) \/ ConnectFails(w)
                 \/ Window(w) \/ WindowClosed(w) \/ Send(w) \/ RoundEnd(w)
                 \/ Poll(w) \/ Uncount(w) \/ Settle(w)
                 \/ \E p \in Peer : Lookup(w, p) \/ Insert(w, p) \/ NoEndpoint(w, p) \/ Inactive(w, p)
           \/ \E t \in Task : SubmitEnqueue(t) \/ SubmitCount(t) \/ getTransferStatus(t)
           \/ \E s \in Slice : Complete(s) \/ Flush(s)
           \/ \E e \in EndPoint : \/ PassiveConnects(e) \/ PassiveHandshake(e) \/ QpFatal(e)
                                  \/ DisconnectNext(e)
           \/ \E p \in Peer : PassiveInserts(p)
           \/ DeviceFails \/ Activate
  BY DEF Next, Work, Client, Adapter, Monitor

\* What a call of redispatch does to the slices S: those in dead fail, the
\* others are in the local queue of w.
RedispatchOf(w, S, dead) ==
    /\ at' = [s \in Slice |-> IF s \in dead THEN "failed" ELSE IF s \in S THEN "local" ELSE at[s]]
    /\ by' = [s \in Slice |-> IF s \in S THEN w ELSE by[s]]
    /\ \A s \in Slice \ S : peer'[s] = peer[s]
    /\ bad' = [t \in Task |-> bad[t] + Per(t, dead)]
    /\ processed' = processed + Cardinality(dead)

LEMMA RedispatchEffect ==
    ASSUME SliceTypes, NEW w, NEW S \in SUBSET Slice, NEW n, redispatch(w, S, n)
    PROVE  \E dead \in SUBSET S : RedispatchOf(w, S, dead)
  <1>1. PICK f \in Dispatch(S), gone \in SUBSET S :
           LET dead == gone \cup {s \in S : n[s] >= MaxRetry}
           IN  /\ at' = [s \in Slice |-> IF s \in dead THEN "failed"
                                         ELSE IF s \in S THEN "local" ELSE at[s]]
               /\ by' = [s \in Slice |-> IF s \in S THEN w ELSE by[s]]
               /\ peer' = [s \in Slice |-> IF s \in S \ dead THEN f[s] ELSE peer[s]]
               /\ retry' = [s \in Slice |-> IF s \in dead THEN 0 ELSE n[s]]
               /\ markFailed(dead)
               /\ processed' = processed + Cardinality(dead)
    BY DEF redispatch
  <1> DEFINE dead == gone \cup {s \in S : n[s] >= MaxRetry}
  <1>2. dead \in SUBSET S  OBVIOUS
  <1>3. RedispatchOf(w, S, dead)  BY <1>1 DEF RedispatchOf, markFailed
  <1> QED  BY <1>2, <1>3

\* The retry counts RoundEnd redispatches with.
Tried(w) == [s \in Slice |-> IF s \in broken[w] THEN retry[s] + 1 ELSE retry[s]]

LEMMA SliceTypesStep == ASSUME SliceTypes, WorkTypes, [Next]_vars PROVE SliceTypes'
  <1> USE DEF SliceTypes
  <1>1. CASE SlicesStill
    BY <1>1 DEF SlicesStill, taskVars, sliceVars, countVars
  <1>2. ASSUME NEW w \in Worker, Collect(w) PROVE SliceTypes'
    <2>1. at' \in [Slice -> Places]  BY <1>2 DEF Collect, Places
    <2> QED  BY <1>2, <2>1 DEF Collect, taskVars, countVars
  <1>3. ASSUME NEW w \in Worker, CollectRedispatch(w) PROVE SliceTypes'
    <2>1. Local(w) \cup Shard(w) \in SUBSET Slice  BY DEF Local, Shard
    <2>2. retry \in [Slice -> Nat] /\ \A s \in Slice : retry[s] < MaxRetry
      BY LimitsAssumption
    <2>3. redispatch(w, Local(w) \cup Shard(w), retry)  BY <1>3 DEF CollectRedispatch
    <2>4. /\ at' \in [Slice -> Places] /\ by' \in [Slice -> Worker] /\ peer' \in [Slice -> Peer]
          /\ retry' \in [Slice -> 0..(MaxRetry - 1)]
          /\ bad' \in [Task -> Nat] /\ processed' \in Nat
      BY <2>1, <2>2, <2>3, RedispatchTypes
    <2> QED  BY <1>3, <2>4 DEF CollectRedispatch, taskVars
  <1>4. ASSUME NEW w \in Worker, Send(w) PROVE SliceTypes'
    <2>1. \E P : /\ at' = [s \in Slice |-> IF s \in P THEN "posted" ELSE at[s]]
                 /\ on' = [s \in Slice |-> IF s \in P THEN held[w] ELSE on[s]]
      BY <1>4 DEF Send
    <2>2. held[w] \in EndPoint \cup {None}  BY DEF WorkTypes
    <2>3. at' \in [Slice -> Places] /\ on' \in [Slice -> EndPoint \cup {None}]
      BY <2>1, <2>2 DEF Places
    <2> QED  BY <1>4, <2>3 DEF Send, taskVars, countVars
  <1>5. ASSUME NEW w \in Worker, RoundEnd(w) PROVE SliceTypes'
    <2>1. broken[w] \in SUBSET Slice  BY DEF WorkTypes
    <2>2. Tried(w) \in [Slice -> Nat] /\ \A s \in Slice \ broken[w] : Tried(w)[s] < MaxRetry
      BY LimitsAssumption DEF Tried
    <2>3. redispatch(w, broken[w], Tried(w))  BY <1>5 DEF RoundEnd, Tried
    <2>4. /\ at' \in [Slice -> Places] /\ by' \in [Slice -> Worker] /\ peer' \in [Slice -> Peer]
          /\ retry' \in [Slice -> 0..(MaxRetry - 1)]
          /\ bad' \in [Task -> Nat] /\ processed' \in Nat
      BY <2>1, <2>2, <2>3, RedispatchTypes
    <2> QED  BY <1>5, <2>4 DEF RoundEnd, taskVars
  <1>6. ASSUME NEW w \in Worker, Poll(w) PROVE SliceTypes'
    <2> DEFINE done == {s \in Slice : at[s] = "completed"}
               errs == {s \in Slice : at[s] = "flushed"}
               dead == {s \in errs : retry[s] + 1 >= MaxRetry}
               again == errs \ dead
    <2>1. done \in SUBSET Slice /\ dead \in SUBSET Slice  OBVIOUS
    <2>2. at' \in [Slice -> Places]
      <3>1. at' = [s \in Slice |-> CASE s \in done -> "success" [] s \in dead -> "failed"
                                     [] s \in again -> "local" [] OTHER -> at[s]]
        BY <1>6 DEF Poll
      <3>2. \A s \in Slice : (CASE s \in done -> "success" [] s \in dead -> "failed"
                                [] s \in again -> "local" [] OTHER -> at[s]) \in Places
        BY DEF Places
      <3> QED  BY <3>1, <3>2
    <2>3. by' \in [Slice -> Worker]  BY <1>6 DEF Poll
    <2>4. on' \in [Slice -> EndPoint \cup {None}]  BY <1>6 DEF Poll
    <2>5. retry' \in [Slice -> 0..(MaxRetry - 1)]
      <3>1. retry' = [s \in Slice |-> IF s \in again THEN retry[s] + 1
                                      ELSE IF s \in dead THEN 0 ELSE retry[s]]
        BY <1>6 DEF Poll
      <3>2. \A s \in Slice : s \in again => retry[s] + 1 \in 0..(MaxRetry - 1)
        BY LimitsAssumption
      <3> QED  BY <3>1, <3>2, LimitsAssumption
    <2>6. good' \in [Task -> Nat] /\ bad' \in [Task -> Nat]
      <3>1. /\ good' = [t \in Task |-> good[t] + Per(t, done)]
            /\ bad' = [t \in Task |-> bad[t] + Per(t, dead)]
        BY <1>6 DEF Poll, markSuccess, markFailed
      <3>2. \A t \in Task : Per(t, done) \in Nat /\ Per(t, dead) \in Nat
        BY <2>1, PerType
      <3> HIDE DEF done, dead
      <3> QED  BY <3>1, <3>2
    <2>7. processed' \in Nat
      <3>1. Cardinality(dead) \in Nat  BY <2>1, SliceFinite
      <3>2. processed' = processed + Cardinality(dead)  BY <1>6 DEF Poll
      <3> QED  BY <3>1, <3>2
    <2> QED  BY <1>6, <2>2, <2>3, <2>4, <2>5, <2>6, <2>7 DEF Poll, taskVars
  <1>7. ASSUME NEW w \in Worker, Settle(w) PROVE SliceTypes'
    <2>1. gain \in Nat  BY SliceFinite DEF WorkTypes
    <2> QED  BY <1>7, <2>1 DEF Settle, taskVars, sliceVars
  <1>8. ASSUME NEW t \in Task, SubmitEnqueue(t) PROVE SliceTypes'
    <2>1. PICK lost \in SUBSET SlicesOf(t) : \E f \in [SlicesOf(t) -> Devices[t]] :
             /\ at' = [s \in Slice |-> IF s \notin SlicesOf(t) THEN at[s]
                                       ELSE IF s \in lost THEN "failed" ELSE "queued"]
             /\ peer' = [s \in Slice |-> IF s \in SlicesOf(t) THEN f[s] ELSE peer[s]]
             /\ by' = [s \in Slice |-> IF s \in SlicesOf(t) \ lost THEN ShardOf[f[s]] ELSE by[s]]
             /\ markFailed(lost)
             /\ owed' = [owed EXCEPT ![t] = SlicesOf(t) \ lost]
      BY <1>8 DEF SubmitEnqueue
    <2>2. PICK f \in [SlicesOf(t) -> Devices[t]] :
             /\ peer' = [s \in Slice |-> IF s \in SlicesOf(t) THEN f[s] ELSE peer[s]]
             /\ by' = [s \in Slice |-> IF s \in SlicesOf(t) \ lost THEN ShardOf[f[s]] ELSE by[s]]
      BY <2>1
    <2>3. SlicesOf(t) \in SUBSET Slice /\ lost \in SUBSET Slice  BY DEF SlicesOf
    <2>4. Devices[t] \subseteq Peer  BY TasksAssumption
    <2>5. \A s \in SlicesOf(t) : f[s] \in Peer /\ ShardOf[f[s]] \in Worker
      BY <2>4, WorkersAssumption
    <2>6. at' \in [Slice -> Places]  BY <2>1 DEF Places
    <2>7. peer' \in [Slice -> Peer]  BY <2>2, <2>5
    <2>8. by' \in [Slice -> Worker]  BY <2>2, <2>5
    <2>9. bad' \in [Task -> Nat]
      <3>1. \A u \in Task : Per(u, lost) \in Nat  BY <2>3, PerType
      <3> QED  BY <2>1, <3>1 DEF markFailed
    <2>10. owed' \in [Task -> SUBSET Slice]
      <3>1. SlicesOf(t) \ lost \in SUBSET Slice  BY <2>3
      <3> QED  BY <2>1, <3>1
    <2> QED  BY <1>8, <2>6, <2>7, <2>8, <2>9, <2>10 DEF SubmitEnqueue, countVars
  <1>9. ASSUME NEW t \in Task, SubmitCount(t) PROVE SliceTypes'
    <2>1. Cardinality(owed[t]) \in Nat  BY SliceFinite
    <2> QED  BY <1>9, <2>1 DEF SubmitCount, sliceVars
  <1>10. ASSUME NEW t \in Task, getTransferStatus(t) PROVE SliceTypes'
    BY <1>10 DEF getTransferStatus, sliceVars, countVars
  <1>11. ASSUME NEW s \in Slice, Complete(s) \/ Flush(s) PROVE SliceTypes'
    BY <1>11 DEF Complete, Flush, taskVars, countVars, Places
  <1>12. ASSUME NEW e \in EndPoint, PassiveHandshake(e) \/ DisconnectNext(e) PROVE SliceTypes'
    <2>1. at' \in [Slice -> Places]
      BY <1>12 DEF PassiveHandshake, DisconnectNext, disconnect, Places
    <2> QED  BY <1>12, <2>1 DEF PassiveHandshake, DisconnectNext, taskVars, countVars
  <1> QED  BY <1>1, <1>2, <1>3, <1>4, <1>5, <1>6, <1>7, <1>8, <1>9, <1>10, <1>11, <1>12,
              NextSteps, StillSteps

(***************************************************************************)
(* The types of the endpoints' and the workers' variables.                 *)
(***************************************************************************)
\* The three steps of context_.endpoint on the endpoint store.
LEMMA EvictedFields ==
    ASSUME WorkTypes, NEW m \in EndPoint
    PROVE  /\ Evicted(m) \in [EndPoint -> EndpointRecord]
           /\ \A e \in EndPoint : /\ Evicted(m)[e].peer = ep[e].peer
                                  /\ Evicted(m)[e].depth = ep[e].depth
                                  /\ e # m => Evicted(m)[e] = ep[e]
           /\ Evicted(m)[m].st = "waiting"
  BY ZenonT(60) DEF WorkTypes, Evicted, EndpointRecord

LEMMA InsertedFields ==
    ASSUME NEW m \in [EndPoint -> EndpointRecord], NEW n \in EndPoint, NEW p \in Peer
    PROVE  /\ Inserted(m, n, p) \in [EndPoint -> EndpointRecord]
           /\ \A e \in EndPoint : e # n => Inserted(m, n, p)[e] = m[e]
           /\ Inserted(m, n, p)[n].st = "mapped" /\ Inserted(m, n, p)[n].peer = p
           /\ Inserted(m, n, p)[n].active /\ Inserted(m, n, p)[n].depth = 0
  BY DEF Inserted, EndpointRecord

LEMMA ReclaimedFields ==
    ASSUME NEW m \in [EndPoint -> EndpointRecord]
    PROVE  /\ Reclaimed(m) \in [EndPoint -> EndpointRecord]
           /\ \A e \in EndPoint :
                 /\ Reclaimed(m)[e].peer = m[e].peer
                 /\ Reclaimed(m)[e].depth = m[e].depth
                 /\ Reclaimed(m)[e].active = m[e].active
                 /\ Reclaimed(m)[e] = m[e] \/ (m[e].st = "waiting" /\ ~m[e].active /\ m[e].depth = 0)
  BY DEF Reclaimed, EndpointRecord, hasOutstandingSlice

\* An endpoint n that nobody uses is the new one; the others keep their peer
\* and their depth, and the ones that are destroyed have nothing posted.
InsertOf(p, n) ==
    /\ ep[n].st = "free" /\ polled[n] = 0 /\ \A v \in Worker : held[v] # n
    /\ ep' \in [EndPoint -> EndpointRecord]
    /\ ep'[n].st = "mapped" /\ ep'[n].peer = p /\ ep'[n].active /\ ep'[n].depth = 0
    /\ \A e \in EndPoint \ {n} :
          /\ ep'[e].peer = ep[e].peer /\ ep'[e].depth = ep[e].depth
          /\ ep'[e].st = "free" => ep'[e] = ep[e] \/ (~ep'[e].active /\ ep[e].depth = 0)
          /\ Locked(e) => ep'[e].active = ep[e].active

LEMMA InsertEffect ==
    ASSUME WorkTypes, NEW p \in Peer, NEW n \in EndPoint, insertEndpoint(n, p)
    PROVE  InsertOf(p, n)
  <1>1. /\ ep[n].st = "free" /\ polled[n] = 0 /\ \A v \in Worker : held[v] # n
        /\ \/ ep' = Reclaimed(Inserted(ep, n, p))
           \/ \E m \in Mapped : ~Locked(m) /\ ep' = Reclaimed(Inserted(Evicted(m), n, p))
    BY DEF insertEndpoint
  <1>2. ASSUME ep' = Reclaimed(Inserted(ep, n, p)) PROVE InsertOf(p, n)
    <2>1. ep \in [EndPoint -> EndpointRecord]  BY DEF WorkTypes
    <2> DEFINE m == Inserted(ep, n, p)
    <2>2. /\ m \in [EndPoint -> EndpointRecord]
          /\ \A e \in EndPoint : e # n => m[e] = ep[e]
          /\ m[n].st = "mapped" /\ m[n].peer = p /\ m[n].active /\ m[n].depth = 0
      BY <2>1, InsertedFields
    <2>3. ep' = Reclaimed(m)  BY <1>2
    <2> HIDE DEF m
    <2>4. /\ ep' \in [EndPoint -> EndpointRecord]
          /\ \A e \in EndPoint :
                /\ ep'[e].peer = m[e].peer /\ ep'[e].depth = m[e].depth
                /\ ep'[e].active = m[e].active
                /\ ep'[e] = m[e] \/ (m[e].st = "waiting" /\ ~m[e].active /\ m[e].depth = 0)
      BY <2>2, <2>3, ReclaimedFields
    <2> QED  BY <1>1, <2>2, <2>4 DEF InsertOf
  <1>3. ASSUME NEW v \in Mapped, ~Locked(v), ep' = Reclaimed(Inserted(Evicted(v), n, p))
        PROVE  InsertOf(p, n)
    <2>1. v \in EndPoint /\ v # n  BY <1>1 DEF Mapped
    <2> DEFINE k == Evicted(v)
               m == Inserted(k, n, p)
    <2>2. /\ k \in [EndPoint -> EndpointRecord]
          /\ \A e \in EndPoint : /\ k[e].peer = ep[e].peer /\ k[e].depth = ep[e].depth
                                 /\ e # v => k[e] = ep[e]
          /\ k[v].st = "waiting"
      BY <2>1, EvictedFields
    <2>3. ep' = Reclaimed(m)  BY <1>3
    <2> HIDE DEF k
    <2>4. /\ m \in [EndPoint -> EndpointRecord]
          /\ \A e \in EndPoint : e # n => m[e] = k[e]
          /\ m[n].st = "mapped" /\ m[n].peer = p /\ m[n].active /\ m[n].depth = 0
      BY <2>2, InsertedFields
    <2> HIDE DEF m
    <2>5. /\ ep' \in [EndPoint -> EndpointRecord]
          /\ \A e \in EndPoint :
                /\ ep'[e].peer = m[e].peer /\ ep'[e].depth = m[e].depth
                /\ ep'[e].active = m[e].active
                /\ ep'[e] = m[e] \/ (m[e].st = "waiting" /\ ~m[e].active /\ m[e].depth = 0)
      BY <2>3, <2>4, ReclaimedFields
    <2>6. ep'[n].st = "mapped" /\ ep'[n].peer = p /\ ep'[n].active /\ ep'[n].depth = 0
      BY <2>4, <2>5
    <2>7. ASSUME NEW e \in EndPoint \ {n}
          PROVE  /\ ep'[e].peer = ep[e].peer /\ ep'[e].depth = ep[e].depth
                 /\ ep'[e].st = "free" => ep'[e] = ep[e] \/ (~ep'[e].active /\ ep[e].depth = 0)
                 /\ Locked(e) => ep'[e].active = ep[e].active
      BY <1>3, <2>2, <2>4, <2>5
    <2> QED  BY <1>1, <2>5, <2>6, <2>7 DEF InsertOf
  <1> QED  BY <1>1, <1>2, <1>3

\* A worker inserts an endpoint for itself, a handshake for nobody.
LEMMA InsertSteps ==
    ASSUME WorkTypes, NEW p \in Peer
    PROVE  /\ \A w \in Worker : Insert(w, p) =>
                 \E n \in EndPoint : InsertOf(p, n) /\ held' = [held EXCEPT ![w] = n]
           /\ PassiveInserts(p) => \E n \in EndPoint : InsertOf(p, n)
  <1>1. ASSUME NEW w \in Worker, Insert(w, p)
        PROVE  \E n \in EndPoint : InsertOf(p, n) /\ held' = [held EXCEPT ![w] = n]
    <2>1. PICK n \in EndPoint : insertEndpoint(n, p) /\ held' = [held EXCEPT ![w] = n]
      BY <1>1 DEF Insert
    <2>2. InsertOf(p, n)  BY <2>1, InsertEffect
    <2> QED  BY <2>1, <2>2
  <1>2. ASSUME PassiveInserts(p) PROVE \E n \in EndPoint : InsertOf(p, n)
    <2>1. PICK n \in EndPoint : insertEndpoint(n, p)  BY <1>2 DEF PassiveInserts
    <2>2. InsertOf(p, n)  BY <2>1, InsertEffect
    <2> QED  BY <2>2
  <1> QED  BY <1>1, <1>2

\* What a step of the Poller does to the slices that are complete.
Done == {s \in Slice : at[s] = "completed"}
Errs == {s \in Slice : at[s] = "flushed"}
Dead == {s \in Errs : retry[s] + 1 >= MaxRetry}

PollOf ==
    /\ at' = [s \in Slice |-> IF s \in Done THEN "success" ELSE IF s \in Dead THEN "failed"
                              ELSE IF s \in Errs THEN "local" ELSE at[s]]
    /\ on' = [s \in Slice |-> IF s \in Done \cup Errs THEN None ELSE on[s]]
    /\ good' = [t \in Task |-> good[t] + Per(t, Done)]
    /\ bad' = [t \in Task |-> bad[t] + Per(t, Dead)]
    /\ ep' \in [EndPoint -> EndpointRecord]
    /\ \A e \in EndPoint : /\ ep'[e].peer = ep[e].peer /\ ep'[e].depth = ep[e].depth
                           /\ ep'[e].active = ep[e].active
                           /\ ep'[e].st = "free" <=> ep[e].st = "free"
    /\ cqOut' = cqOut /\ nrPoll' = Cardinality(Done \cup Errs)
    /\ polled' = [e \in EndPoint |-> Cardinality({s \in Done \cup Errs : on[s] = e})]
    /\ gain' = Cardinality(Done)
    /\ processed' = processed + Cardinality(Dead)

LEMMA PollEffect == ASSUME WorkTypes, NEW w \in Worker, Poll(w) PROVE PollOf
  <1> USE DEF Done, Errs, Dead
  <1>1. at' = [s \in Slice |-> IF s \in Done THEN "success" ELSE IF s \in Dead THEN "failed"
                               ELSE IF s \in Errs THEN "local" ELSE at[s]]
    <2> DEFINE f == [s \in Slice |-> CASE s \in Done -> "success" [] s \in Dead -> "failed"
                                       [] s \in Errs \ Dead -> "local" [] OTHER -> at[s]]
               g == [s \in Slice |-> IF s \in Done THEN "success" ELSE IF s \in Dead THEN "failed"
                                     ELSE IF s \in Errs THEN "local" ELSE at[s]]
    <2>1. at' = f  BY DEF Poll
    <2>2. \A s \in Slice : f[s] = g[s]  OBVIOUS
    <2>3. f = g  BY <2>2
    <2> QED  BY <2>1, <2>3
  <1>2. ep' = [e \in EndPoint |-> IF e \in Mapped /\ \E s \in Errs : peer[s] = ep[e].peer
                                  THEN [ep[e] EXCEPT !.st = "waiting"] ELSE ep[e]]
    BY DEF Poll
  <1>3. /\ ep' \in [EndPoint -> EndpointRecord]
        /\ \A e \in EndPoint : /\ ep'[e].peer = ep[e].peer /\ ep'[e].depth = ep[e].depth
                               /\ ep'[e].active = ep[e].active
                               /\ ep'[e].st = "free" <=> ep[e].st = "free"
    BY <1>2 DEF WorkTypes, EndpointRecord, Mapped
  <1> QED  BY <1>1, <1>3 DEF Poll, PollOf, markSuccess, markFailed

LEMMA HeldEndpoint == ASSUME WorkTypes, Hands, NEW w \in Worker, pc[w] \in Busy
                      PROVE  held[w] \in EndPoint
  BY DEF WorkTypes, Hands, HandsOf

\* Send has the slices S to post: P is posted, the others come back.
SendOf(w, S, P) ==
    /\ S \in SUBSET LocalTo(w, Cur(w)) /\ Cardinality(S) = room[w] /\ P \in SUBSET S
    /\ at' = [s \in Slice |-> IF s \in P THEN "posted" ELSE at[s]]
    /\ on' = [s \in Slice |-> IF s \in P THEN held[w] ELSE on[s]]
    /\ ep' = [ep EXCEPT ![held[w]].depth = @ + Cardinality(P)]
    /\ cqOut' = cqOut + Cardinality(P)
    /\ broken' = [broken EXCEPT ![w] = @ \cup (S \ P)]

LEMMA SendEffect == ASSUME NEW w \in Worker, Send(w)
                    PROVE  \E S, P \in SUBSET Slice : SendOf(w, S, P)
  <1>1. PICK S \in kSubset(room[w], LocalTo(w, Cur(w))) : \E P \in SUBSET S :
           /\ at' = [s \in Slice |-> IF s \in P THEN "posted" ELSE at[s]]
           /\ on' = [s \in Slice |-> IF s \in P THEN held[w] ELSE on[s]]
           /\ ep' = [ep EXCEPT ![held[w]].depth = @ + Cardinality(P)]
           /\ cqOut' = cqOut + Cardinality(P)
           /\ broken' = [broken EXCEPT ![w] = @ \cup (S \ P)]
    BY DEF Send
  <1>2. S \in SUBSET LocalTo(w, Cur(w)) /\ Cardinality(S) = room[w]  BY DEF kSubset
  <1>3. S \in SUBSET Slice  BY <1>2 DEF LocalTo, Local
  <1>4. PICK P \in SUBSET S : SendOf(w, S, P)  BY <1>1, <1>2 DEF SendOf
  <1> QED  BY <1>3, <1>4

\* No more is posted than there was room for.
LEMMA SendCount ==
    ASSUME NEW w, NEW S \in SUBSET Slice, NEW P \in SUBSET Slice, SendOf(w, S, P)
    PROVE  Cardinality(P) \in Nat /\ Cardinality(P) <= room[w]
  BY SliceFinite, CountLess DEF SendOf

\* What a reset of the queue pair of e does.
DisconnectOf(e) ==
    /\ ~Locked(e)
    /\ at' = [s \in Slice |-> IF s \in Wrs(e) THEN "lost" ELSE at[s]]
    /\ cqOut' = cqOut - ep[e].depth
    /\ torn' = IF polled[e] = 0 THEN torn ELSE torn \cup {e}
    /\ ep' \in [EndPoint -> EndpointRecord]
    /\ \A d \in EndPoint : /\ ep'[d].st = ep[d].st /\ ep'[d].peer = ep[d].peer
                           /\ ep'[d].active = ep[d].active
                           /\ ep'[d].depth = IF d = e THEN 0 ELSE ep[d].depth

LEMMA ResetRecord ==
    ASSUME NEW x \in EndpointRecord, NEW c \in BOOLEAN
    PROVE  LET y == [x EXCEPT !.conn = c, !.depth = 0]
           IN  /\ y \in EndpointRecord /\ y.depth = 0
               /\ y.st = x.st /\ y.peer = x.peer /\ y.active = x.active
  <1> DEFINE z == [x EXCEPT !.conn = c]
             y == [z EXCEPT !.depth = 0]
  <1>1. z \in EndpointRecord /\ z.st = x.st /\ z.peer = x.peer /\ z.active = x.active
    BY DEF EndpointRecord
  <1>2. y = [x EXCEPT !.conn = c, !.depth = 0]  OBVIOUS
  <1> HIDE DEF z
  <1>3. y \in EndpointRecord /\ y.depth = 0 /\ y.st = z.st /\ y.peer = z.peer /\ y.active = z.active
    BY <1>1 DEF EndpointRecord
  <1> HIDE DEF y
  <1> QED  BY <1>1, <1>2, <1>3

LEMMA DisconnectEffect ==
    ASSUME WorkTypes, NEW e \in EndPoint, PassiveHandshake(e) \/ DisconnectNext(e)
    PROVE  DisconnectOf(e)
  <1>1. PICK c \in BOOLEAN : ep' = [ep EXCEPT ![e] = [ep[e] EXCEPT !.conn = c, !.depth = 0]]
    BY DEF PassiveHandshake, DisconnectNext, disconnect
  <1> DEFINE y == [ep[e] EXCEPT !.conn = c, !.depth = 0]
  <1>2. ep' = [ep EXCEPT ![e] = y]  BY <1>1
  <1>3. ep \in [EndPoint -> EndpointRecord]  BY DEF WorkTypes
  <1>4. /\ y \in EndpointRecord /\ y.depth = 0
        /\ y.st = ep[e].st /\ y.peer = ep[e].peer /\ y.active = ep[e].active
    BY <1>3, ResetRecord
  <1> HIDE DEF y
  <1>5. /\ ep' \in [EndPoint -> EndpointRecord]
        /\ \A d \in EndPoint : /\ ep'[d].st = ep[d].st /\ ep'[d].peer = ep[d].peer
                               /\ ep'[d].active = ep[d].active
                               /\ ep'[d].depth = IF d = e THEN 0 ELSE ep[d].depth
    BY <1>2, <1>3, <1>4
  <1> QED  BY <1>5 DEF PassiveHandshake, DisconnectNext, disconnect, DisconnectOf

LEMMA WorkTypesStep == ASSUME SliceTypes, WorkTypes, Hands, [Next]_vars PROVE WorkTypes'
  <1> USE DEF WorkTypes
  <1>1. CASE UNCHANGED vars
    BY <1>1 DEF vars, hcaVars, workVars
  <1>2. ASSUME NEW w \in Worker, Collect(w) PROVE WorkTypes'
    <2>1. {peer[s] : s \in Local(w) \cup Shard(w)} \in SUBSET Peer
      BY DEF SliceTypes, Local, Shard
    <2> QED  BY <1>2, <2>1 DEF Collect, hcaVars, countVars, Goto
  <1>3. ASSUME NEW w \in Worker, CollectRedispatch(w) PROVE WorkTypes'
    BY <1>3 DEF CollectRedispatch, hcaVars, Goto
  <1>4. ASSUME NEW w \in Worker, Send(w) PROVE WorkTypes'
    <2>1. PICK S \in SUBSET Slice, P \in SUBSET Slice : SendOf(w, S, P)  BY <1>4, SendEffect
    <2>2. held[w] \in EndPoint /\ Cardinality(P) \in Int
      <3>1. pc[w] \in Busy  BY <1>4 DEF Send, Busy
      <3> QED  BY <2>1, <3>1, HeldEndpoint, SendCount
    <2>3. ep' \in [EndPoint -> EndpointRecord] /\ cqOut' \in Int
      <3>1. ep' = [ep EXCEPT ![held[w]].depth = @ + Cardinality(P)] /\ cqOut' = cqOut + Cardinality(P)
        BY <2>1 DEF SendOf
      <3> QED  BY <2>2, <3>1 DEF EndpointRecord
    <2>4. broken' \in [Worker -> SUBSET Slice]  BY <2>1 DEF SendOf
    <2>5. todo' \in [Worker -> SUBSET Peer]  BY <1>4 DEF Send
    <2>6. room' \in [Worker -> 0..Cardinality(Slice)]
      <3>1. 0 \in 0..Cardinality(Slice)  BY SliceFinite
      <3> QED  BY <1>4, <3>1 DEF Send
    <2>7. events' \in 0..MaxEvents
      <3>1. events' = events \/ (events < MaxEvents /\ events' = events + 1)
        BY <1>4 DEF Send, Event
      <3> QED  BY <3>1, LimitsAssumption
    <2> QED  BY <1>4, <2>3, <2>4, <2>5, <2>6, <2>7 DEF Send, Goto, Release, countVars
  <1>5. ASSUME NEW w \in Worker, RoundEnd(w) PROVE WorkTypes'
    BY <1>5 DEF RoundEnd, hcaVars, Goto
  <1>6. ASSUME NEW w \in Worker, Poll(w) PROVE WorkTypes'
    <2>1. PollOf  BY <1>6, PollEffect
    <2>2. Done \in SUBSET Slice /\ Done \cup Errs \in SUBSET Slice  BY DEF Done, Errs
    <2>3. /\ Cardinality(Done) \in 0..Cardinality(Slice)
          /\ Cardinality(Done \cup Errs) \in 0..Cardinality(Slice)
      BY <2>2, SliceFinite
    <2>4. /\ ep' \in [EndPoint -> EndpointRecord] /\ cqOut' \in Int
          /\ nrPoll' \in 0..Cardinality(Slice) /\ gain' \in 0..Cardinality(Slice)
      BY <2>1, <2>3 DEF PollOf
    <2>5. polled' \in [EndPoint -> 0..Cardinality(Slice)]
      <3> DEFINE S(e) == {s \in Done \cup Errs : on[s] = e}
      <3>1. \A e \in EndPoint : S(e) \in SUBSET Slice  BY <2>2
      <3>2. \A e \in EndPoint : Cardinality(S(e)) \in 0..Cardinality(Slice)  BY <3>1, SliceFinite
      <3>3. polled' = [e \in EndPoint |-> Cardinality(S(e))]  BY <2>1 DEF PollOf
      <3> HIDE DEF S
      <3> QED  BY <3>2, <3>3
    <2>6. active' \in BOOLEAN  BY <1>6 DEF Poll
    <2>7. stale' \in [Worker -> BOOLEAN]  BY <1>6 DEF Poll
    <2>8. doomed' \subseteq EndPoint  BY <1>6 DEF Poll
    <2> QED  BY <1>6, <2>4, <2>5, <2>6, <2>7, <2>8 DEF Poll, Goto
  <1>7. ASSUME NEW w \in Worker, Settle(w) PROVE WorkTypes'
    <2>1. 0 \in 0..Cardinality(Slice)  BY SliceFinite
    <2>2. ep' \in [EndPoint -> EndpointRecord]
      <3>1. ep' = [e \in EndPoint |-> [ep[e] EXCEPT !.depth = @ - polled[e]]]  BY <1>7 DEF Settle
      <3>2. ASSUME NEW e \in EndPoint
            PROVE  [ep[e] EXCEPT !.depth = @ - polled[e]] \in EndpointRecord
        <4>1. polled[e] \in Int  BY SliceFinite
        <4> QED  BY <4>1 DEF EndpointRecord
      <3> QED  BY <3>1, <3>2
    <2> QED  BY <1>7, <2>1, <2>2 DEF Settle, Goto
  <1>8. ASSUME NEW t \in Task, SubmitEnqueue(t) \/ SubmitCount(t) \/ getTransferStatus(t)
        PROVE  WorkTypes'
    BY <1>8 DEF SubmitEnqueue, SubmitCount, getTransferStatus, hcaVars, workVars
  <1>9. ASSUME NEW s \in Slice, Complete(s) \/ Flush(s) PROVE WorkTypes'
    BY <1>9 DEF Complete, Flush, hcaVars, workVars
  <1>10. ASSUME NEW e \in EndPoint, PassiveHandshake(e) \/ DisconnectNext(e) PROVE WorkTypes'
    <2>1. DisconnectOf(e)  BY <1>10, DisconnectEffect
    <2>2. ep' \in [EndPoint -> EndpointRecord]  BY <2>1 DEF DisconnectOf
    <2>3. cqOut' \in Int /\ torn' \subseteq EndPoint  BY <2>1 DEF DisconnectOf, EndpointRecord
    <2>4. doomed' \subseteq EndPoint  BY <1>10 DEF PassiveHandshake, DisconnectNext
    <2>5. events' \in 0..MaxEvents
      <3>1. events' = events \/ (events < MaxEvents /\ events' = events + 1)
        BY <1>10 DEF PassiveHandshake, DisconnectNext, Event
      <3> QED  BY <3>1, LimitsAssumption
    <2> QED  BY <1>10, <2>2, <2>3, <2>4, <2>5 DEF PassiveHandshake, DisconnectNext, workVars
  <1>11. ASSUME NEW e \in EndPoint, PassiveConnects(e) \/ QpFatal(e) PROVE WorkTypes'
    <2>1. ep' \in [EndPoint -> EndpointRecord]
      <3>1. CASE ep' = [ep EXCEPT ![e].conn = TRUE]  BY <3>1, ZenonT(60) DEF EndpointRecord
      <3>2. CASE ep' = [ep EXCEPT ![e].active = FALSE]  BY <3>2, ZenonT(60) DEF EndpointRecord
      <3> QED  BY <1>11, <3>1, <3>2 DEF PassiveConnects, QpFatal
    <2> QED  BY <1>11, <2>1, LimitsAssumption DEF PassiveConnects, QpFatal, Event, workVars
  <1>12. CASE DeviceFails
    <2>1. events < MaxEvents /\ events' = events + 1  BY <1>12 DEF DeviceFails, Event
    <2>2. events' \in 0..MaxEvents  BY <2>1, LimitsAssumption
    <2>3. doomed' \subseteq EndPoint  BY <1>12 DEF DeviceFails
    <2> QED  BY <1>12, <2>2, <2>3 DEF DeviceFails, workVars
  <1>13. CASE Activate
    BY <1>13 DEF Activate, workVars
  <1>14. ASSUME NEW w \in Worker, NEW p \in Peer, Lookup(w, p) PROVE WorkTypes'
    <2>1. PICK e \in EndpointOf(p) : /\ held' = [held EXCEPT ![w] = e]
                                     /\ Goto(w, IF ep[e].conn THEN "window" ELSE "connect")
      BY <1>14 DEF Lookup
    <2>2. e \in EndPoint  BY DEF EndpointOf, Mapped
    <2> QED  BY <1>14, <2>1, <2>2 DEF Lookup, Goto, hcaVars
  <1>15. ASSUME NEW w \in Worker, NEW p \in Peer, Insert(w, p) PROVE WorkTypes'
    <2>1. PICK n \in EndPoint : InsertOf(p, n) /\ held' = [held EXCEPT ![w] = n]
      BY <1>15, InsertSteps
    <2>2. events' \in 0..MaxEvents
      <3>1. events' = events \/ (events < MaxEvents /\ events' = events + 1)
        BY <1>15 DEF Insert, Event
      <3> QED  BY <3>1, LimitsAssumption
    <2> QED  BY <1>15, <2>1, <2>2 DEF Insert, InsertOf, Goto
  <1>16. ASSUME NEW w \in Worker, NEW p \in Peer, NoEndpoint(w, p) PROVE WorkTypes'
    BY <1>16 DEF NoEndpoint, Break, LocalTo, Local, hcaVars
  <1>17. ASSUME NEW w \in Worker, NEW p \in Peer, Inactive(w, p) PROVE WorkTypes'
    <2>1. ep' \in [EndPoint -> EndpointRecord]  BY <1>17, ZenonT(60) DEF Inactive, EndpointRecord
    <2>2. broken' \in [Worker -> SUBSET Slice] /\ todo' \in [Worker -> SUBSET Peer]
      BY <1>17 DEF Inactive, Break, LocalTo, Local
    <2> QED  BY <1>17, <2>1, <2>2 DEF Inactive
  <1>18. ASSUME NEW w \in Worker, Connect(w) PROVE WorkTypes'
    <2>1. ep' \in [EndPoint -> EndpointRecord]  BY <1>18, ZenonT(60) DEF Connect, EndpointRecord
    <2> QED  BY <1>18, <2>1 DEF Connect, Goto
  <1>19. ASSUME NEW w \in Worker, ConnectFails(w) PROVE WorkTypes'
    <2>1. ep' \in [EndPoint -> EndpointRecord]  BY <1>19, ZenonT(60) DEF ConnectFails, EndpointRecord
    <2>2. broken' \in [Worker -> SUBSET Slice] /\ todo' \in [Worker -> SUBSET Peer]
      BY <1>19 DEF ConnectFails, Break, LocalTo, Local
    <2>3. events' \in 0..MaxEvents  BY <1>19, LimitsAssumption DEF ConnectFails, Event
    <2> QED  BY <1>19, <2>1, <2>2, <2>3 DEF ConnectFails, Goto, Release
  <1>20. ASSUME NEW w \in Worker, Window(w) PROVE WorkTypes'
    <2>1. held[w] \in EndPoint
      <3>1. pc[w] \in Busy  BY <1>20 DEF Window, Busy
      <3> QED  BY <3>1, HeldEndpoint
    <2>2. WrCount(w) \in 0..Cardinality(Slice)
      <3>1. WrCount(w) > 0  BY <1>20 DEF Window
      <3>2. Cardinality(Slice) \in Nat  BY SliceFinite
      <3> QED  BY <2>1, <3>1, <3>2, WrCountBounds
    <2> QED  BY <1>20, <2>2 DEF Window, Goto, hcaVars
  <1>21. ASSUME NEW w \in Worker, WindowClosed(w) PROVE WorkTypes'
    BY <1>21 DEF WindowClosed, Goto, Release, hcaVars
  <1>22. ASSUME NEW w \in Worker, Uncount(w) PROVE WorkTypes'
    <2>1. 0 \in 0..Cardinality(Slice) /\ nrPoll \in Int  BY SliceFinite
    <2> QED  BY <1>22, <2>1 DEF Uncount, Goto
  <1>23. ASSUME NEW p \in Peer, PassiveInserts(p) PROVE WorkTypes'
    <2>1. PICK n \in EndPoint : InsertOf(p, n)  BY <1>23, InsertSteps
    <2>2. events < MaxEvents /\ events' = events + 1  BY <1>23 DEF PassiveInserts, Event
    <2>3. events' \in 0..MaxEvents  BY <2>2, LimitsAssumption
    <2> QED  BY <1>23, <2>1, <2>3 DEF PassiveInserts, InsertOf, workVars
  <1> QED  BY <1>1, <1>2, <1>3, <1>4, <1>5, <1>6, <1>7, <1>8, <1>9, <1>10, <1>11, <1>12, <1>13,
              <1>14, <1>15, <1>16, <1>17, <1>18, <1>19, <1>20, <1>21, <1>22, <1>23,
              NextSteps

(***************************************************************************)
(* Where the slices are.                                                   *)
(***************************************************************************)
\* A step inside the transport moves only slices that are under way.
Moves == \A s \in Slice : /\ at'[s] = "new" <=> at[s] = "new"
                          /\ at[s] \in {"success", "failed"} => at'[s] = at[s]

LEMMA RedispatchMoves ==
    ASSUME NEW w, NEW S \in SUBSET Slice, NEW dead \in SUBSET S, RedispatchOf(w, S, dead),
           \A s \in S : at[s] \in {"local", "queued"}
    PROVE  Moves
  BY DEF RedispatchOf, Moves

LEMMA CollectMoves ==
    ASSUME SliceTypes, NEW w \in Worker, Collect(w) \/ CollectRedispatch(w)
    PROVE  Moves
  <1>1. CASE Collect(w)  BY <1>1 DEF Collect, Moves, Shard
  <1>2. CASE CollectRedispatch(w)
    <2> DEFINE S == Local(w) \cup Shard(w)
    <2>1. S \in SUBSET Slice /\ \A s \in S : at[s] \in {"local", "queued"}  BY DEF Local, Shard
    <2>2. redispatch(w, S, retry)  BY <1>2 DEF CollectRedispatch
    <2> HIDE DEF S
    <2>3. PICK dead \in SUBSET S : RedispatchOf(w, S, dead)  BY <2>1, <2>2, RedispatchEffect
    <2> QED  BY <2>1, <2>3, RedispatchMoves
  <1> QED  BY <1>1, <1>2

LEMMA RoundEndMoves ==
    ASSUME SliceTypes, WorkTypes, Hands, NEW w \in Worker, RoundEnd(w)
    PROVE  Moves
  <1>1. broken[w] \in SUBSET Slice /\ \A s \in broken[w] : at[s] = "local"
    BY DEF WorkTypes, Hands, HandsOf, Local
  <1>2. redispatch(w, broken[w], Tried(w))  BY DEF RoundEnd, Tried
  <1>3. PICK dead \in SUBSET broken[w] : RedispatchOf(w, broken[w], dead)
    BY <1>1, <1>2, RedispatchEffect
  <1> QED  BY <1>1, <1>3, RedispatchMoves

LEMMA SendMoves == ASSUME NEW w \in Worker, Send(w) PROVE Moves
  <1>1. PICK S \in SUBSET Slice, P \in SUBSET Slice : SendOf(w, S, P)  BY SendEffect
  <1>2. \A s \in S : at[s] = "local"  BY <1>1 DEF SendOf, LocalTo, Local
  <1> QED  BY <1>1, <1>2 DEF SendOf, Moves

LEMMA PollMoves == ASSUME WorkTypes, NEW w \in Worker, Poll(w) PROVE Moves
  <1>1. PollOf  BY PollEffect
  <1>2. \A s \in Done : at[s] = "completed"  BY DEF Done
  <1>3. \A s \in Errs : at[s] = "flushed"  BY DEF Errs
  <1>4. Dead \subseteq Errs  BY DEF Dead
  <1> QED  BY <1>1, <1>2, <1>3, <1>4 DEF PollOf, Moves

LEMMA AdapterMoves ==
    ASSUME SliceTypes, WorkTypes
    PROVE  /\ \A s \in Slice : Complete(s) \/ Flush(s) => Moves
           /\ \A e \in EndPoint : PassiveHandshake(e) \/ DisconnectNext(e) => Moves
  <1>1. ASSUME NEW s \in Slice, Complete(s) \/ Flush(s) PROVE Moves
    BY <1>1 DEF Complete, Flush, Moves, SliceTypes
  <1>2. ASSUME NEW e \in EndPoint, PassiveHandshake(e) \/ DisconnectNext(e) PROVE Moves
    <2>1. DisconnectOf(e)  BY <1>2, DisconnectEffect
    <2> QED  BY <2>1 DEF DisconnectOf, Wrs, Posted, Moves
  <1> QED  BY <1>1, <1>2

LEMMA SubmissionStep ==
    ASSUME SliceTypes, WorkTypes, Hands, TaskCounts, Submission, [Next]_vars
    PROVE  Submission'
  <1> USE TasksAssumption
  <1>1. ASSUME Moves, UNCHANGED taskVars PROVE Submission'
    <2>1. \A t \in Task : owed'[t] \subseteq SlicesOf(t) /\ (sub'[t] # "queued" => owed'[t] = {})
      BY <1>1 DEF Submission, taskVars
    <2>2. \A s \in Slice : at'[s] = "new" <=> sub'[TaskOf[s]] = "no"
      BY <1>1 DEF Submission, Moves, taskVars
    <2>3. \A t \in Task : finished'[t] => \A s \in SlicesOf(t) : at'[s] \in {"success", "failed"}
      BY <1>1 DEF Submission, Moves, taskVars, SlicesOf
    <2> QED  BY <2>1, <2>2, <2>3 DEF Submission, SlicesOf
  <1>2. CASE SlicesStill
    <2>1. Moves /\ UNCHANGED taskVars  BY <1>2 DEF SlicesStill, Moves, sliceVars
    <2> QED  BY <1>1, <2>1
  <1>3. ASSUME NEW w \in Worker,
               Collect(w) \/ CollectRedispatch(w) \/ RoundEnd(w) \/ Send(w) \/ Poll(w)
        PROVE  Submission'
    <2>1. Moves  BY <1>3, CollectMoves, RoundEndMoves, SendMoves, PollMoves
    <2>2. UNCHANGED taskVars  BY <1>3 DEF Collect, CollectRedispatch, RoundEnd, Send, Poll
    <2> QED  BY <1>1, <2>1, <2>2
  <1>4. ASSUME NEW w \in Worker, Settle(w) PROVE Submission'
    <2>1. Moves /\ UNCHANGED taskVars  BY <1>4 DEF Settle, Moves, sliceVars
    <2> QED  BY <1>1, <2>1
  <1>5. ASSUME NEW t \in Task, SubmitEnqueue(t) PROVE Submission'
    <2>1. PICK lost \in SUBSET SlicesOf(t) :
             /\ at' = [s \in Slice |-> IF s \notin SlicesOf(t) THEN at[s]
                                       ELSE IF s \in lost THEN "failed" ELSE "queued"]
             /\ owed' = [owed EXCEPT ![t] = SlicesOf(t) \ lost]
      BY <1>5 DEF SubmitEnqueue
    <2>2. sub[t] = "no" /\ sub' = [sub EXCEPT ![t] = "queued"] /\ finished' = finished
      BY <1>5 DEF SubmitEnqueue
    <2>3. \A s \in Slice : at'[s] = "new" <=> sub'[TaskOf[s]] = "no"
      BY <2>1, <2>2 DEF Submission, SliceTypes, SlicesOf
    <2>4. \A u \in Task : owed'[u] \subseteq SlicesOf(u) /\ (sub'[u] # "queued" => owed'[u] = {})
      BY <2>1, <2>2 DEF Submission, SliceTypes
    <2>5. ASSUME NEW u \in Task, finished'[u], NEW s \in SlicesOf(u)
          PROVE  at'[s] \in {"success", "failed"}
      <3>1. at[s] \in {"success", "failed"} /\ s \in Slice /\ TaskOf[s] = u
        BY <2>2, <2>5 DEF Submission, SlicesOf
      <3>2. s \notin SlicesOf(t)  BY <2>2, <3>1 DEF Submission, SlicesOf
      <3> QED  BY <2>1, <3>1, <3>2
    <2> QED  BY <2>3, <2>4, <2>5 DEF Submission, SlicesOf
  <1>6. ASSUME NEW t \in Task, SubmitCount(t) PROVE Submission'
    <2>1. /\ sub[t] = "queued" /\ sub' = [sub EXCEPT ![t] = "done"]
          /\ owed' = [owed EXCEPT ![t] = {}] /\ finished' = finished /\ at' = at
      BY <1>6 DEF SubmitCount, sliceVars
    <2> QED  BY <2>1 DEF Submission, SliceTypes, SlicesOf
  <1>7. ASSUME NEW t \in Task, getTransferStatus(t) PROVE Submission'
    <2>1. /\ sub' = sub /\ owed' = owed /\ at' = at
          /\ finished' = [finished EXCEPT ![t] = TRUE]
          /\ good[t] + bad[t] = Cardinality(SlicesOf(t))
      BY <1>7 DEF getTransferStatus, sliceVars
    <2>2. \A s \in SlicesOf(t) : at[s] \in {"success", "failed"}
      <3>1. /\ Succeeded(t) \in SUBSET Slice /\ Failed(t) \in SUBSET Slice
            /\ Succeeded(t) \cap Failed(t) = {} /\ SlicesOf(t) \in SUBSET Slice
            /\ Succeeded(t) \cup Failed(t) \in SUBSET SlicesOf(t)
        BY DEF Succeeded, Failed, SlicesOf
      <3>2. Cardinality(Succeeded(t) \cup Failed(t)) = Cardinality(Succeeded(t)) + Cardinality(Failed(t))
        BY <3>1, CountAdd
      <3>3. Cardinality(Succeeded(t) \cup Failed(t)) = Cardinality(SlicesOf(t))
        BY <2>1, <3>2 DEF TaskCounts
      <3>4. IsFiniteSet(SlicesOf(t))  BY <3>1, SliceFinite
      <3>5. Succeeded(t) \cup Failed(t) = SlicesOf(t)  BY <3>1, <3>3, <3>4, FS_Subset
      <3> QED  BY <3>5 DEF Succeeded, Failed
    <2> QED  BY <2>1, <2>2 DEF Submission, SliceTypes, SlicesOf
  <1>8. ASSUME NEW s \in Slice, Complete(s) \/ Flush(s) PROVE Submission'
    <2>1. UNCHANGED taskVars  BY <1>8 DEF Complete, Flush
    <2> QED  BY <1>1, <1>8, <2>1, AdapterMoves
  <1>9. ASSUME NEW e \in EndPoint, PassiveHandshake(e) \/ DisconnectNext(e) PROVE Submission'
    <2>1. UNCHANGED taskVars  BY <1>9 DEF PassiveHandshake, DisconnectNext
    <2> QED  BY <1>1, <1>9, <2>1, AdapterMoves
  <1> QED  BY <1>2, <1>3, <1>4, <1>5, <1>6, <1>7, <1>8, <1>9, NextSteps, StillSteps

\* An endpoint in somebody's hands keeps its peer.
LEMMA PeersKept ==
    ASSUME SliceTypes, WorkTypes, Hands, [Next]_vars, NEW v \in Worker, held[v] \in EndPoint
    PROVE  ep'[held[v]].peer = ep[held[v]].peer
  <1> USE DEF WorkTypes, EndpointRecord
  <1>1. CASE UNCHANGED ep  BY <1>1
  <1>2. ASSUME NEW w \in Worker, Send(w) PROVE ep'[held[v]].peer = ep[held[v]].peer
    <2>1. PICK S \in SUBSET Slice, P \in SUBSET Slice : SendOf(w, S, P)  BY <1>2, SendEffect
    <2>2. ep' = [ep EXCEPT ![held[w]].depth = @ + Cardinality(P)]  BY <2>1 DEF SendOf
    <2> QED  BY <2>2
  <1>3. ASSUME NEW w \in Worker, Poll(w) PROVE ep'[held[v]].peer = ep[held[v]].peer
    BY <1>3, PollEffect DEF PollOf
  <1>4. ASSUME NEW w \in Worker, Settle(w) PROVE ep'[held[v]].peer = ep[held[v]].peer
    BY <1>4 DEF Settle
  <1>5. ASSUME NEW w \in Worker, NEW p \in Peer, Insert(w, p)
        PROVE  ep'[held[v]].peer = ep[held[v]].peer
    BY <1>5, InsertSteps DEF InsertOf
  <1>6. ASSUME NEW w \in Worker, NEW p \in Peer, Inactive(w, p)
        PROVE  ep'[held[v]].peer = ep[held[v]].peer
    BY <1>6 DEF Inactive
  <1>7. ASSUME NEW w \in Worker, Connect(w) \/ ConnectFails(w)
        PROVE  ep'[held[v]].peer = ep[held[v]].peer
    <2>1. CASE ep' = [ep EXCEPT ![held[w]].conn = TRUE]  BY <2>1
    <2>2. CASE ep' = [ep EXCEPT ![held[w]].active = FALSE]  BY <2>2
    <2> QED  BY <1>7, <2>1, <2>2 DEF Connect, ConnectFails
  <1>8. ASSUME NEW e \in EndPoint, PassiveHandshake(e) \/ DisconnectNext(e)
        PROVE  ep'[held[v]].peer = ep[held[v]].peer
    BY <1>8, DisconnectEffect DEF DisconnectOf
  <1>9. ASSUME NEW e \in EndPoint, PassiveConnects(e) \/ QpFatal(e)
        PROVE  ep'[held[v]].peer = ep[held[v]].peer
    <2>1. CASE ep' = [ep EXCEPT ![e].conn = TRUE]  BY <2>1
    <2>2. CASE ep' = [ep EXCEPT ![e].active = FALSE]  BY <2>2
    <2> QED  BY <1>9, <2>1, <2>2 DEF PassiveConnects, QpFatal
  <1>10. ASSUME NEW w \in Worker, NEW p \in Peer, Lookup(w, p) \/ NoEndpoint(w, p)
         PROVE  UNCHANGED ep
    BY <1>10 DEF Lookup, NoEndpoint, hcaVars
  <1>11. ASSUME NEW w \in Worker,
                \/ Collect(w) \/ CollectRedispatch(w) \/ RoundEnd(w)
                \/ Window(w) \/ WindowClosed(w)
         PROVE  UNCHANGED ep
    BY <1>11 DEF Collect, CollectRedispatch, RoundEnd, Window, WindowClosed, hcaVars
  <1>12. ASSUME NEW t \in Task, SubmitEnqueue(t) \/ SubmitCount(t) \/ getTransferStatus(t)
         PROVE  UNCHANGED ep
    BY <1>12 DEF SubmitEnqueue, SubmitCount, getTransferStatus, hcaVars
  <1>13. ASSUME NEW s \in Slice, Complete(s) \/ Flush(s) PROVE UNCHANGED ep
    BY <1>13 DEF Complete, Flush, hcaVars
  <1>14. ASSUME UNCHANGED vars \/ DeviceFails \/ Activate PROVE UNCHANGED ep
    BY <1>14 DEF vars, DeviceFails, Activate, hcaVars
  <1>15. ASSUME NEW w \in Worker, Uncount(w) PROVE UNCHANGED ep  BY <1>15 DEF Uncount
  <1>16. ASSUME NEW p \in Peer, PassiveInserts(p) PROVE ep'[held[v]].peer = ep[held[v]].peer
    BY <1>16, InsertSteps DEF InsertOf
  <1> QED  BY <1>1, <1>2, <1>3, <1>4, <1>5, <1>6, <1>7, <1>8, <1>9, <1>10, <1>11, <1>12, <1>13,
              <1>14, <1>15, <1>16, NextSteps

\* The slices in failed_slice_list of a worker stay where they are.
Kept(v) == \A s \in broken[v] : at'[s] = at[s] /\ by'[s] = by[s] /\ peer'[s] = peer[s]

LEMMA KeptStep ==
    ASSUME SliceTypes, WorkTypes, Hands, Submission, NEW v \in Worker
    PROVE  /\ SlicesStill => Kept(v)
           /\ \A w \in Worker : Collect(w) \/ Poll(w) \/ Settle(w) => Kept(v)
           /\ \A w \in Worker : w # v /\ (CollectRedispatch(w) \/ RoundEnd(w) \/ Send(w)) => Kept(v)
           /\ \A t \in Task : SubmitEnqueue(t) \/ SubmitCount(t) \/ getTransferStatus(t) => Kept(v)
           /\ \A s \in Slice : Complete(s) \/ Flush(s) => Kept(v)
           /\ \A e \in EndPoint : PassiveHandshake(e) \/ DisconnectNext(e) => Kept(v)
  <1>1. \A s \in broken[v] : s \in Slice /\ at[s] = "local" /\ by[s] = v
    BY DEF Hands, HandsOf, Local
  <1>2. SlicesStill => Kept(v)  BY DEF SlicesStill, sliceVars, Kept
  <1>3. ASSUME NEW w \in Worker, Collect(w) PROVE Kept(v)
    BY <1>1, <1>3 DEF Collect, Kept, Shard
  <1>4. ASSUME NEW w \in Worker, Poll(w) PROVE Kept(v)
    <2>1. \A s \in Done \cup Errs : at[s] # "local"  BY DEF Done, Errs
    <2>2. \A s \in Slice : s \notin Errs => by'[s] = by[s]  BY <1>4 DEF Poll, Errs, SliceTypes
    <2>3. peer' = peer  BY <1>4 DEF Poll
    <2>4. \A s \in Slice \ (Done \cup Errs) : at'[s] = at[s]
      BY <1>4, PollEffect DEF PollOf, Dead
    <2> QED  BY <1>1, <2>1, <2>2, <2>3, <2>4 DEF Kept
  <1>5. ASSUME NEW w \in Worker, Settle(w) PROVE Kept(v)
    BY <1>5 DEF Settle, sliceVars, Kept
  <1>6. ASSUME NEW w \in Worker, w # v, CollectRedispatch(w) PROVE Kept(v)
    <2> DEFINE S == Local(w) \cup Shard(w)
    <2>1. S \in SUBSET Slice /\ \A s \in S : by[s] = w  BY DEF Local, Shard
    <2>2. redispatch(w, S, retry)  BY <1>6 DEF CollectRedispatch
    <2> HIDE DEF S
    <2>3. PICK dead \in SUBSET S : RedispatchOf(w, S, dead)  BY <2>1, <2>2, RedispatchEffect
    <2> QED  BY <1>1, <1>6, <2>1, <2>3 DEF RedispatchOf, Kept
  <1>7. ASSUME NEW w \in Worker, w # v, RoundEnd(w) PROVE Kept(v)
    <2>1. broken[w] \in SUBSET Slice /\ \A s \in broken[w] : by[s] = w
      BY DEF WorkTypes, Hands, HandsOf, Local
    <2>2. redispatch(w, broken[w], Tried(w))  BY <1>7 DEF RoundEnd, Tried
    <2>3. PICK dead \in SUBSET broken[w] : RedispatchOf(w, broken[w], dead)
      BY <2>1, <2>2, RedispatchEffect
    <2> QED  BY <1>1, <1>7, <2>1, <2>3 DEF RedispatchOf, Kept
  <1>8. ASSUME NEW w \in Worker, w # v, Send(w) PROVE Kept(v)
    <2>1. PICK S \in SUBSET Slice, P \in SUBSET Slice : SendOf(w, S, P)  BY <1>8, SendEffect
    <2>2. \A s \in S : by[s] = w  BY <2>1 DEF SendOf, LocalTo, Local
    <2>3. by' = by /\ peer' = peer  BY <1>8 DEF Send
    <2> QED  BY <1>1, <1>8, <2>1, <2>2, <2>3 DEF SendOf, Kept
  <1>9. ASSUME NEW t \in Task, SubmitEnqueue(t) PROVE Kept(v)
    <2>1. \A s \in broken[v] : s \notin SlicesOf(t)
      <3>1. sub[t] = "no"  BY <1>9 DEF SubmitEnqueue
      <3> QED  BY <1>1, <3>1 DEF Submission, SlicesOf
    <2>2. \A s \in Slice \ SlicesOf(t) : at'[s] = at[s] /\ by'[s] = by[s] /\ peer'[s] = peer[s]
      BY <1>9 DEF SubmitEnqueue
    <2> QED  BY <1>1, <2>1, <2>2 DEF Kept
  <1>10. ASSUME NEW t \in Task, SubmitCount(t) \/ getTransferStatus(t) PROVE Kept(v)
    BY <1>10 DEF SubmitCount, getTransferStatus, sliceVars, Kept
  <1>11. ASSUME NEW s \in Slice, Complete(s) \/ Flush(s) PROVE Kept(v)
    BY <1>1, <1>11 DEF Complete, Flush, Kept, SliceTypes
  <1>12. ASSUME NEW e \in EndPoint, PassiveHandshake(e) \/ DisconnectNext(e) PROVE Kept(v)
    <2>1. by' = by /\ peer' = peer  BY <1>12 DEF PassiveHandshake, DisconnectNext
    <2>2. DisconnectOf(e)  BY <1>12, DisconnectEffect
    <2> QED  BY <1>1, <2>1, <2>2 DEF DisconnectOf, Wrs, Posted, Kept
  <1> QED  BY <1>2, <1>3, <1>4, <1>5, <1>6, <1>7, <1>8, <1>9, <1>10, <1>11, <1>12

LEMMA HandsFrame ==
    ASSUME SliceTypes, WorkTypes, Hands, [Next]_vars, NEW v \in Worker, Kept(v),
           pc'[v] = pc[v], todo'[v] = todo[v], held'[v] = held[v], broken'[v] = broken[v]
    PROVE  HandsOf(v)'
  <1>1. HandsOf(v)  BY DEF Hands
  <1>2. Cur(v)' = ep'[held'[v]].peer /\ Cur(v) = ep[held[v]].peer  BY DEF Cur
  <1>3. pc[v] \in Busy => Cur(v)' = Cur(v)  BY <1>2, HeldEndpoint, PeersKept
  <1>4. broken'[v] \subseteq Local(v)'  BY <1>1 DEF HandsOf, Local, Kept
  <1>5. \A s \in broken'[v] : peer'[s] \notin todo'[v]  BY <1>1 DEF HandsOf, Kept
  <1>6. HandsOf(v)' = /\ held'[v] # None <=> pc'[v] \in Busy
                      /\ pc'[v] \in Busy => Cur(v)' \in todo'[v]
                      /\ broken'[v] \subseteq Local(v)'
                      /\ \A s \in broken'[v] : peer'[s] \notin todo'[v]
                      /\ pc'[v] \notin Busy \cup {"post"} => broken'[v] = {}
    BY DEF HandsOf, Busy
  <1> QED  BY <1>1, <1>3, <1>4, <1>5, <1>6 DEF HandsOf

LEMMA HandsStep ==
    ASSUME SliceTypes, WorkTypes, Hands, Submission, [Next]_vars
    PROVE  Hands'
  <1> SUFFICES ASSUME NEW v \in Worker PROVE HandsOf(v)'  BY DEF Hands
  <1> USE DEF Busy
  <1>0. HandsOf(v)  BY DEF Hands
  <1>1. ASSUME Kept(v), UNCHANGED <<pc, todo, held, broken>> PROVE HandsOf(v)'
    BY <1>1, HandsFrame
  <1>2. ASSUME NEW w \in Worker, w # v,
               \/ Collect(w) \/ CollectRedispatch(w) \/ Connect(w) \/ ConnectFails(w)
               \/ Window(w) \/ WindowClosed(w) \/ Send(w) \/ RoundEnd(w)
               \/ Poll(w) \/ Uncount(w) \/ Settle(w)
               \/ \E p \in Peer : Lookup(w, p) \/ Insert(w, p) \/ NoEndpoint(w, p) \/ Inactive(w, p)
        PROVE  HandsOf(v)'
    <2>1. Kept(v)  BY <1>2, KeptStep, StillSteps
    <2>2. pc'[v] = pc[v]
      BY <1>2 DEF WorkTypes, Goto, Collect, CollectRedispatch, Connect, ConnectFails, Window,
                  WindowClosed, Send, RoundEnd, Poll, Uncount, Settle, Lookup, Insert, NoEndpoint,
                  Inactive
    <2>3. todo'[v] = todo[v]
      BY <1>2 DEF WorkTypes, Break, Collect, CollectRedispatch, Connect, ConnectFails, Window,
                  WindowClosed, Send, RoundEnd, Poll, Uncount, Settle, Lookup, Insert, NoEndpoint,
                  Inactive
    <2>4. held'[v] = held[v]
      BY <1>2 DEF WorkTypes, Release, Collect, CollectRedispatch, Connect, ConnectFails, Window,
                  WindowClosed, Send, RoundEnd, Poll, Uncount, Settle, Lookup, Insert, NoEndpoint,
                  Inactive
    <2>5. broken'[v] = broken[v]
      BY <1>2 DEF WorkTypes, Break, Collect, CollectRedispatch, Connect, ConnectFails, Window,
                  WindowClosed, Send, RoundEnd, Poll, Uncount, Settle, Lookup, Insert, NoEndpoint,
                  Inactive
    <2> QED  BY <2>1, <2>2, <2>3, <2>4, <2>5, HandsFrame
  <1>3. ASSUME UNCHANGED vars \/ DeviceFails \/ Activate PROVE HandsOf(v)'
    <2>1. Kept(v)  BY <1>3, KeptStep, StillSteps
    <2>2. UNCHANGED <<pc, todo, held, broken>>  BY <1>3 DEF vars, DeviceFails, Activate, workVars
    <2> QED  BY <1>1, <2>1, <2>2
  <1>4. ASSUME NEW t \in Task, SubmitEnqueue(t) \/ SubmitCount(t) \/ getTransferStatus(t)
        PROVE  HandsOf(v)'
    <2>1. Kept(v)  BY <1>4, KeptStep
    <2>2. UNCHANGED <<pc, todo, held, broken>>
      BY <1>4 DEF SubmitEnqueue, SubmitCount, getTransferStatus, workVars
    <2> QED  BY <1>1, <2>1, <2>2
  <1>5. ASSUME NEW s \in Slice, Complete(s) \/ Flush(s) PROVE HandsOf(v)'
    <2>1. Kept(v)  BY <1>5, KeptStep
    <2>2. UNCHANGED <<pc, todo, held, broken>>  BY <1>5 DEF Complete, Flush, workVars
    <2> QED  BY <1>1, <2>1, <2>2
  <1>6. ASSUME NEW e \in EndPoint,
               PassiveHandshake(e) \/ DisconnectNext(e) \/ PassiveConnects(e) \/ QpFatal(e)
        PROVE  HandsOf(v)'
    <2>1. Kept(v)  BY <1>6, KeptStep, StillSteps
    <2>2. UNCHANGED <<pc, todo, held, broken>>
      BY <1>6 DEF PassiveHandshake, DisconnectNext, PassiveConnects, QpFatal, workVars
    <2> QED  BY <1>1, <2>1, <2>2
  \* What v does itself.
  <1>7. ASSUME Collect(v) PROVE HandsOf(v)'
    <2>1. /\ pc[v] = "loop" /\ pc'[v] = "post" /\ held' = held /\ broken' = broken
      BY <1>7 DEF Collect, Goto, WorkTypes
    <2> QED  BY <1>0, <2>1 DEF HandsOf
  <1>8. ASSUME CollectRedispatch(v) PROVE HandsOf(v)'
    <2>1. /\ pc[v] = "loop" /\ pc'[v] \in {"poll", "loop"} /\ held' = held /\ broken' = broken
      BY <1>8 DEF CollectRedispatch, Goto, WorkTypes
    <2> QED  BY <1>0, <2>1 DEF HandsOf
  <1>9. ASSUME RoundEnd(v) PROVE HandsOf(v)'
    <2>1. /\ pc[v] = "post" /\ pc'[v] \in {"poll", "loop"} /\ held' = held /\ broken'[v] = {}
      BY <1>9 DEF RoundEnd, Goto, WorkTypes
    <2> QED  BY <1>0, <2>1 DEF HandsOf
  <1>10. ASSUME Poll(v) \/ Uncount(v) \/ Settle(v) PROVE HandsOf(v)'
    <2>1. /\ pc[v] \in {"poll", "uncount", "settle"} /\ pc'[v] \in {"uncount", "settle", "loop"}
          /\ held' = held /\ broken' = broken
      BY <1>10 DEF Poll, Uncount, Settle, Goto, WorkTypes
    <2> QED  BY <1>0, <2>1 DEF HandsOf
  <1>11. ASSUME NEW p \in Peer, Lookup(v, p) PROVE HandsOf(v)'
    <2>1. PICK e \in EndpointOf(p) : /\ held' = [held EXCEPT ![v] = e]
                                     /\ Goto(v, IF ep[e].conn THEN "window" ELSE "connect")
      BY <1>11 DEF Lookup
    <2>2. e \in EndPoint /\ ep[e].peer = p /\ p \in todo[v]
      BY <1>11 DEF EndpointOf, Mapped, Lookup
    <2>3. /\ held'[v] = e /\ e # None /\ pc'[v] \in Busy
      BY <2>1, <2>2, NoneAssumption DEF WorkTypes, Goto
    <2>4. /\ todo' = todo /\ broken' = broken /\ ep' = ep /\ at' = at /\ by' = by /\ peer' = peer
      BY <1>11 DEF Lookup, hcaVars, sliceVars
    <2>5. pc[v] = "post"  BY <1>11 DEF Lookup
    <2>6. broken'[v] \subseteq Local(v)'  BY <1>0, <2>4, <2>5 DEF HandsOf, Local
    <2>7. Cur(v)' = p  BY <2>2, <2>3, <2>4 DEF Cur
    <2> QED  BY <1>0, <2>2, <2>3, <2>4, <2>5, <2>6, <2>7 DEF HandsOf
  <1>12. ASSUME NEW p \in Peer, Insert(v, p) PROVE HandsOf(v)'
    <2>1. PICK n \in EndPoint : InsertOf(p, n) /\ held' = [held EXCEPT ![v] = n]
      BY <1>12, InsertSteps
    <2>2. held'[v] = n /\ n # None /\ ep'[n].peer = p
      BY <2>1, NoneAssumption DEF InsertOf, WorkTypes
    <2>3. pc[v] = "post" /\ pc'[v] = "connect" /\ p \in todo[v]
      BY <1>12 DEF Insert, Goto, WorkTypes
    <2>4. /\ todo' = todo /\ broken' = broken /\ at' = at /\ by' = by /\ peer' = peer
      BY <1>12 DEF Insert, sliceVars
    <2>5. broken'[v] \subseteq Local(v)'  BY <1>0, <2>3, <2>4 DEF HandsOf, Local
    <2>6. Cur(v)' = p  BY <2>2 DEF Cur
    <2> QED  BY <1>0, <2>2, <2>3, <2>4, <2>5, <2>6 DEF HandsOf
  <1>13. ASSUME NEW p \in Peer, Break(v, p), SlicesStill, held'[v] = None,
                pc'[v] = "post", pc[v] \in Busy \cup {"post"}
         PROVE  HandsOf(v)'
    <2>1. /\ broken'[v] = broken[v] \cup LocalTo(v, p) /\ todo'[v] = todo[v] \ {p}
      BY <1>13 DEF Break, WorkTypes
    <2>2. at' = at /\ by' = by /\ peer' = peer  BY <1>13 DEF SlicesStill, sliceVars
    <2>3. broken'[v] \subseteq Local(v)'
      BY <1>0, <2>1, <2>2 DEF HandsOf, Local, LocalTo
    <2>4. \A s \in broken'[v] : peer'[s] \notin todo'[v]
      BY <1>0, <2>1, <2>2 DEF HandsOf, LocalTo
    <2> QED  BY <1>13, <2>3, <2>4 DEF HandsOf
  <1>14. ASSUME NEW p \in Peer, NoEndpoint(v, p) \/ Inactive(v, p) PROVE HandsOf(v)'
    <2>1. SlicesStill  BY <1>14, StillSteps
    <2>2. Break(v, p) /\ held' = held /\ pc' = pc /\ pc[v] = "post"
      BY <1>14 DEF NoEndpoint, Inactive
    <2>3. held[v] = None  BY <1>0, <2>2 DEF HandsOf
    <2> QED  BY <1>13, <2>1, <2>2, <2>3
  <1>15. ASSUME ConnectFails(v) PROVE HandsOf(v)'
    <2>1. SlicesStill  BY <1>15, StillSteps
    <2>2. /\ Break(v, Cur(v)) /\ held'[v] = None /\ pc'[v] = "post" /\ pc[v] = "connect"
      BY <1>15 DEF ConnectFails, Release, Goto, WorkTypes
    <2>3. Cur(v) \in Peer  BY <1>0, <2>2 DEF HandsOf, WorkTypes
    <2> QED  BY <1>13, <2>1, <2>2, <2>3
  <1>16. ASSUME Connect(v) \/ Window(v) PROVE HandsOf(v)'
    <2>1. SlicesStill  BY <1>16, StillSteps
    <2>2. /\ pc[v] \in Busy /\ pc'[v] \in Busy
          /\ held' = held /\ todo' = todo /\ broken' = broken
      BY <1>16 DEF Connect, Window, Goto, WorkTypes
    <2>3. Cur(v)' = Cur(v)
      <3>1. held[v] \in EndPoint  BY <2>2, HeldEndpoint
      <3> QED  BY <2>2, <3>1, PeersKept DEF Cur
    <2>4. at' = at /\ by' = by /\ peer' = peer  BY <2>1 DEF SlicesStill, sliceVars
    <2>5. broken'[v] \subseteq Local(v)'  BY <1>0, <2>2, <2>4 DEF HandsOf, Local
    <2> QED  BY <1>0, <2>2, <2>3, <2>4, <2>5 DEF HandsOf
  <1>17. ASSUME WindowClosed(v) PROVE HandsOf(v)'
    <2>1. SlicesStill  BY <1>17, StillSteps
    <2>2. /\ held'[v] = None /\ todo'[v] \subseteq todo[v] /\ broken' = broken /\ pc'[v] = "post"
      BY <1>17 DEF WindowClosed, Release, Goto, WorkTypes
    <2>3. at' = at /\ by' = by /\ peer' = peer  BY <2>1 DEF SlicesStill, sliceVars
    <2>4. broken'[v] \subseteq Local(v)'  BY <1>0, <2>2, <2>3 DEF HandsOf, Local
    <2> QED  BY <1>0, <2>2, <2>3, <2>4 DEF HandsOf
  <1>18. ASSUME Send(v) PROVE HandsOf(v)'
    <2>1. PICK S \in SUBSET Slice, P \in SUBSET Slice : SendOf(v, S, P)  BY <1>18, SendEffect
    <2>2. /\ held'[v] = None /\ todo'[v] = todo[v] \ {Cur(v)} /\ pc'[v] = "post"
          /\ by' = by /\ peer' = peer /\ pc[v] = "send"
      BY <1>18 DEF Send, Release, Goto, WorkTypes
    <2>3. Cur(v) \in todo[v]  BY <1>0, <2>2 DEF HandsOf
    <2>4. \A s \in S : s \in Local(v) /\ peer[s] = Cur(v)  BY <2>1 DEF SendOf, LocalTo
    <2>5. \A s \in broken[v] : s \notin S  BY <1>0, <2>3, <2>4 DEF HandsOf
    <2>6. /\ broken'[v] = broken[v] \cup (S \ P) /\ P \in SUBSET S
          /\ \A s \in Slice \ P : at'[s] = at[s]
      BY <2>1 DEF SendOf, WorkTypes
    <2>7. broken'[v] \subseteq Local(v)'
      BY <1>0, <2>2, <2>4, <2>5, <2>6 DEF HandsOf, Local
    <2>8. \A s \in broken'[v] : peer'[s] \notin todo'[v]
      BY <1>0, <2>2, <2>4, <2>6 DEF HandsOf
    <2> QED  BY <2>2, <2>7, <2>8 DEF HandsOf
  <1>19. ASSUME NEW p \in Peer, PassiveInserts(p) PROVE HandsOf(v)'
    <2>1. Kept(v)  BY <1>19, KeptStep, StillSteps
    <2>2. UNCHANGED <<pc, todo, held, broken>>  BY <1>19 DEF PassiveInserts, workVars
    <2> QED  BY <1>1, <2>1, <2>2
  <1> QED  BY <1>2, <1>3, <1>4, <1>5, <1>6, <1>7, <1>8, <1>9, <1>10, <1>11, <1>12, <1>14, <1>15,
              <1>16, <1>17, <1>18, <1>19, NextSteps

(***************************************************************************)
(* The Poller, and the workers that have an endpoint's lock.               *)
(***************************************************************************)
LEMMA PollingStep ==
    ASSUME SliceTypes, WorkTypes, Polling, [Next]_vars
    PROVE  Polling'
  <1>1. ASSUME gain' = gain, polled' = polled, nrPoll' = nrPoll,
               \A w \in Worker : \/ pc'[w] = pc[w]
                                 \/ /\ pc[w] \notin {"uncount", "settle"}
                                    /\ pc'[w] \notin {"uncount", "settle"}
                                    /\ pc'[w] = "poll" => w = Poller
        PROVE  Polling'
    BY <1>1, WorkersAssumption DEF Polling
  <1>2. ASSUME UNCHANGED <<pc, gain, polled, nrPoll>> PROVE Polling'  BY <1>1, <1>2
  <1>3. ASSUME NEW w \in Worker,
               \/ Collect(w) \/ CollectRedispatch(w) \/ Connect(w) \/ ConnectFails(w)
               \/ Window(w) \/ WindowClosed(w) \/ Send(w) \/ RoundEnd(w)
               \/ \E p \in Peer : Lookup(w, p) \/ Insert(w, p)
        PROVE  Polling'
    <2>1. gain' = gain /\ polled' = polled /\ nrPoll' = nrPoll
      BY <1>3 DEF Collect, CollectRedispatch, Connect, ConnectFails, Window, WindowClosed, Send,
                  RoundEnd, Lookup, Insert
    <2>2. \E q \in {"loop", "post", "connect", "window", "send", "poll"} :
             /\ pc' = [pc EXCEPT ![w] = q] /\ (q = "poll" => w = Poller)
             /\ pc[w] \notin {"uncount", "settle"}
      BY <1>3 DEF Collect, CollectRedispatch, Connect, ConnectFails, Window, WindowClosed, Send,
                  RoundEnd, Lookup, Insert, Goto
    <2> QED  BY <1>1, <2>1, <2>2 DEF WorkTypes
  <1>4. ASSUME NEW w \in Worker, NEW p \in Peer, NoEndpoint(w, p) \/ Inactive(w, p) PROVE Polling'
    BY <1>2, <1>4 DEF NoEndpoint, Inactive
  <1>5. ASSUME NEW w \in Worker, Poll(w) PROVE Polling'
    <2>1. pc[w] = "poll" /\ pc' = [pc EXCEPT ![w] = "uncount"]  BY <1>5 DEF Poll, Goto
    <2>2. w = Poller  BY <2>1 DEF Polling
    <2> QED  BY <2>1, <2>2 DEF Polling, WorkTypes
  <1>6. ASSUME NEW w \in Worker, Settle(w) PROVE Polling'
    <2>1. /\ pc[w] = "settle" /\ pc' = [pc EXCEPT ![w] = "loop"] /\ gain' = 0
          /\ polled' = [e \in EndPoint |-> 0] /\ nrPoll' = nrPoll
      BY <1>6 DEF Settle, Goto
    <2>2. w = Poller  BY <2>1 DEF Polling
    <2> QED  BY <2>1, <2>2 DEF Polling, WorkTypes
  <1>7. ASSUME NEW t \in Task, SubmitEnqueue(t) \/ SubmitCount(t) \/ getTransferStatus(t)
        PROVE  Polling'
    BY <1>2, <1>7 DEF SubmitEnqueue, SubmitCount, getTransferStatus, workVars
  <1>8. ASSUME NEW s \in Slice, Complete(s) \/ Flush(s) PROVE Polling'
    BY <1>2, <1>8 DEF Complete, Flush, workVars
  <1>9. ASSUME NEW e \in EndPoint,
               PassiveHandshake(e) \/ DisconnectNext(e) \/ PassiveConnects(e) \/ QpFatal(e)
        PROVE  Polling'
    BY <1>2, <1>9 DEF PassiveHandshake, DisconnectNext, PassiveConnects, QpFatal, workVars
  <1>10. ASSUME UNCHANGED vars \/ DeviceFails \/ Activate PROVE Polling'
    BY <1>2, <1>10 DEF vars, DeviceFails, Activate, workVars
  <1>11. ASSUME NEW w \in Worker, Uncount(w) PROVE Polling'
    <2>1. /\ pc[w] = "uncount" /\ pc' = [pc EXCEPT ![w] = "settle"] /\ nrPoll' = 0
      BY <1>11 DEF Uncount, Goto
    <2>2. w = Poller  BY <2>1 DEF Polling
    <2> QED  BY <2>1, <2>2 DEF Polling, WorkTypes
  <1>12. ASSUME NEW p \in Peer, PassiveInserts(p) PROVE Polling'
    BY <1>2, <1>12 DEF PassiveInserts, workVars
  <1> QED  BY <1>3, <1>4, <1>5, <1>6, <1>7, <1>8, <1>9, <1>10, <1>11, <1>12, NextSteps

\* Whoever holds a lock after a step held it before, unless it has just
\* computed its window.
SendersSame == \A w \in Worker : pc'[w] = "send" =>
                  pc[w] = "send" /\ held'[w] = held[w] /\ room'[w] = room[w]

LEMMA SendersStep ==
    ASSUME WorkTypes, [Next]_vars
    PROVE  SendersSame \/ \E w \in Worker : Window(w)
  <1>1. ASSUME UNCHANGED <<pc, held, room>> PROVE SendersSame  BY <1>1 DEF SendersSame
  <1>2. ASSUME NEW w \in Worker,
               \/ Collect(w) \/ CollectRedispatch(w) \/ Connect(w) \/ ConnectFails(w)
               \/ WindowClosed(w) \/ Send(w) \/ RoundEnd(w) \/ Poll(w) \/ Uncount(w) \/ Settle(w)
               \/ \E p \in Peer : Lookup(w, p) \/ Insert(w, p)
        PROVE  SendersSame
    <2>1. \E q \in {"loop", "post", "connect", "window", "poll", "uncount", "settle"} :
             pc' = [pc EXCEPT ![w] = q]
      BY <1>2 DEF Collect, CollectRedispatch, Connect, ConnectFails, WindowClosed, Send,
                  RoundEnd, Lookup, Insert, Poll, Uncount, Settle, Goto
    <2>2. \A v \in Worker \ {w} : held'[v] = held[v] /\ room'[v] = room[v]
      BY <1>2 DEF Collect, CollectRedispatch, Connect, ConnectFails, WindowClosed, Send,
                  RoundEnd, Lookup, Insert, Poll, Uncount, Settle, Release, WorkTypes
    <2> QED  BY <2>1, <2>2 DEF SendersSame, WorkTypes
  <1>3. ASSUME NEW w \in Worker, NEW p \in Peer, NoEndpoint(w, p) \/ Inactive(w, p)
        PROVE  SendersSame
    BY <1>1, <1>3 DEF NoEndpoint, Inactive
  <1>4. ASSUME NEW t \in Task, SubmitEnqueue(t) \/ SubmitCount(t) \/ getTransferStatus(t)
        PROVE  SendersSame
    BY <1>1, <1>4 DEF SubmitEnqueue, SubmitCount, getTransferStatus, workVars
  <1>5. ASSUME NEW s \in Slice, Complete(s) \/ Flush(s) PROVE SendersSame
    BY <1>1, <1>5 DEF Complete, Flush, workVars
  <1>6. ASSUME NEW e \in EndPoint,
               PassiveHandshake(e) \/ DisconnectNext(e) \/ PassiveConnects(e) \/ QpFatal(e)
        PROVE  SendersSame
    BY <1>1, <1>6 DEF PassiveHandshake, DisconnectNext, PassiveConnects, QpFatal, workVars
  <1>7. ASSUME UNCHANGED vars \/ DeviceFails \/ Activate PROVE SendersSame
    BY <1>1, <1>7 DEF vars, DeviceFails, Activate, workVars
  <1>8. ASSUME NEW p \in Peer, PassiveInserts(p) PROVE SendersSame
    BY <1>1, <1>8 DEF PassiveInserts, workVars
  <1> QED  BY <1>2, <1>3, <1>4, <1>5, <1>6, <1>7, <1>8, NextSteps

\* An endpoint is made inactive under its lock, and destroyed when inactive.
ActiveOf(e) == /\ ep'[e].st = "free" => ~ep'[e].active
               /\ Locked(e) => ep'[e].active = ep[e].active

LEMMA ActiveStep ==
    ASSUME SliceTypes, WorkTypes, Hands, Locks, [Next]_vars, NEW e \in EndPoint
    PROVE  ActiveOf(e)
  <1> USE DEF WorkTypes, EndpointRecord
  <1>0. ep[e].st = "free" => ~ep[e].active  BY DEF Locks
  <1>1. ASSUME UNCHANGED ep PROVE ActiveOf(e)  BY <1>0, <1>1 DEF ActiveOf
  <1>2. ASSUME NEW w \in Worker, Send(w) PROVE ActiveOf(e)
    <2>1. PICK S \in SUBSET Slice, P \in SUBSET Slice : SendOf(w, S, P)  BY <1>2, SendEffect
    <2>2. ep' = [ep EXCEPT ![held[w]].depth = @ + Cardinality(P)]  BY <2>1 DEF SendOf
    <2>3. ep'[e].st = ep[e].st /\ ep'[e].active = ep[e].active  BY <2>2
    <2> QED  BY <1>0, <2>3 DEF ActiveOf
  <1>3. ASSUME NEW w \in Worker, Poll(w) PROVE ActiveOf(e)
    <2>1. /\ ep'[e].active = ep[e].active
          /\ ep'[e].st = "free" <=> ep[e].st = "free"
      BY <1>3, PollEffect DEF PollOf
    <2> QED  BY <1>0, <2>1 DEF ActiveOf
  <1>4. ASSUME NEW w \in Worker, Settle(w) PROVE ActiveOf(e)
    <2>1. ep'[e].st = ep[e].st /\ ep'[e].active = ep[e].active  BY <1>4 DEF Settle
    <2> QED  BY <1>0, <2>1 DEF ActiveOf
  <1>5. ASSUME NEW p \in Peer, PassiveInserts(p) \/ \E w \in Worker : Insert(w, p)
        PROVE  ActiveOf(e)
    <2>1. PICK n \in EndPoint : InsertOf(p, n)  BY <1>5, InsertSteps
    <2>2. ~Locked(n)  BY <2>1 DEF InsertOf, Locked
    <2> QED  BY <1>0, <2>1, <2>2 DEF InsertOf, ActiveOf
  <1>6. ASSUME NEW w \in Worker, NEW p \in Peer, Inactive(w, p) PROVE ActiveOf(e)
    <2>1. /\ ep'[e].active = ep[e].active
          /\ ep'[e].st = "free" => ep[e].st = "free"
      BY <1>6 DEF Inactive
    <2> QED  BY <1>0, <2>1 DEF ActiveOf
  <1>7. ASSUME NEW w \in Worker, Connect(w) PROVE ActiveOf(e)
    <2>1. ep'[e].st = ep[e].st /\ ep'[e].active = ep[e].active  BY <1>7 DEF Connect
    <2> QED  BY <1>0, <2>1 DEF ActiveOf
  <1>8. ASSUME NEW w \in Worker, ConnectFails(w) PROVE ActiveOf(e)
    <2>1. ep' = [ep EXCEPT ![held[w]].active = FALSE] /\ ~Locked(held[w])
      BY <1>8 DEF ConnectFails
    <2>2. /\ ep'[e].st = ep[e].st
          /\ ep'[e].active = ep[e].active \/ (~ep'[e].active /\ e = held[w])
      BY <2>1
    <2> QED  BY <1>0, <2>1, <2>2 DEF ActiveOf
  <1>9. ASSUME NEW d \in EndPoint, PassiveHandshake(d) \/ DisconnectNext(d) PROVE ActiveOf(e)
    <2>1. ep'[e].st = ep[e].st /\ ep'[e].active = ep[e].active
      BY <1>9, DisconnectEffect DEF DisconnectOf
    <2> QED  BY <1>0, <2>1 DEF ActiveOf
  <1>10. ASSUME NEW d \in EndPoint, PassiveConnects(d) PROVE ActiveOf(e)
    <2>1. ep'[e].st = ep[e].st /\ ep'[e].active = ep[e].active  BY <1>10 DEF PassiveConnects
    <2> QED  BY <1>0, <2>1 DEF ActiveOf
  <1>11. ASSUME NEW d \in EndPoint, QpFatal(d) PROVE ActiveOf(e)
    <2>1. ep' = [ep EXCEPT ![d].active = FALSE] /\ ~Locked(d)  BY <1>11 DEF QpFatal
    <2>2. /\ ep'[e].st = ep[e].st
          /\ ep'[e].active = ep[e].active \/ (~ep'[e].active /\ e = d)
      BY <2>1
    <2> QED  BY <1>0, <2>1, <2>2 DEF ActiveOf
  <1>12. ASSUME NEW w \in Worker, NEW p \in Peer, Lookup(w, p) \/ NoEndpoint(w, p)
         PROVE  UNCHANGED ep
    BY <1>12 DEF Lookup, NoEndpoint, hcaVars
  <1>13. ASSUME NEW w \in Worker,
                \/ Collect(w) \/ CollectRedispatch(w) \/ RoundEnd(w)
                \/ Window(w) \/ WindowClosed(w) \/ Uncount(w)
         PROVE  UNCHANGED ep
    BY <1>13 DEF Collect, CollectRedispatch, RoundEnd, Window, WindowClosed, Uncount, hcaVars
  <1>14. ASSUME NEW t \in Task, SubmitEnqueue(t) \/ SubmitCount(t) \/ getTransferStatus(t)
         PROVE  UNCHANGED ep
    BY <1>14 DEF SubmitEnqueue, SubmitCount, getTransferStatus, hcaVars
  <1>15. ASSUME NEW s \in Slice, Complete(s) \/ Flush(s) PROVE UNCHANGED ep
    BY <1>15 DEF Complete, Flush, hcaVars
  <1>16. ASSUME UNCHANGED vars \/ DeviceFails \/ Activate PROVE UNCHANGED ep
    BY <1>16 DEF vars, DeviceFails, Activate, hcaVars
  <1> QED  BY <1>1, <1>2, <1>3, <1>4, <1>5, <1>6, <1>7, <1>8, <1>9, <1>10, <1>11, <1>12, <1>13,
              <1>14, <1>15, <1>16, NextSteps

LEMMA LocksStep ==
    ASSUME SliceTypes, WorkTypes, Hands, Locks, [Next]_vars
    PROVE  Locks'
  <1>1. \A e \in EndPoint : ActiveOf(e)  BY ActiveStep
  <1>2. \A w \in Worker : pc[w] = "send" => held[w] \in EndPoint /\ Locked(held[w])
    BY HeldEndpoint DEF Busy, Locked
  <1>3. CASE SendersSame
    BY <1>1, <1>2, <1>3 DEF Locks, SendersSame, ActiveOf
  <1>4. ASSUME NEW w \in Worker, Window(w) PROVE Locks'
    <2>1. /\ ~Locked(held[w]) /\ ep[held[w]].active
          /\ ep' = ep /\ held' = held /\ pc' = [pc EXCEPT ![w] = "send"]
      BY <1>4 DEF Window, Goto, hcaVars
    <2> QED  BY <2>1 DEF Locks, Locked, WorkTypes
  <1> QED  BY <1>3, <1>4, SendersStep

(***************************************************************************)
(* The counters of tasks and of the pool.                                  *)
(***************************************************************************)
\* A step that only moves slices from one queue to another.
Within == \A s \in Slice : at'[s] = at[s] \/ (s \in Open /\ s \in Open')

LEMMA SetTypes ==
    ASSUME NEW t
    PROVE  /\ Open \in SUBSET Slice /\ Owed \in SUBSET Slice /\ NotNew \in SUBSET Slice
           /\ SlicesOf(t) \in SUBSET Slice
           /\ Succeeded(t) \in SUBSET Slice /\ Failed(t) \in SUBSET Slice
  BY DEF Open, Owed, NotNew, SlicesOf, Succeeded, Failed

LEMMA WithinSets ==
    ASSUME SliceTypes, Within
    PROVE  /\ Open' = Open /\ NotNew' = NotNew
           /\ \A t \in Task : Succeeded(t)' = Succeeded(t) /\ Failed(t)' = Failed(t)
  BY DEF Within, Open, NotNew, Succeeded, Failed, SlicesOf, Places

LEMMA WithinCounts ==
    ASSUME SliceTypes, Counts, TaskCounts, Within,
           UNCHANGED <<owed, submitted, processed, gain, good, bad>>
    PROVE  Counts' /\ TaskCounts'
  <1>1. Owed' = Owed  BY DEF Owed
  <1> QED  BY <1>1, WithinSets DEF Counts, TaskCounts

\* Slices fail: they leave the queues and are counted, in their tasks too.
FailedOf(dead) ==
    /\ Open' = Open \ dead /\ NotNew' = NotNew /\ dead \in SUBSET Open
    /\ \A t \in Task : /\ Succeeded(t)' = Succeeded(t)
                       /\ Failed(t)' = Failed(t) \cup {s \in dead : TaskOf[s] = t}
                       /\ Failed(t) \cap {s \in dead : TaskOf[s] = t} = {}

LEMMA FailedSets ==
    ASSUME SliceTypes, NEW w, NEW S \in SUBSET Slice, NEW dead \in SUBSET S,
           RedispatchOf(w, S, dead), \A s \in S : at[s] \in {"local", "queued"}
    PROVE  FailedOf(dead)
  BY DEF RedispatchOf, FailedOf, Open, NotNew, Succeeded, Failed, SlicesOf, Places, SliceTypes

LEMMA FailedCounts ==
    ASSUME SliceTypes, Counts, TaskCounts, NEW w, NEW S \in SUBSET Slice, NEW dead \in SUBSET S,
           RedispatchOf(w, S, dead), \A s \in S : at[s] \in {"local", "queued"},
           UNCHANGED <<owed, submitted, gain, good>>, gain \in Nat
    PROVE  Counts' /\ TaskCounts'
  <1>1. /\ Open' = Open \ dead /\ NotNew' = NotNew /\ dead \in SUBSET Open
        /\ \A t \in Task : /\ Succeeded(t)' = Succeeded(t)
                           /\ Failed(t)' = Failed(t) \cup {s \in dead : TaskOf[s] = t}
                           /\ Failed(t) \cap {s \in dead : TaskOf[s] = t} = {}
    <2>1. FailedOf(dead)  BY FailedSets, Zenon
    <2> QED  BY <2>1 DEF FailedOf
  <1>2. Counts'
    <2>1. Cardinality(Open \ dead) = Cardinality(Open) - Cardinality(dead)
      BY <1>1, SetTypes, CountSub
    <2>2. Cardinality(Open) \in Nat /\ Cardinality(dead) \in Nat /\ Cardinality(Owed) \in Nat
      BY SetTypes, SliceFinite
    <2>3. processed' = processed + Cardinality(dead)  BY DEF RedispatchOf
    <2>4. Owed' = Owed  BY DEF Owed
    <2> QED  BY <1>1, <2>1, <2>2, <2>3, <2>4 DEF Counts, SliceTypes
  <1>3. ASSUME NEW t \in Task
        PROVE  good'[t] = Cardinality(Succeeded(t)') /\ bad'[t] = Cardinality(Failed(t)')
    <2> DEFINE D == {s \in dead : TaskOf[s] = t}
    <2>1. D \in SUBSET Slice /\ Failed(t) \in SUBSET Slice /\ Failed(t) \cap D = {}
      BY <1>1, SetTypes
    <2>2. Cardinality(Failed(t) \cup D) = Cardinality(Failed(t)) + Cardinality(D)
      BY <2>1, CountAdd
    <2>3. bad'[t] = bad[t] + Cardinality(D)  BY DEF RedispatchOf, Per
    <2>4. Failed(t)' = Failed(t) \cup D  BY <1>1
    <2> HIDE DEF D
    <2> QED  BY <1>1, <2>2, <2>3, <2>4 DEF TaskCounts
  <1> QED  BY <1>2, <1>3 DEF TaskCounts

LEMMA PollSets ==
    ASSUME SliceTypes, PollOf
    PROVE  /\ Open' = Open \ (Done \cup Dead) /\ NotNew' = NotNew
           /\ Done \cup Dead \in SUBSET Open /\ Done \cap Dead = {}
           /\ Done \in SUBSET Slice /\ Dead \in SUBSET Slice
           /\ \A t \in Task : /\ Succeeded(t)' = Succeeded(t) \cup {s \in Done : TaskOf[s] = t}
                              /\ Succeeded(t) \cap {s \in Done : TaskOf[s] = t} = {}
                              /\ Failed(t)' = Failed(t) \cup {s \in Dead : TaskOf[s] = t}
                              /\ Failed(t) \cap {s \in Dead : TaskOf[s] = t} = {}
  <1>1. /\ \A s \in Done : s \in Slice /\ at[s] = "completed"
        /\ \A s \in Errs : s \in Slice /\ at[s] = "flushed"
        /\ Dead \subseteq Errs
        /\ \A s \in Slice : at[s] = "completed" => s \in Done
    BY DEF Done, Errs, Dead
  <1>2. \A s \in Slice : at'[s] = IF s \in Done THEN "success" ELSE IF s \in Dead THEN "failed"
                                  ELSE IF s \in Errs THEN "local" ELSE at[s]
    BY DEF PollOf
  <1>3. \A s \in Slice : at[s] \in Places  BY DEF SliceTypes
  <1>4. Open' = Open \ (Done \cup Dead)  BY <1>1, <1>2, <1>3 DEF Open, Places
  <1>5. NotNew' = NotNew  BY <1>1, <1>2 DEF NotNew
  <1>6. Done \cup Dead \in SUBSET Open /\ Done \cap Dead = {}  BY <1>1 DEF Open, Places
  <1>7. ASSUME NEW t \in Task
        PROVE  /\ Succeeded(t)' = Succeeded(t) \cup {s \in Done : TaskOf[s] = t}
               /\ Succeeded(t) \cap {s \in Done : TaskOf[s] = t} = {}
               /\ Failed(t)' = Failed(t) \cup {s \in Dead : TaskOf[s] = t}
               /\ Failed(t) \cap {s \in Dead : TaskOf[s] = t} = {}
    BY <1>1, <1>2 DEF Succeeded, Failed, SlicesOf
  <1> QED  BY <1>1, <1>4, <1>5, <1>6, <1>7

LEMMA PollCounts ==
    ASSUME SliceTypes, Counts, TaskCounts, PollOf, UNCHANGED <<owed, submitted>>, gain = 0
    PROVE  Counts' /\ TaskCounts'
  <1>1. Counts'
    <2>1. Cardinality(Open \ (Done \cup Dead)) = Cardinality(Open) - Cardinality(Done \cup Dead)
      BY PollSets, SetTypes, CountSub
    <2>2. Cardinality(Done \cup Dead) = Cardinality(Done) + Cardinality(Dead)
      BY PollSets, CountAdd
    <2>3. /\ Cardinality(Open) \in Nat /\ Cardinality(Done) \in Nat /\ Cardinality(Dead) \in Nat
          /\ Cardinality(Owed) \in Nat
      BY PollSets, SetTypes, SliceFinite
    <2>4. processed' = processed + Cardinality(Dead) /\ gain' = Cardinality(Done)  BY DEF PollOf
    <2>5. Owed' = Owed  BY DEF Owed
    <2>6. Open' = Open \ (Done \cup Dead) /\ NotNew' = NotNew  BY PollSets
    <2> QED  BY <2>1, <2>2, <2>3, <2>4, <2>5, <2>6 DEF Counts, SliceTypes
  <1>2. ASSUME NEW t \in Task
        PROVE  good'[t] = Cardinality(Succeeded(t)') /\ bad'[t] = Cardinality(Failed(t)')
    <2> DEFINE G == {s \in Done : TaskOf[s] = t}
               B == {s \in Dead : TaskOf[s] = t}
    <2>1. /\ G \in SUBSET Slice /\ Succeeded(t) \in SUBSET Slice /\ Succeeded(t) \cap G = {}
          /\ B \in SUBSET Slice /\ Failed(t) \in SUBSET Slice /\ Failed(t) \cap B = {}
      BY PollSets, SetTypes
    <2>2. /\ Cardinality(Succeeded(t) \cup G) = Cardinality(Succeeded(t)) + Cardinality(G)
          /\ Cardinality(Failed(t) \cup B) = Cardinality(Failed(t)) + Cardinality(B)
      BY <2>1, CountAdd
    <2>3. good'[t] = good[t] + Cardinality(G) /\ bad'[t] = bad[t] + Cardinality(B)
      BY DEF PollOf, Per
    <2>4. Succeeded(t)' = Succeeded(t) \cup G /\ Failed(t)' = Failed(t) \cup B  BY PollSets
    <2> HIDE DEF G, B
    <2> QED  BY <2>2, <2>3, <2>4 DEF TaskCounts
  <1> QED  BY <1>1, <1>2 DEF TaskCounts

LEMMA EnqueueCounts ==
    ASSUME SliceTypes, Submission, Counts, TaskCounts, NEW t \in Task, SubmitEnqueue(t),
           gain \in Nat, gain' = gain
    PROVE  Counts' /\ TaskCounts'
  <1>1. PICK lost \in SUBSET SlicesOf(t) :
           /\ at' = [s \in Slice |-> IF s \notin SlicesOf(t) THEN at[s]
                                     ELSE IF s \in lost THEN "failed" ELSE "queued"]
           /\ bad' = [u \in Task |-> bad[u] + Per(u, lost)]
           /\ owed' = [owed EXCEPT ![t] = SlicesOf(t) \ lost]
    BY DEF SubmitEnqueue, markFailed
  <1>2. good' = good /\ submitted' = submitted /\ processed' = processed
    BY DEF SubmitEnqueue, countVars
  <1>3. \A s \in SlicesOf(t) : s \in Slice /\ TaskOf[s] = t /\ at[s] = "new"
    BY DEF SubmitEnqueue, Submission, SlicesOf
  <1>4. owed[t] = {}  BY DEF SubmitEnqueue, Submission
  <1> DEFINE Q == SlicesOf(t) \ lost
  <1>5. Q \in SUBSET Slice /\ lost \in SUBSET Slice  BY <1>3
  <1>6. Counts'
    <2>1. Open' = Open \cup Q /\ Open \cap Q = {}
      BY <1>1, <1>3 DEF Open, Places, SliceTypes, SlicesOf
    <2>2. Owed' = Owed \cup Q /\ Owed \cap Q = {}
      BY <1>1, <1>3, <1>4 DEF Owed, SliceTypes, SlicesOf
    <2>3. NotNew' = NotNew \cup SlicesOf(t) /\ NotNew \cap SlicesOf(t) = {}
      BY <1>1, <1>3 DEF NotNew
    <2>4. /\ Cardinality(Open \cup Q) = Cardinality(Open) + Cardinality(Q)
          /\ Cardinality(Owed \cup Q) = Cardinality(Owed) + Cardinality(Q)
      BY <1>5, <2>1, <2>2, SetTypes, CountAdd
    <2>5. Cardinality(NotNew \cup SlicesOf(t)) = Cardinality(NotNew) + Cardinality(SlicesOf(t))
      BY <2>3, SetTypes, CountAdd
    <2>6. Cardinality(Q) <= Cardinality(SlicesOf(t))  BY SetTypes, CountLess
    <2>7. /\ Cardinality(Open) \in Nat /\ Cardinality(Owed) \in Nat /\ Cardinality(Q) \in Nat
          /\ Cardinality(NotNew) \in Nat /\ Cardinality(SlicesOf(t)) \in Nat
      BY <1>5, SetTypes, SliceFinite
    <2> HIDE DEF Q
    <2> QED  BY <1>2, <2>1, <2>2, <2>3, <2>4, <2>5, <2>6, <2>7 DEF Counts, SliceTypes
  <1>7. ASSUME NEW u \in Task
        PROVE  good'[u] = Cardinality(Succeeded(u)') /\ bad'[u] = Cardinality(Failed(u)')
    <2> DEFINE B == {s \in lost : TaskOf[s] = u}
    <2>1. Succeeded(u)' = Succeeded(u)  BY <1>1, <1>3 DEF Succeeded, SlicesOf
    <2>2. Failed(u)' = Failed(u) \cup B  BY <1>1, <1>3 DEF Failed, SlicesOf
    <2>3. /\ B \in SUBSET Slice /\ Failed(u) \in SUBSET Slice /\ Failed(u) \cap B = {}
      BY <1>3, SetTypes DEF Failed
    <2>4. Cardinality(Failed(u) \cup B) = Cardinality(Failed(u)) + Cardinality(B)
      BY <2>3, CountAdd
    <2>5. bad'[u] = bad[u] + Cardinality(B)  BY <1>1 DEF Per
    <2> HIDE DEF B
    <2> QED  BY <1>2, <2>1, <2>2, <2>4, <2>5 DEF TaskCounts
  <1> QED  BY <1>6, <1>7 DEF TaskCounts

LEMMA CountCounts ==
    ASSUME SliceTypes, Submission, Counts, TaskCounts, NEW t \in Task, SubmitCount(t),
           gain \in Nat, gain' = gain
    PROVE  Counts' /\ TaskCounts'
  <1>1. /\ submitted' = submitted + Cardinality(owed[t])
        /\ owed' = [owed EXCEPT ![t] = {}] /\ processed' = processed
        /\ at' = at /\ good' = good /\ bad' = bad
    BY DEF SubmitCount, sliceVars
  <1>2. owed[t] \subseteq SlicesOf(t)  BY DEF Submission
  <1>3. Owed' = Owed \ owed[t] /\ owed[t] \in SUBSET Owed
    BY <1>1, <1>2, TasksAssumption DEF Owed, SlicesOf, SliceTypes
  <1>4. Cardinality(Owed \ owed[t]) = Cardinality(Owed) - Cardinality(owed[t])
    BY <1>3, SetTypes, CountSub
  <1>5. Cardinality(Owed) \in Nat /\ Cardinality(owed[t]) \in Nat
    BY SetTypes, SliceFinite DEF SliceTypes
  <1>6. Open' = Open /\ NotNew' = NotNew  BY <1>1 DEF Open, NotNew
  <1>7. Counts'  BY <1>1, <1>3, <1>4, <1>5, <1>6 DEF Counts, SliceTypes
  <1>8. TaskCounts'  BY <1>1 DEF TaskCounts, Succeeded, Failed, SlicesOf
  <1> QED  BY <1>7, <1>8

LEMMA CountsStep ==
    ASSUME SliceTypes, WorkTypes, Submission, Hands, Polling, Counts, TaskCounts, [Next]_vars
    PROVE  Counts' /\ TaskCounts'
  <1>0. gain \in Nat  BY SliceFinite DEF WorkTypes
  <1>1. ASSUME SlicesStill, gain' = gain PROVE Counts' /\ TaskCounts'
    <2>1. Within  BY <1>1 DEF SlicesStill, Within, sliceVars
    <2>2. UNCHANGED <<owed, submitted, processed, gain, good, bad>>
      BY <1>1 DEF SlicesStill, taskVars, sliceVars, countVars
    <2> QED  BY <2>1, <2>2, WithinCounts
  <1>2. ASSUME UNCHANGED vars \/ DeviceFails \/ Activate PROVE Counts' /\ TaskCounts'
    <2>1. gain' = gain  BY <1>2 DEF vars, DeviceFails, Activate, workVars
    <2> QED  BY <1>1, <1>2, <2>1, StillSteps
  <1>3. ASSUME NEW w \in Worker,
               Connect(w) \/ ConnectFails(w) \/ Window(w) \/ WindowClosed(w) \/ Uncount(w)
        PROVE  Counts' /\ TaskCounts'
    <2>1. gain' = gain  BY <1>3 DEF Connect, ConnectFails, Window, WindowClosed, Uncount
    <2> QED  BY <1>1, <1>3, <2>1, StillSteps
  <1>4. ASSUME NEW w \in Worker, NEW p \in Peer,
               Lookup(w, p) \/ Insert(w, p) \/ NoEndpoint(w, p) \/ Inactive(w, p)
        PROVE  Counts' /\ TaskCounts'
    <2>1. gain' = gain  BY <1>4 DEF Lookup, Insert, NoEndpoint, Inactive
    <2> QED  BY <1>1, <1>4, <2>1, StillSteps
  <1>5. ASSUME NEW e \in EndPoint, PassiveConnects(e) \/ QpFatal(e) PROVE Counts' /\ TaskCounts'
    <2>1. gain' = gain  BY <1>5 DEF PassiveConnects, QpFatal, workVars
    <2> QED  BY <1>1, <1>5, <2>1, StillSteps
  <1>6. ASSUME NEW w \in Worker, Collect(w) PROVE Counts' /\ TaskCounts'
    <2>1. Within  BY <1>6 DEF Collect, Within, Shard, Open, Places
    <2>2. UNCHANGED <<owed, submitted, processed, gain, good, bad>>
      BY <1>6 DEF Collect, taskVars, countVars
    <2> QED  BY <2>1, <2>2, WithinCounts
  <1>7. ASSUME NEW w \in Worker, Send(w) PROVE Counts' /\ TaskCounts'
    <2>1. PICK S \in SUBSET Slice, P \in SUBSET Slice : SendOf(w, S, P)  BY <1>7, SendEffect
    <2>2. \A s \in S : at[s] = "local"  BY <2>1 DEF SendOf, LocalTo, Local
    <2>3. Within  BY <2>1, <2>2 DEF SendOf, Within, Open, Places
    <2>4. UNCHANGED <<owed, submitted, processed, gain, good, bad>>
      BY <1>7 DEF Send, taskVars, countVars
    <2> QED  BY <2>3, <2>4, WithinCounts
  <1>8. ASSUME NEW s \in Slice, Complete(s) \/ Flush(s) PROVE Counts' /\ TaskCounts'
    <2>1. Within  BY <1>8 DEF Complete, Flush, Within, Open, Places, SliceTypes
    <2>2. UNCHANGED <<owed, submitted, processed, gain, good, bad>>
      BY <1>8 DEF Complete, Flush, taskVars, countVars, workVars
    <2> QED  BY <2>1, <2>2, WithinCounts
  <1>9. ASSUME NEW e \in EndPoint, PassiveHandshake(e) \/ DisconnectNext(e)
        PROVE  Counts' /\ TaskCounts'
    <2>1. DisconnectOf(e)  BY <1>9, DisconnectEffect
    <2>2. Within  BY <2>1 DEF DisconnectOf, Wrs, Posted, Within, Open, Places
    <2>3. UNCHANGED <<owed, submitted, processed, gain, good, bad>>
      BY <1>9 DEF PassiveHandshake, DisconnectNext, taskVars, countVars, workVars
    <2> QED  BY <2>2, <2>3, WithinCounts
  <1>10. ASSUME NEW w \in Worker, CollectRedispatch(w) PROVE Counts' /\ TaskCounts'
    <2> DEFINE S == Local(w) \cup Shard(w)
    <2>1. S \in SUBSET Slice /\ \A s \in S : at[s] \in {"local", "queued"}  BY DEF Local, Shard
    <2>2. redispatch(w, S, retry)  BY <1>10 DEF CollectRedispatch
    <2>3. UNCHANGED <<owed, submitted, gain, good>>  BY <1>10 DEF CollectRedispatch, taskVars
    <2> HIDE DEF S
    <2>4. PICK dead \in SUBSET S : RedispatchOf(w, S, dead)  BY <2>1, <2>2, RedispatchEffect
    <2> QED  BY <1>0, <2>1, <2>3, <2>4, FailedCounts
  <1>11. ASSUME NEW w \in Worker, RoundEnd(w) PROVE Counts' /\ TaskCounts'
    <2>1. broken[w] \in SUBSET Slice /\ \A s \in broken[w] : at[s] \in {"local", "queued"}
      BY DEF WorkTypes, Hands, HandsOf, Local
    <2>2. redispatch(w, broken[w], Tried(w))  BY <1>11 DEF RoundEnd, Tried
    <2>3. PICK dead \in SUBSET broken[w] : RedispatchOf(w, broken[w], dead)
      BY <2>1, <2>2, RedispatchEffect
    <2>4. UNCHANGED <<owed, submitted, gain, good>>  BY <1>11 DEF RoundEnd, taskVars
    <2> QED  BY <1>0, <2>1, <2>3, <2>4, FailedCounts
  <1>12. ASSUME NEW w \in Worker, Poll(w) PROVE Counts' /\ TaskCounts'
    <2>1. PollOf  BY <1>12, PollEffect
    <2>2. UNCHANGED <<owed, submitted>>  BY <1>12 DEF Poll, taskVars
    <2>3. gain = 0
      <3>1. pc[w] = "poll"  BY <1>12 DEF Poll
      <3>2. pc[Poller] \notin {"uncount", "settle"}  BY <3>1 DEF Polling
      <3> QED  BY <3>2 DEF Polling
    <2> QED  BY <2>1, <2>2, <2>3, PollCounts
  <1>13. ASSUME NEW w \in Worker, Settle(w) PROVE Counts' /\ TaskCounts'
    <2>1. /\ processed' = processed + gain /\ gain' = 0 /\ submitted' = submitted
          /\ owed' = owed /\ at' = at /\ good' = good /\ bad' = bad
      BY <1>13 DEF Settle, taskVars, sliceVars
    <2>2. Open' = Open /\ Owed' = Owed /\ NotNew' = NotNew  BY <2>1 DEF Open, Owed, NotNew
    <2>3. Cardinality(Open) \in Nat /\ Cardinality(Owed) \in Nat  BY SetTypes, SliceFinite
    <2>4. Counts'  BY <1>0, <2>1, <2>2, <2>3 DEF Counts, SliceTypes
    <2>5. TaskCounts'  BY <2>1 DEF TaskCounts, Succeeded, Failed, SlicesOf
    <2> QED  BY <2>4, <2>5
  <1>14. ASSUME NEW t \in Task, SubmitEnqueue(t) \/ SubmitCount(t) PROVE Counts' /\ TaskCounts'
    <2>1. gain' = gain  BY <1>14 DEF SubmitEnqueue, SubmitCount, workVars
    <2> QED  BY <1>0, <1>14, <2>1, EnqueueCounts, CountCounts
  <1>15. ASSUME NEW t \in Task, getTransferStatus(t) PROVE Counts' /\ TaskCounts'
    <2>1. Within  BY <1>15 DEF getTransferStatus, sliceVars, Within
    <2>2. UNCHANGED <<owed, submitted, processed, gain, good, bad>>
      BY <1>15 DEF getTransferStatus, sliceVars, countVars, workVars
    <2> QED  BY <2>1, <2>2, WithinCounts
  <1>16. ASSUME NEW p \in Peer, PassiveInserts(p) PROVE Counts' /\ TaskCounts'
    <2>1. gain' = gain  BY <1>16 DEF PassiveInserts, workVars
    <2> QED  BY <1>1, <1>16, <2>1, StillSteps
  <1> QED  BY <1>2, <1>3, <1>4, <1>5, <1>6, <1>7, <1>8, <1>9, <1>10, <1>11, <1>12, <1>13, <1>14,
              <1>15, <1>16, NextSteps

(***************************************************************************)
(* wr_depth and cq_outstanding.                                            *)
(***************************************************************************)
\* A step that leaves the queue pairs alone.
QpStill == \A s \in Slice : (s \in Posted' <=> s \in Posted) /\ (s \in Posted => on'[s] = on[s])

LEMMA QpStillSets == ASSUME QpStill PROVE Posted' = Posted /\ \A e \in EndPoint : Wrs(e)' = Wrs(e)
  BY DEF QpStill, Posted, Wrs

LEMMA RedispatchQp ==
    ASSUME NEW w, NEW S \in SUBSET Slice, NEW dead \in SUBSET S, RedispatchOf(w, S, dead),
           \A s \in S : at[s] \in {"local", "queued"}, on' = on
    PROVE  QpStill
  BY DEF RedispatchOf, QpStill, Posted

LEMMA QpStillSteps ==
    ASSUME SliceTypes, WorkTypes, Hands, Submission
    PROVE  /\ SlicesStill => QpStill
           /\ \A w \in Worker : Collect(w) \/ CollectRedispatch(w) \/ RoundEnd(w) \/ Settle(w) => QpStill
           /\ \A t \in Task : SubmitEnqueue(t) \/ SubmitCount(t) \/ getTransferStatus(t) => QpStill
           /\ \A s \in Slice : Complete(s) \/ Flush(s) => QpStill
  <1>1. SlicesStill => QpStill  BY DEF SlicesStill, sliceVars, QpStill, Posted
  <1>2. ASSUME NEW w \in Worker, Collect(w) PROVE QpStill
    BY <1>2 DEF Collect, Shard, QpStill, Posted
  <1>3. ASSUME NEW w \in Worker, CollectRedispatch(w) PROVE QpStill
    <2> DEFINE S == Local(w) \cup Shard(w)
    <2>1. S \in SUBSET Slice /\ \A s \in S : at[s] \in {"local", "queued"}  BY DEF Local, Shard
    <2>2. redispatch(w, S, retry) /\ on' = on  BY <1>3 DEF CollectRedispatch
    <2> HIDE DEF S
    <2>3. PICK dead \in SUBSET S : RedispatchOf(w, S, dead)  BY <2>1, <2>2, RedispatchEffect
    <2> QED  BY <2>1, <2>2, <2>3, RedispatchQp
  <1>4. ASSUME NEW w \in Worker, RoundEnd(w) PROVE QpStill
    <2>1. broken[w] \in SUBSET Slice /\ \A s \in broken[w] : at[s] \in {"local", "queued"}
      BY DEF WorkTypes, Hands, HandsOf, Local
    <2>2. redispatch(w, broken[w], Tried(w)) /\ on' = on  BY <1>4 DEF RoundEnd, Tried
    <2>3. PICK dead \in SUBSET broken[w] : RedispatchOf(w, broken[w], dead)
      BY <2>1, <2>2, RedispatchEffect
    <2> QED  BY <2>1, <2>2, <2>3, RedispatchQp
  <1>5. ASSUME NEW w \in Worker, Settle(w) PROVE QpStill
    BY <1>5 DEF Settle, sliceVars, QpStill, Posted
  <1>6. ASSUME NEW t \in Task, SubmitEnqueue(t) PROVE QpStill
    <2>1. \A s \in SlicesOf(t) : s \in Slice /\ at[s] = "new"
      BY <1>6 DEF SubmitEnqueue, Submission, SlicesOf
    <2>2. PICK lost \in SUBSET SlicesOf(t) :
             at' = [s \in Slice |-> IF s \notin SlicesOf(t) THEN at[s]
                                    ELSE IF s \in lost THEN "failed" ELSE "queued"]
      BY <1>6 DEF SubmitEnqueue
    <2>3. on' = on  BY <1>6 DEF SubmitEnqueue
    <2> QED  BY <2>1, <2>2, <2>3 DEF QpStill, Posted
  <1>7. ASSUME NEW t \in Task, SubmitCount(t) \/ getTransferStatus(t) PROVE QpStill
    BY <1>7 DEF SubmitCount, getTransferStatus, sliceVars, QpStill, Posted
  <1>8. ASSUME NEW s \in Slice, Complete(s) \/ Flush(s) PROVE QpStill
    BY <1>8 DEF Complete, Flush, QpStill, Posted, SliceTypes
  <1> QED  BY <1>1, <1>2, <1>3, <1>4, <1>5, <1>6, <1>7, <1>8

LEMMA WrsTypes ==
    ASSUME NEW e
    PROVE  /\ Posted \in SUBSET Slice /\ Wrs(e) \in SUBSET Slice /\ Wrs(e) \in SUBSET Posted
           /\ Cardinality(Wrs(e)) \in Nat /\ Cardinality(Posted) \in Nat
  <1>1. Posted \in SUBSET Slice /\ Wrs(e) \in SUBSET Slice /\ Wrs(e) \in SUBSET Posted
    BY DEF Posted, Wrs
  <1> QED  BY <1>1, SliceFinite

\* An endpoint whose work requests and depth stay the same; it may be
\* destroyed when its depth is zero.
LEMMA DepthFrame ==
    ASSUME WorkTypes, NEW e \in EndPoint, DepthOf(e), Wrs(e)' = Wrs(e), polled'[e] = polled[e],
           ep'[e].depth = ep[e].depth, ep'[e].st = "free" => ep[e].st = "free" \/ ep[e].depth = 0
    PROVE  DepthOf(e)'
  <1>1. polled[e] \in Nat /\ Cardinality(Wrs(e)) \in Nat
    BY WrsTypes, SliceFinite DEF WorkTypes
  <1>2. ep[e].depth = 0 => Wrs(e) = {} /\ polled[e] = 0
    <2>1. ep[e].depth = 0 => Cardinality(Wrs(e)) = 0 /\ polled[e] = 0  BY <1>1 DEF DepthOf
    <2> QED  BY <2>1, WrsTypes, CountNone
  <1> QED  BY <1>2 DEF DepthOf

LEMMA SendSets ==
    ASSUME NEW w \in Worker, NEW S \in SUBSET Slice, NEW P \in SUBSET Slice, SendOf(w, S, P)
    PROVE  /\ Posted' = Posted \cup P /\ Posted \cap P = {}
           /\ \A e \in EndPoint : Wrs(e)' = IF e = held[w] THEN Wrs(e) \cup P ELSE Wrs(e)
  <1>1. \A s \in P : at[s] = "local" /\ s \in Slice  BY DEF SendOf, LocalTo, Local
  <1>2. /\ at' = [s \in Slice |-> IF s \in P THEN "posted" ELSE at[s]]
        /\ on' = [s \in Slice |-> IF s \in P THEN held[w] ELSE on[s]]
    BY DEF SendOf
  <1>3. Posted' = Posted \cup P /\ Posted \cap P = {}  BY <1>1, <1>2 DEF Posted
  <1>4. ASSUME NEW e \in EndPoint
        PROVE  Wrs(e)' = IF e = held[w] THEN Wrs(e) \cup P ELSE Wrs(e)
    BY <1>1, <1>2 DEF Posted, Wrs
  <1> QED  BY <1>3, <1>4

LEMMA PollQpSets ==
    ASSUME PollOf
    PROVE  /\ Posted' = Posted \ (Done \cup Errs) /\ Done \cup Errs \in SUBSET Posted
           /\ \A e \in EndPoint :
                 /\ Wrs(e)' = Wrs(e) \ {s \in Done \cup Errs : on[s] = e}
                 /\ {s \in Done \cup Errs : on[s] = e} \in SUBSET Wrs(e)
  <1>1. /\ \A s \in Done : s \in Slice /\ at[s] = "completed"
        /\ \A s \in Errs : s \in Slice /\ at[s] = "flushed"
        /\ Dead \subseteq Errs
        /\ \A s \in Slice : (at[s] = "completed" => s \in Done) /\ (at[s] = "flushed" => s \in Errs)
    BY DEF Done, Errs, Dead
  <1>2. \A s \in Slice :
           /\ at'[s] = IF s \in Done THEN "success" ELSE IF s \in Dead THEN "failed"
                       ELSE IF s \in Errs THEN "local" ELSE at[s]
           /\ s \notin Done \cup Errs => on'[s] = on[s]
    BY DEF PollOf
  <1>3. Posted' = Posted \ (Done \cup Errs) /\ Done \cup Errs \in SUBSET Posted
    BY <1>1, <1>2 DEF Posted
  <1>4. ASSUME NEW e \in EndPoint
        PROVE  /\ Wrs(e)' = Wrs(e) \ {s \in Done \cup Errs : on[s] = e}
               /\ {s \in Done \cup Errs : on[s] = e} \in SUBSET Wrs(e)
    <2>1. \A s \in Slice : s \in Posted' <=> s \in Posted \ (Done \cup Errs)  BY <1>3
    <2>2. Wrs(e)' = {s \in Posted' : on'[s] = e}  BY DEF Wrs
    <2>3. Posted \in SUBSET Slice  BY DEF Posted
    <2> QED  BY <1>2, <1>3, <2>1, <2>2, <2>3 DEF Wrs
  <1> QED  BY <1>3, <1>4

LEMMA DisconnectSets ==
    ASSUME NEW d \in EndPoint, DisconnectOf(d), on' = on
    PROVE  /\ Posted' = Posted \ Wrs(d)
           /\ \A e \in EndPoint : Wrs(e)' = IF e = d THEN {} ELSE Wrs(e)
  BY DEF DisconnectOf, Posted, Wrs

LEMMA DepthsFrame ==
    ASSUME SliceTypes, WorkTypes, Hands, Locks, Depths, SendersSame, torn \subseteq torn',
           \A e \in EndPoint \ torn' : DepthOf(e)',
           \A e \in EndPoint \ torn' : Locked(e) => ep'[e].depth <= ep[e].depth,
           ep' \in [EndPoint -> EndpointRecord]
    PROVE  Depths'
  <1>1. ASSUME NEW w \in Worker, pc'[w] = "send", held'[w] \notin torn'
        PROVE  ep'[held'[w]].depth + room'[w] <= MaxWr
    <2>1. pc[w] = "send" /\ held'[w] = held[w] /\ room'[w] = room[w]  BY <1>1 DEF SendersSame
    <2>2. held[w] \in EndPoint /\ Locked(held[w])  BY <2>1, HeldEndpoint DEF Busy, Locked
    <2>3. ep[held[w]].depth + room[w] <= MaxWr  BY <1>1, <2>1 DEF Depths
    <2>4. ep'[held[w]].depth <= ep[held[w]].depth  BY <1>1, <2>1, <2>2
    <2>5. /\ ep[held[w]].depth \in Int /\ ep'[held[w]].depth \in Int /\ room[w] \in Int
          /\ MaxWr \in Int
      BY <2>2, SliceFinite, LimitsAssumption DEF WorkTypes, EndpointRecord
    <2> QED  BY <2>1, <2>3, <2>4, <2>5
  <1> QED  BY <1>1 DEF Depths

LEMMA DepthsStep ==
    ASSUME SliceTypes, WorkTypes, WorkTypes', Submission, Hands, Polling, Locks, Depths, [Next]_vars
    PROVE  Depths'
  <1>0. /\ \A e \in EndPoint \ torn : DepthOf(e)
        /\ ep' \in [EndPoint -> EndpointRecord] /\ ep \in [EndPoint -> EndpointRecord]
    BY DEF Depths, WorkTypes
  <1>1. ASSUME SendersSame, QpStill, UNCHANGED <<polled, torn>>,
               \A e \in EndPoint : /\ ep'[e].depth = ep[e].depth
                                   /\ ep'[e].st = "free" => ep[e].st = "free"
        PROVE  Depths'
    <2>1. ASSUME NEW e \in EndPoint \ torn' PROVE DepthOf(e)'
      BY <1>0, <1>1, QpStillSets, DepthFrame
    <2>2. \A e \in EndPoint : ep[e].depth \in Int  BY DEF WorkTypes, EndpointRecord
    <2> QED  BY <1>0, <1>1, <2>1, <2>2, DepthsFrame
  <1>2. ASSUME NEW w \in Worker, Window(w) PROVE Depths'
    <2>1. QpStill  BY <1>2, QpStillSteps, StillSteps
    <2>2. /\ ep' = ep /\ held' = held /\ polled' = polled /\ torn' = torn
          /\ pc' = [pc EXCEPT ![w] = "send"] /\ room' = [room EXCEPT ![w] = WrCount(w)]
          /\ pc[w] = "window"
      BY <1>2 DEF Window, Goto, hcaVars
    <2>3. ASSUME NEW e \in EndPoint \ torn' PROVE DepthOf(e)'
      BY <1>0, <2>1, <2>2, QpStillSets, DepthFrame
    <2>4. ASSUME NEW v \in Worker, pc'[v] = "send", held'[v] \notin torn'
          PROVE  ep'[held'[v]].depth + room'[v] <= MaxWr
      <3>1. CASE v # w
        BY <2>2, <2>4, <3>1 DEF Depths, WorkTypes
      <3>2. CASE v = w
        <4>1. held[w] \in EndPoint  BY <2>2, HeldEndpoint DEF Busy
        <4>2. WrCount(w) \in Int /\ WrCount(w) <= MaxWr - ep[held[w]].depth
          BY <4>1, WrCountBounds
        <4>3. ep[held[w]].depth \in Int /\ MaxWr \in Int /\ room'[w] = WrCount(w)
          BY <2>2, <4>1, LimitsAssumption DEF WorkTypes, EndpointRecord
        <4> QED  BY <2>2, <3>2, <4>2, <4>3
      <3> QED  BY <3>1, <3>2
    <2> QED  BY <2>3, <2>4 DEF Depths
  <1>3. ASSUME ~\E w \in Worker : Window(w) PROVE SendersSame  BY <1>3, SendersStep
  <1>4. ASSUME NEW w \in Worker, Send(w), SendersSame PROVE Depths'
    <2>1. PICK S \in SUBSET Slice, P \in SUBSET Slice : SendOf(w, S, P)  BY <1>4, SendEffect
    <2>2. /\ polled' = polled /\ torn' = torn /\ pc[w] = "send" /\ pc' = [pc EXCEPT ![w] = "post"]
      BY <1>4 DEF Send, Goto
    <2>3. held[w] \in EndPoint  BY <2>2, HeldEndpoint DEF Busy
    <2>4. /\ ep' = [ep EXCEPT ![held[w]].depth = @ + Cardinality(P)]
          /\ Cardinality(P) \in Nat /\ Cardinality(P) <= room[w]
      BY <2>1, SendCount DEF SendOf
    <2>5. \A e \in EndPoint : /\ ep'[e].st = ep[e].st
                              /\ e # held[w] => ep'[e].depth = ep[e].depth
      BY <2>3, <2>4 DEF WorkTypes, EndpointRecord
    <2>6. ep'[held[w]].depth = ep[held[w]].depth + Cardinality(P)
      BY <2>3, <2>4 DEF WorkTypes, EndpointRecord
    <2>7. ASSUME NEW e \in EndPoint \ torn', e # held[w] PROVE DepthOf(e)'
      <3>1. Wrs(e)' = Wrs(e)  BY <2>1, <2>7, SendSets
      <3> QED  BY <1>0, <2>2, <2>5, <2>7, <3>1, DepthFrame
    <2>8. ASSUME NEW e \in EndPoint \ torn', e = held[w] PROVE DepthOf(e)'
      <3>1. Wrs(e)' = Wrs(e) \cup P /\ Posted \cap P = {}  BY <2>1, <2>8, SendSets
      <3>2. Wrs(e) \in SUBSET Slice /\ Wrs(e) \cap P = {}  BY <3>1, WrsTypes
      <3>3. Cardinality(Wrs(e)') = Cardinality(Wrs(e)) + Cardinality(P)
        BY <2>4, <3>1, <3>2, CountAdd
      <3>4. ep[e].depth = Cardinality(Wrs(e)) + polled[e]  BY <1>0, <2>2, <2>8 DEF DepthOf
      <3>5. ep[e].depth + room[w] <= MaxWr  BY <2>2, <2>8 DEF Depths
      <3>6. ep'[e].st # "free"  BY <2>2, <2>5, <2>8 DEF Locks
      <3>7. Cardinality(Wrs(e)) \in Nat /\ polled[e] \in Nat /\ room[w] \in Nat
        BY <2>8, WrsTypes, SliceFinite DEF WorkTypes
      <3>8. ep'[e].depth = Cardinality(Wrs(e)') + polled'[e]
        BY <2>2, <2>4, <2>6, <2>8, <3>3, <3>4, <3>7
      <3>9. ep'[e].depth <= MaxWr  BY <2>4, <2>6, <2>8, <3>4, <3>5, <3>7, LimitsAssumption
      <3> QED  BY <3>6, <3>8, <3>9 DEF DepthOf
    <2>9. ASSUME NEW v \in Worker, pc'[v] = "send", held'[v] \notin torn'
          PROVE  ep'[held'[v]].depth + room'[v] <= MaxWr
      <3>1. pc[v] = "send" /\ held'[v] = held[v] /\ room'[v] = room[v] /\ v # w
        BY <1>4, <2>2, <2>9 DEF SendersSame, WorkTypes
      <3>2. held[v] # held[w]  BY <2>2, <3>1 DEF Locks
      <3>3. held[v] \in EndPoint  BY <3>1, HeldEndpoint DEF Busy
      <3> QED  BY <2>2, <2>5, <2>9, <3>1, <3>2, <3>3 DEF Depths
    <2>10. \A e \in EndPoint \ torn' : DepthOf(e)'
      <3>1. ASSUME NEW e \in EndPoint \ torn' PROVE DepthOf(e)'
        <4>1. CASE e # held[w]  BY <2>7, <4>1
        <4>2. CASE e = held[w]  BY <2>8, <4>2
        <4> QED  BY <4>1, <4>2
      <3> QED  BY <3>1
    <2> QED  BY <2>9, <2>10 DEF Depths
  <1>5. ASSUME NEW w \in Worker, Poll(w), SendersSame PROVE Depths'
    <2>1. PollOf  BY <1>5, PollEffect
    <2>2. \A e \in EndPoint : polled[e] = 0
      <3>1. pc[w] = "poll"  BY <1>5 DEF Poll
      <3> QED  BY <3>1 DEF Polling
    <2>3. torn' = torn  BY <1>5 DEF Poll
    <2>4. ASSUME NEW e \in EndPoint \ torn' PROVE DepthOf(e)'
      <3> DEFINE P == {s \in Done \cup Errs : on[s] = e}
      <3>1. Wrs(e)' = Wrs(e) \ P /\ P \in SUBSET Wrs(e)  BY <2>1, PollQpSets
      <3>2. polled'[e] = Cardinality(P)  BY <2>1 DEF PollOf
      <3>3. ep'[e].depth = ep[e].depth /\ (ep'[e].st = "free" <=> ep[e].st = "free")
        BY <2>1 DEF PollOf
      <3> HIDE DEF P
      <3>4. P \in SUBSET Slice  BY <3>1, WrsTypes
      <3>5. Cardinality(Wrs(e) \ P) = Cardinality(Wrs(e)) - Cardinality(P)
        BY <3>1, WrsTypes, CountSub
      <3>6. Cardinality(Wrs(e)) \in Nat /\ Cardinality(P) \in Nat  BY <3>4, WrsTypes, SliceFinite
      <3>7. DepthOf(e) /\ polled[e] = 0  BY <1>0, <2>2, <2>3
      <3>8. Wrs(e) = {} => P = {} /\ Cardinality(P) = 0  BY <3>1, FS_EmptySet
      <3> QED  BY <3>1, <3>2, <3>3, <3>5, <3>6, <3>7, <3>8 DEF DepthOf
    <2>5. \A e \in EndPoint : ep'[e].depth <= ep[e].depth
      BY <2>1 DEF PollOf, WorkTypes, EndpointRecord
    <2> QED  BY <1>0, <1>5, <2>3, <2>4, <2>5, DepthsFrame
  <1>6. ASSUME NEW w \in Worker, Settle(w), SendersSame PROVE Depths'
    <2>1. QpStill  BY <1>6, QpStillSteps
    <2>2. /\ torn' = torn /\ polled' = [e \in EndPoint |-> 0]
          /\ ep' = [e \in EndPoint |-> [ep[e] EXCEPT !.depth = @ - polled[e]]]
      BY <1>6 DEF Settle
    <2>3. ASSUME NEW e \in EndPoint
          PROVE  /\ ep'[e].depth = ep[e].depth - polled[e] /\ ep'[e].st = ep[e].st
                 /\ polled[e] \in Nat /\ ep[e].depth \in Int
      <3>1. polled[e] \in Nat  BY SliceFinite DEF WorkTypes
      <3> QED  BY <2>2, <3>1 DEF WorkTypes, EndpointRecord
    <2>4. ASSUME NEW e \in EndPoint \ torn' PROVE DepthOf(e)'
      <3>1. DepthOf(e) /\ Wrs(e)' = Wrs(e)  BY <1>0, <2>1, <2>2, QpStillSets
      <3>2. Cardinality(Wrs(e)) \in Nat  BY WrsTypes
      <3> QED  BY <2>2, <2>3, <3>1, <3>2, LimitsAssumption DEF DepthOf
    <2>5. \A e \in EndPoint : ep'[e].depth <= ep[e].depth  BY <2>3
    <2> QED  BY <1>0, <1>6, <2>2, <2>4, <2>5, DepthsFrame
  <1>7. ASSUME NEW p \in Peer, PassiveInserts(p) \/ \E w \in Worker : Insert(w, p), SendersSame
        PROVE  Depths'
    <2>1. QpStill  BY <1>7, QpStillSteps, StillSteps
    <2>2. polled' = polled /\ torn' = torn  BY <1>7 DEF Insert, PassiveInserts, workVars
    <2>3. PICK n \in EndPoint : InsertOf(p, n)  BY <1>7, InsertSteps
    <2>4. ASSUME NEW e \in EndPoint \ torn' PROVE DepthOf(e)'
      <3>1. DepthOf(e) /\ Wrs(e)' = Wrs(e)  BY <1>0, <2>1, <2>2, QpStillSets
      <3>2. CASE e = n
        <4>1. Wrs(e)' = {} /\ polled'[e] = 0 /\ ep'[e].depth = 0 /\ ep'[e].st = "mapped"
          BY <2>2, <2>3, <3>1, <3>2 DEF DepthOf, InsertOf
        <4>2. Cardinality(Wrs(e)') = 0  BY <4>1, FS_EmptySet
        <4> QED  BY <4>1, <4>2, LimitsAssumption DEF DepthOf
      <3>3. CASE e # n
        <4>1. ep'[e].depth = ep[e].depth /\ (ep'[e].st = "free" => ep[e].st = "free" \/ ep[e].depth = 0)
          BY <2>3, <3>3 DEF InsertOf
        <4> QED  BY <2>2, <3>1, <4>1, DepthFrame
      <3> QED  BY <3>2, <3>3
    <2>5. ASSUME NEW e \in EndPoint, Locked(e) PROVE ep'[e].depth <= ep[e].depth
      <3>1. e # n  BY <2>3, <2>5 DEF InsertOf, Locked
      <3> QED  BY <2>3, <3>1 DEF InsertOf, WorkTypes, EndpointRecord
    <2> QED  BY <1>0, <1>7, <2>2, <2>4, <2>5, DepthsFrame
  <1>8. ASSUME NEW d \in EndPoint, PassiveHandshake(d) \/ DisconnectNext(d), SendersSame
        PROVE  Depths'
    <2>1. DisconnectOf(d)  BY <1>8, DisconnectEffect
    <2>2. on' = on /\ polled' = polled
      BY <1>8 DEF PassiveHandshake, DisconnectNext, workVars
    <2>3. torn \subseteq torn' /\ (polled[d] # 0 => d \in torn')  BY <2>1 DEF DisconnectOf
    <2>4. ASSUME NEW e \in EndPoint \ torn' PROVE DepthOf(e)'
      <3>1. DepthOf(e)  BY <1>0, <2>3
      <3>2. CASE e = d
        <4>1. Wrs(e)' = {} /\ polled'[e] = 0 /\ ep'[e].depth = 0
          BY <2>1, <2>2, <2>3, <3>2, DisconnectSets DEF DisconnectOf
        <4>2. Cardinality(Wrs(e)') = 0  BY <4>1, FS_EmptySet
        <4> QED  BY <4>1, <4>2, LimitsAssumption DEF DepthOf
      <3>3. CASE e # d
        <4>1. Wrs(e)' = Wrs(e)  BY <2>1, <2>2, <3>3, DisconnectSets
        <4>2. ep'[e].depth = ep[e].depth /\ ep'[e].st = ep[e].st  BY <2>1, <3>3 DEF DisconnectOf
        <4> QED  BY <2>2, <3>1, <4>1, <4>2, DepthFrame
      <3> QED  BY <3>2, <3>3
    <2>5. ASSUME NEW e \in EndPoint, Locked(e) PROVE ep'[e].depth <= ep[e].depth
      <3>1. e # d  BY <2>1, <2>5 DEF DisconnectOf
      <3> QED  BY <2>1, <3>1 DEF DisconnectOf, WorkTypes, EndpointRecord
    <2> QED  BY <1>0, <1>8, <2>3, <2>4, <2>5, DepthsFrame
  <1>9. ASSUME NEW w \in Worker, NEW p \in Peer,
               Lookup(w, p) \/ NoEndpoint(w, p) \/ Inactive(w, p), SendersSame
        PROVE  Depths'
    <2>1. QpStill  BY <1>9, QpStillSteps, StillSteps
    <2>2. UNCHANGED <<polled, torn>>  BY <1>9 DEF Lookup, NoEndpoint, Inactive
    <2>3. \A e \in EndPoint : /\ ep'[e].depth = ep[e].depth
                              /\ ep'[e].st = "free" => ep[e].st = "free"
      BY <1>9 DEF Lookup, NoEndpoint, Inactive, hcaVars, WorkTypes, EndpointRecord
    <2> QED  BY <1>1, <1>9, <2>1, <2>2, <2>3
  <1>10. ASSUME NEW w \in Worker,
                \/ Collect(w) \/ CollectRedispatch(w) \/ RoundEnd(w) \/ WindowClosed(w)
                \/ Connect(w) \/ ConnectFails(w) \/ Uncount(w),
                SendersSame
         PROVE  Depths'
    <2>1. QpStill  BY <1>10, QpStillSteps, StillSteps
    <2>2. UNCHANGED <<polled, torn>>
      BY <1>10 DEF Collect, CollectRedispatch, RoundEnd, WindowClosed, Connect, ConnectFails,
                   Uncount
    <2>3. \/ ep' = ep \/ ep' = [ep EXCEPT ![held[w]].conn = TRUE]
          \/ ep' = [ep EXCEPT ![held[w]].active = FALSE]
      BY <1>10 DEF Collect, CollectRedispatch, RoundEnd, WindowClosed, Connect, ConnectFails,
                   Uncount, hcaVars
    <2>4. \A e \in EndPoint : ep'[e].depth = ep[e].depth /\ ep'[e].st = ep[e].st
      BY <2>3 DEF WorkTypes, EndpointRecord
    <2> QED  BY <1>1, <1>10, <2>1, <2>2, <2>4
  <1>11. ASSUME NEW t \in Task, SubmitEnqueue(t) \/ SubmitCount(t) \/ getTransferStatus(t),
                SendersSame
         PROVE  Depths'
    <2>1. QpStill  BY <1>11, QpStillSteps
    <2>2. UNCHANGED <<polled, torn, ep>>
      BY <1>11 DEF SubmitEnqueue, SubmitCount, getTransferStatus, workVars, hcaVars
    <2> QED  BY <1>1, <1>11, <2>1, <2>2
  <1>12. ASSUME NEW s \in Slice, Complete(s) \/ Flush(s), SendersSame PROVE Depths'
    <2>1. QpStill  BY <1>12, QpStillSteps
    <2>2. UNCHANGED <<polled, torn, ep>>  BY <1>12 DEF Complete, Flush, workVars, hcaVars
    <2> QED  BY <1>1, <1>12, <2>1, <2>2
  <1>13. ASSUME NEW d \in EndPoint, PassiveConnects(d) \/ QpFatal(d), SendersSame PROVE Depths'
    <2>1. QpStill  BY <1>13, QpStillSteps, StillSteps
    <2>2. UNCHANGED <<polled, torn>>  BY <1>13 DEF PassiveConnects, QpFatal, workVars
    <2>3. ep' = [ep EXCEPT ![d].conn = TRUE] \/ ep' = [ep EXCEPT ![d].active = FALSE]
      BY <1>13 DEF PassiveConnects, QpFatal
    <2>4. \A e \in EndPoint : ep'[e].depth = ep[e].depth /\ ep'[e].st = ep[e].st
      BY <2>3 DEF WorkTypes, EndpointRecord
    <2> QED  BY <1>1, <1>13, <2>1, <2>2, <2>4
  <1>14. ASSUME UNCHANGED vars \/ DeviceFails \/ Activate, SendersSame PROVE Depths'
    <2>1. QpStill  BY <1>14, QpStillSteps, StillSteps
    <2>2. UNCHANGED <<polled, torn, ep>>
      BY <1>14 DEF vars, DeviceFails, Activate, workVars, hcaVars
    <2> QED  BY <1>1, <1>14, <2>1, <2>2
  <1> QED  BY <1>2, <1>3, <1>4, <1>5, <1>6, <1>7, <1>8, <1>9, <1>10, <1>11, <1>12, <1>13, <1>14,
              NextSteps

(***************************************************************************)
(* cq_outstanding, and what may still be added to it.                      *)
(***************************************************************************)
LEMMA QueueStep ==
    ASSUME SliceTypes, WorkTypes, Submission, Hands, [Next]_vars
    PROVE  \/ QpStill /\ cqOut' = cqOut /\ torn' = torn /\ nrPoll' = nrPoll
           \/ \E w \in Worker : Send(w) \/ Poll(w) \/ Uncount(w)
           \/ \E d \in EndPoint : PassiveHandshake(d) \/ DisconnectNext(d)
  <1> DEFINE Still == QpStill /\ cqOut' = cqOut /\ torn' = torn /\ nrPoll' = nrPoll
  <1>1. ASSUME NEW w \in Worker, NEW p \in Peer,
               Lookup(w, p) \/ Insert(w, p) \/ NoEndpoint(w, p) \/ Inactive(w, p)
        PROVE  Still
    <2>1. QpStill  BY <1>1, QpStillSteps, StillSteps
    <2> QED  BY <1>1, <2>1 DEF Lookup, Insert, NoEndpoint, Inactive, hcaVars
  <1>2. ASSUME NEW w \in Worker,
               \/ Collect(w) \/ CollectRedispatch(w) \/ RoundEnd(w) \/ Settle(w)
               \/ Connect(w) \/ ConnectFails(w) \/ Window(w) \/ WindowClosed(w)
        PROVE  Still
    <2>1. QpStill  BY <1>2, QpStillSteps, StillSteps
    <2> QED  BY <1>2, <2>1 DEF Collect, CollectRedispatch, RoundEnd, Settle, Connect,
                               ConnectFails, Window, WindowClosed, hcaVars
  <1>3. ASSUME NEW t \in Task, SubmitEnqueue(t) \/ SubmitCount(t) \/ getTransferStatus(t)
        PROVE  Still
    <2>1. QpStill  BY <1>3, QpStillSteps
    <2> QED  BY <1>3, <2>1 DEF SubmitEnqueue, SubmitCount, getTransferStatus, hcaVars, workVars
  <1>4. ASSUME NEW s \in Slice, Complete(s) \/ Flush(s) PROVE Still
    <2>1. QpStill  BY <1>4, QpStillSteps
    <2> QED  BY <1>4, <2>1 DEF Complete, Flush, hcaVars, workVars
  <1>5. ASSUME NEW e \in EndPoint, PassiveConnects(e) \/ QpFatal(e) PROVE Still
    <2>1. QpStill  BY <1>5, QpStillSteps, StillSteps
    <2> QED  BY <1>5, <2>1 DEF PassiveConnects, QpFatal, workVars
  <1>6. ASSUME UNCHANGED vars \/ DeviceFails \/ Activate PROVE Still
    <2>1. QpStill  BY <1>6, QpStillSteps, StillSteps
    <2> QED  BY <1>6, <2>1 DEF vars, DeviceFails, Activate, hcaVars, workVars
  <1>7. ASSUME NEW p \in Peer, PassiveInserts(p) PROVE Still
    <2>1. QpStill  BY <1>7, QpStillSteps, StillSteps
    <2> QED  BY <1>7, <2>1 DEF PassiveInserts, workVars
  <1> HIDE DEF Still
  <1>8. \/ Still
        \/ \E w \in Worker : Send(w) \/ Poll(w) \/ Uncount(w)
        \/ \E d \in EndPoint : PassiveHandshake(d) \/ DisconnectNext(d)
    BY <1>1, <1>2, <1>3, <1>4, <1>5, <1>6, <1>7, NextSteps
  <1> QED  BY <1>8 DEF Still

\* The rows of a table of workers and numbers.
LEMMA RowCount ==
    ASSUME NEW w, NEW n \in Nat
    PROVE  /\ IsFiniteSet({w} \X (1..n)) /\ Cardinality({w} \X (1..n)) = n
  <1>1. IsFiniteSet({w}) /\ Cardinality({w}) = 1  BY FS_Singleton
  <1>2. IsFiniteSet(1..n) /\ Cardinality(1..n) = n  BY FS_Interval
  <1>3. /\ IsFiniteSet({w} \X (1..n))
        /\ Cardinality({w} \X (1..n)) = Cardinality({w}) * Cardinality(1..n)
    BY <1>1, <1>2, FS_Product
  <1>4. 1 * n = n  OBVIOUS
  <1> QED  BY <1>1, <1>2, <1>3, <1>4

LEMMA OthersCount ==
    ASSUME NEW w \in Worker
    PROVE  LET B == (Worker \ {w}) \X (1..MaxWr)
           IN  IsFiniteSet(B) /\ Cardinality(B) = (Cardinality(Worker) - 1) * MaxWr
  <1>1. IsFiniteSet(Worker)  BY WorkersAssumption
  <1>2. IsFiniteSet(Worker \ {w}) /\ Cardinality(Worker \ {w}) = Cardinality(Worker) - 1
    BY <1>1, FS_RemoveElement
  <1>3. MaxWr \in Nat  BY LimitsAssumption
  <1>4. IsFiniteSet(1..MaxWr) /\ Cardinality(1..MaxWr) = MaxWr  BY <1>3, FS_Interval
  <1> DEFINE V == Worker \ {w}
             I == 1..MaxWr
  <1>5. IsFiniteSet(V) /\ IsFiniteSet(I)  BY <1>2, <1>4
  <1> HIDE DEF V, I
  <1>6. IsFiniteSet(V \X I) /\ Cardinality(V \X I) = Cardinality(V) * Cardinality(I)
    BY <1>5, FS_Product
  <1> QED  BY <1>2, <1>4, <1>6 DEF V, I

LEMMA ClaimsFinite == IsFiniteSet(Claims) /\ Cardinality(Claims) \in Nat
  <1>1. IsFiniteSet(Worker) /\ IsFiniteSet(1..MaxWr)
    BY WorkersAssumption, LimitsAssumption, FS_Interval
  <1>2. IsFiniteSet(Worker \X (1..MaxWr))  BY <1>1, FS_Product
  <1>3. Claims \subseteq Worker \X (1..MaxWr)  BY DEF Claims
  <1>4. IsFiniteSet(Claims)  BY <1>2, <1>3, FS_Subset
  <1> QED  BY <1>4, FS_CardinalityType

LEMMA ClaimsSame ==
    ASSUME SendersSame PROVE Cardinality(Claims') <= Cardinality(Claims)
  <1>1. Claims' \subseteq Claims  BY DEF Claims, SendersSame
  <1> QED  BY <1>1, ClaimsFinite, FS_Subset

LEMMA ClaimsSend ==
    ASSUME WorkTypes, NEW w \in Worker, Send(w), SendersSame, room[w] <= MaxWr
    PROVE  Cardinality(Claims') + room[w] <= Cardinality(Claims)
  <1> DEFINE R == {w} \X (1..room[w])
  <1>1. room[w] \in Nat /\ MaxWr \in Nat  BY SliceFinite, LimitsAssumption DEF WorkTypes
  <1>2. IsFiniteSet(R) /\ Cardinality(R) = room[w]  BY <1>1, RowCount
  <1>3. pc[w] = "send" /\ pc' = [pc EXCEPT ![w] = "post"]  BY DEF Send, Goto
  <1>4. pc'[w] # "send"  BY <1>3 DEF WorkTypes
  <1>5. R \subseteq Claims  BY <1>1, <1>3 DEF Claims
  <1>6. Claims' \subseteq Claims \ R  BY <1>4 DEF Claims, SendersSame
  <1> HIDE DEF R
  <1>7. Claims \cap R = R  BY <1>5
  <1>8. IsFiniteSet(Claims \ R) /\ Cardinality(Claims \ R) = Cardinality(Claims) - room[w]
    <2>1. /\ IsFiniteSet(Claims \ R)
          /\ Cardinality(Claims \ R) = Cardinality(Claims) - Cardinality(Claims \cap R)
      BY ClaimsFinite, FS_Difference
    <2> QED  BY <1>2, <1>7, <2>1
  <1>9. IsFiniteSet(Claims') /\ Cardinality(Claims') <= Cardinality(Claims \ R)
    BY <1>6, <1>8, FS_Subset
  <1>10. Cardinality(Claims') \in Nat  BY <1>9, FS_CardinalityType
  <1> QED  BY <1>1, <1>8, <1>9, <1>10, ClaimsFinite

LEMMA ClaimsWindow ==
    ASSUME WorkTypes, WorkTypes', NEW w \in Worker, Window(w), held[w] \in EndPoint
    PROVE  Cardinality(Claims') <= WrCount(w) + (Cardinality(Worker) - 1) * MaxWr
  <1> DEFINE n == WrCount(w)
             R == {w} \X (1..n)
             B == (Worker \ {w}) \X (1..MaxWr)
             K == (Cardinality(Worker) - 1) * MaxWr
  <1>1. n \in Nat  BY WrCountBounds DEF Window
  <1>2. room'[w] = n  BY DEF Window, WorkTypes
  <1>3. Claims' \subseteq R \cup B
    <2> SUFFICES ASSUME NEW x \in Claims' PROVE x \in R \cup B  OBVIOUS
    <2>1. PICK v \in Worker, i \in 1..MaxWr : x = <<v, i>> /\ i <= room'[v]  BY DEF Claims
    <2>2. CASE v # w  BY <2>1, <2>2
    <2>3. CASE v = w  BY <1>1, <1>2, <2>1, <2>3
    <2> QED  BY <2>2, <2>3
  <1>4. IsFiniteSet(R) /\ Cardinality(R) = n  BY <1>1, RowCount
  <1>5. IsFiniteSet(B) /\ Cardinality(B) = K  BY OthersCount
  <1> HIDE DEF n, R, B, K
  <1>6. /\ IsFiniteSet(R \cup B)
        /\ Cardinality(R \cup B) = Cardinality(R) + Cardinality(B) - Cardinality(R \cap B)
    BY <1>4, <1>5, FS_Union
  <1>7. Cardinality(R \cap B) \in Nat /\ Cardinality(R \cup B) \in Nat /\ K \in Nat
    <2>1. IsFiniteSet(R \cap B)  BY <1>4, FS_Intersection
    <2> QED  BY <1>5, <1>6, <2>1, FS_CardinalityType
  <1>8. IsFiniteSet(Claims') /\ Cardinality(Claims') <= Cardinality(R \cup B)
    BY <1>3, <1>6, FS_Subset
  <1>9. Cardinality(Claims') \in Nat  BY <1>8, FS_CardinalityType
  <1>10. Cardinality(Claims') <= n + K  BY <1>1, <1>4, <1>5, <1>6, <1>7, <1>8, <1>9
  <1> QED  BY <1>10 DEF n, K

LEMMA OutstandingStep ==
    ASSUME SliceTypes, WorkTypes, WorkTypes', Submission, Hands, Polling, Depths,
           Outstanding, [Next]_vars
    PROVE  Outstanding'
  <1> DEFINE Bound == MaxCqe + (Cardinality(Worker) - 1) * MaxWr
  <1>1. SUFFICES ASSUME torn' = {}
                 PROVE  /\ cqOut' = Cardinality(Posted') + nrPoll'
                        /\ cqOut' + Cardinality(Claims') <= Bound
    BY DEF Outstanding
  <1>2. torn = {}
    <2>1. ASSUME NEW d \in EndPoint, PassiveHandshake(d) \/ DisconnectNext(d) PROVE torn \subseteq torn'
      BY <2>1, DisconnectEffect DEF DisconnectOf
    <2>2. ASSUME NEW w \in Worker, Send(w) \/ Poll(w) \/ Uncount(w) PROVE torn' = torn
      BY <2>2 DEF Send, Poll, Uncount
    <2> QED  BY <1>1, <2>1, <2>2, QueueStep
  <1>3. cqOut = Cardinality(Posted) + nrPoll /\ cqOut + Cardinality(Claims) <= Bound
    BY <1>2 DEF Outstanding
  <1>4. /\ Cardinality(Posted) \in Nat /\ Cardinality(Claims) \in Nat /\ Cardinality(Claims') \in Nat
        /\ Posted \in SUBSET Slice /\ Bound \in Int /\ MaxCqe \in Int /\ nrPoll \in Nat
    <2>1. Posted \in SUBSET Slice  BY DEF Posted
    <2>2. (Cardinality(Claims) \in Nat)'  BY ClaimsFinite, PTL
    <2>3. Cardinality(Worker) \in Int /\ MaxWr \in Int /\ MaxCqe \in Int
      BY WorkersAssumption, LimitsAssumption, FS_CardinalityType
    <2>4. (Cardinality(Worker) - 1) * MaxWr \in Int  BY <2>3
    <2>5. Bound \in Int  BY <2>3, <2>4
    <2> HIDE DEF Bound
    <2>6. Cardinality(Posted) \in Nat  BY <2>1, SliceFinite
    <2>7. nrPoll \in Nat  BY SliceFinite DEF WorkTypes
    <2> QED  BY <2>1, <2>2, <2>3, <2>5, <2>6, <2>7, ClaimsFinite
  <1>5. ASSUME NEW w \in Worker, Window(w)
        PROVE  cqOut' = Cardinality(Posted') + nrPoll' /\ cqOut' + Cardinality(Claims') <= Bound
    <2>1. pc[w] = "window" /\ cqOut' = cqOut /\ nrPoll' = nrPoll  BY <1>5 DEF Window, hcaVars
    <2>2. QpStill  BY <1>5, QpStillSteps, StillSteps
    <2>3. held[w] \in EndPoint  BY <2>1, HeldEndpoint DEF Busy
    <2> DEFINE K == (Cardinality(Worker) - 1) * MaxWr
    <2>4. Cardinality(Claims') <= WrCount(w) + K  BY <1>5, <2>3, ClaimsWindow
    <2>5. WrCount(w) \in Int /\ WrCount(w) <= MaxCqe - cqOut  BY <2>3, WrCountBounds
    <2>6. K \in Int /\ Bound = MaxCqe + K
      BY WorkersAssumption, LimitsAssumption, FS_CardinalityType
    <2> HIDE DEF K, Bound
    <2>7. cqOut \in Nat  BY <1>3, <1>4
    <2>8. cqOut' + Cardinality(Claims') <= Bound  BY <1>4, <2>1, <2>4, <2>5, <2>6, <2>7
    <2>9. cqOut' = Cardinality(Posted') + nrPoll'  BY <1>3, <2>1, <2>2, QpStillSets
    <2> QED  BY <2>8, <2>9
  <1> HIDE DEF Bound
  <1>6. ASSUME SendersSame, QpStill, cqOut' = cqOut, nrPoll' = nrPoll
        PROVE  cqOut' = Cardinality(Posted') + nrPoll' /\ cqOut' + Cardinality(Claims') <= Bound
    <2>1. cqOut' = Cardinality(Posted') + nrPoll'  BY <1>3, <1>6, QpStillSets
    <2>2. Cardinality(Claims') <= Cardinality(Claims)  BY <1>6, ClaimsSame
    <2> QED  BY <1>3, <1>4, <1>6, <2>1, <2>2
  <1>7. ASSUME NEW w \in Worker, Send(w), SendersSame
        PROVE  cqOut' = Cardinality(Posted') + nrPoll' /\ cqOut' + Cardinality(Claims') <= Bound
    <2>1. PICK S \in SUBSET Slice, P \in SUBSET Slice : SendOf(w, S, P)  BY <1>7, SendEffect
    <2>2. pc[w] = "send"  BY <1>7 DEF Send
    <2>3. held[w] \in EndPoint  BY <2>2, HeldEndpoint DEF Busy
    <2>4. /\ cqOut' = cqOut + Cardinality(P)
          /\ Cardinality(P) \in Nat /\ Cardinality(P) <= room[w]
      BY <2>1, SendCount DEF SendOf
    <2>5. Posted' = Posted \cup P /\ Posted \cap P = {}  BY <2>1, SendSets
    <2>6. Cardinality(Posted') = Cardinality(Posted) + Cardinality(P)
      BY <1>4, <2>4, <2>5, CountAdd
    <2>7. /\ room[w] \in Nat /\ ep[held[w]].depth \in Int /\ MaxWr \in Nat
          /\ polled[held[w]] \in Nat /\ Cardinality(Wrs(held[w])) \in Nat
      BY <2>3, SliceFinite, WrsTypes, LimitsAssumption DEF WorkTypes, EndpointRecord
    <2>8. /\ ep[held[w]].depth + room[w] <= MaxWr
          /\ ep[held[w]].depth = Cardinality(Wrs(held[w])) + polled[held[w]]
      BY <1>2, <2>2, <2>3 DEF Depths, DepthOf
    <2>9. room[w] <= MaxWr  BY <2>7, <2>8
    <2>10. Cardinality(Claims') + room[w] <= Cardinality(Claims)  BY <1>7, <2>9, ClaimsSend
    <2>11. nrPoll' = nrPoll  BY <1>7 DEF Send
    <2>12. cqOut' = Cardinality(Posted') + nrPoll'  BY <1>3, <1>4, <2>4, <2>6, <2>11
    <2>13. cqOut' + Cardinality(Claims') <= Bound  BY <1>3, <1>4, <2>4, <2>7, <2>10
    <2> QED  BY <2>12, <2>13
  <1>8. ASSUME NEW w \in Worker, Poll(w), SendersSame
        PROVE  cqOut' = Cardinality(Posted') + nrPoll' /\ cqOut' + Cardinality(Claims') <= Bound
    <2> DEFINE P == Done \cup Errs
    <2>1. PollOf  BY <1>8, PollEffect
    <2>2. Posted' = Posted \ P /\ P \in SUBSET Posted  BY <2>1, PollQpSets
    <2>3. cqOut' = cqOut /\ nrPoll' = Cardinality(P) /\ nrPoll = 0
      <3>1. pc[w] = "poll"  BY <1>8 DEF Poll
      <3>2. nrPoll = 0  BY <3>1 DEF Polling
      <3> QED  BY <2>1, <3>2 DEF PollOf
    <2> HIDE DEF P
    <2>4. Cardinality(Posted \ P) = Cardinality(Posted) - Cardinality(P)  BY <1>4, <2>2, CountSub
    <2>5. P \in SUBSET Slice /\ Cardinality(P) \in Nat  BY <1>4, <2>2, SliceFinite
    <2>6. Cardinality(Claims') <= Cardinality(Claims)  BY <1>8, ClaimsSame
    <2>7. cqOut' = Cardinality(Posted') + nrPoll'  BY <1>3, <1>4, <2>2, <2>3, <2>4, <2>5
    <2> QED  BY <1>3, <1>4, <2>3, <2>5, <2>6, <2>7
  <1>9. ASSUME NEW d \in EndPoint, PassiveHandshake(d) \/ DisconnectNext(d), SendersSame
        PROVE  cqOut' = Cardinality(Posted') + nrPoll' /\ cqOut' + Cardinality(Claims') <= Bound
    <2>1. DisconnectOf(d)  BY <1>9, DisconnectEffect
    <2>2. on' = on  BY <1>9 DEF PassiveHandshake, DisconnectNext
    <2>3. polled[d] = 0 /\ cqOut' = cqOut - ep[d].depth /\ nrPoll' = nrPoll
      BY <1>1, <1>9, <2>1 DEF DisconnectOf, PassiveHandshake, DisconnectNext, workVars
    <2>4. Cardinality(Wrs(d)) \in Nat /\ Wrs(d) \in SUBSET Posted  BY WrsTypes
    <2>5. ep[d].depth = Cardinality(Wrs(d))  BY <1>2, <2>3, <2>4 DEF Depths, DepthOf
    <2>6. Posted' = Posted \ Wrs(d)  BY <2>1, <2>2, DisconnectSets
    <2>7. Cardinality(Posted \ Wrs(d)) = Cardinality(Posted) - Cardinality(Wrs(d))
      BY <1>4, <2>4, CountSub
    <2>8. Cardinality(Claims') <= Cardinality(Claims)  BY <1>9, ClaimsSame
    <2>9. cqOut' = Cardinality(Posted') + nrPoll'  BY <1>3, <1>4, <2>3, <2>4, <2>5, <2>6, <2>7
    <2> QED  BY <1>3, <1>4, <2>3, <2>4, <2>5, <2>8, <2>9
  <1>10. ASSUME ~\E w \in Worker : Window(w) PROVE SendersSame  BY <1>10, SendersStep
  <1>11. ASSUME NEW w \in Worker, Uncount(w), SendersSame
         PROVE  cqOut' = Cardinality(Posted') + nrPoll' /\ cqOut' + Cardinality(Claims') <= Bound
    <2>1. QpStill  BY <1>11, QpStillSteps, StillSteps
    <2>2. Posted' = Posted  BY <2>1, QpStillSets
    <2>3. cqOut' = cqOut - nrPoll /\ nrPoll' = 0  BY <1>11 DEF Uncount
    <2>4. Cardinality(Claims') <= Cardinality(Claims)  BY <1>11, ClaimsSame
    <2>5. cqOut' = Cardinality(Posted') + nrPoll'  BY <1>3, <1>4, <2>2, <2>3
    <2> QED  BY <1>3, <1>4, <2>3, <2>4, <2>5
  <1> QED  BY <1>5, <1>6, <1>7, <1>8, <1>9, <1>10, <1>11, QueueStep

(***************************************************************************)
(* The invariant.                                                          *)
(***************************************************************************)
LEMMA InitInv == Init => RdmaInv
  <1> SUFFICES ASSUME Init PROVE RdmaInv  OBVIOUS
  <1> USE DEF Init
  <1>1. /\ 0 \in 0..(MaxRetry - 1) /\ 0 \in 0..MaxEvents /\ MaxWr \in Nat \ {0} /\ MaxCqe \in Nat
        /\ 0 \in 0..Cardinality(Slice) /\ (CHOOSE p \in Peer : TRUE) \in Peer
    <2>1. Cardinality(Slice) \in Nat  BY SliceFinite
    <2>2. \E p \in Peer : TRUE  BY TasksAssumption
    <2>3. (CHOOSE p \in Peer : TRUE) \in Peer  BY <2>2
    <2> QED  BY <2>1, <2>3, LimitsAssumption
  <1>2. SliceTypes
    BY <1>1, WorkersAssumption, TasksAssumption DEF SliceTypes, Places
  <1>3. WorkTypes
    <2>1. FreeEndpoint \in EndpointRecord  BY <1>1 DEF FreeEndpoint, EndpointRecord
    <2> QED  BY <1>1, <2>1 DEF WorkTypes
  <1>4. Submission  BY TasksAssumption DEF Submission
  <1>5. Hands  BY DEF Hands, HandsOf, Busy
  <1>6. Polling  BY WorkersAssumption DEF Polling
  <1>7. Cardinality({}) = 0  BY FS_EmptySet
  <1>8. Counts /\ TaskCounts
    <2>1. Owed = {} /\ Open = {} /\ NotNew = {}  BY TasksAssumption DEF Owed, Open, NotNew, Places
    <2>2. \A t \in Task : Succeeded(t) = {} /\ Failed(t) = {}  BY DEF Succeeded, Failed, SlicesOf
    <2>3. Cardinality(Owed) = 0 /\ Cardinality(Open) = 0 /\ Cardinality(NotNew) = 0
      BY <1>7, <2>1
    <2>4. \A t \in Task : Cardinality(Succeeded(t)) = 0 /\ Cardinality(Failed(t)) = 0
      BY <1>7, <2>2
    <2>5. submitted = 0 /\ processed = 0 /\ gain = 0 /\ \A t \in Task : good[t] = 0 /\ bad[t] = 0
      OBVIOUS
    <2> HIDE DEF Init
    <2> QED  BY <2>3, <2>4, <2>5 DEF Counts, TaskCounts
  <1>9. Locks  BY DEF Locks, FreeEndpoint
  <1>10. Posted = {} /\ \A e \in EndPoint : Wrs(e) = {}  BY DEF Posted, Wrs
  <1>11. Depths
    <2>1. \A e \in EndPoint : ep[e].depth = 0 /\ polled[e] = 0  BY DEF FreeEndpoint
    <2>2. \A e \in EndPoint : Cardinality(Wrs(e)) = 0  BY <1>7, <1>10
    <2>3. \A w \in Worker : pc[w] # "send"  OBVIOUS
    <2> HIDE DEF Init
    <2> QED  BY <1>1, <1>10, <2>1, <2>2, <2>3 DEF Depths, DepthOf
  <1>12. Outstanding
    <2>1. Claims = {}  BY DEF Claims
    <2>2. Worker \ {Poller} \subseteq Worker /\ IsFiniteSet(Worker) /\ Poller \in Worker
      BY WorkersAssumption
    <2>3. Cardinality(Worker) \in Nat /\ Cardinality(Worker) >= 1
      <3>1. Cardinality(Worker) \in Nat /\ (Cardinality(Worker) = 0 <=> Worker = {})
        BY <2>2, FS_CardinalityType, FS_EmptySet
      <3> QED  BY <2>2, <3>1
    <2> DEFINE k == Cardinality(Worker) - 1
    <2>4. k \in Nat  BY <2>3
    <2> HIDE DEF k
    <2>5. k * MaxWr \in Nat  BY <1>1, <2>4
    <2>6. 0 + 0 <= MaxCqe + k * MaxWr  BY <1>1, <2>5
    <2> QED  BY <1>7, <1>10, <2>1, <2>6 DEF Outstanding, k
  <1> QED  BY <1>2, <1>3, <1>4, <1>5, <1>6, <1>8, <1>9, <1>11, <1>12 DEF RdmaInv

LEMMA InvNext == RdmaInv /\ [Next]_vars => RdmaInv'
  <1> SUFFICES ASSUME RdmaInv, [Next]_vars PROVE RdmaInv'  OBVIOUS
  <1> USE DEF RdmaInv
  <1>1. SliceTypes' /\ WorkTypes'  BY SliceTypesStep, WorkTypesStep
  <1>2. Submission' /\ Hands' /\ Polling'  BY SubmissionStep, HandsStep, PollingStep
  <1>3. Counts' /\ TaskCounts'  BY CountsStep
  <1>4. Locks' /\ Depths' /\ Outstanding'  BY <1>1, LocksStep, DepthsStep, OutstandingStep
  <1> QED  BY <1>1, <1>2, <1>3, <1>4

LEMMA InvAlways == RdmaSpec => []RdmaInv
  BY InitInv, InvNext, PTL DEF RdmaSpec

LEMMA TypesFollow == RdmaInv => RdmaTypeOK
  <1> SUFFICES ASSUME RdmaInv PROVE RdmaTypeOK  OBVIOUS
  <1>1. SliceTypes /\ WorkTypes /\ Hands /\ Counts /\ TaskCounts  BY DEF RdmaInv
  <1> DEFINE N == Cardinality(Slice)
  <1>2. retry \in [Slice -> 0..MaxRetry]
    <2>1. 0..(MaxRetry - 1) \subseteq 0..MaxRetry  BY LimitsAssumption
    <2> QED  BY <1>1, <2>1 DEF SliceTypes
  <1>3. good \in [Task -> 0..N] /\ bad \in [Task -> 0..N]
    <2>1. ASSUME NEW t \in Task PROVE good[t] \in 0..N /\ bad[t] \in 0..N
      <3>1. Succeeded(t) \in SUBSET Slice /\ Failed(t) \in SUBSET Slice  BY SetTypes
      <3> QED  BY <1>1, <3>1, SliceFinite DEF TaskCounts
    <2> QED  BY <1>1, <2>1 DEF SliceTypes
  <1>4. submitted \in 0..N /\ processed \in 0..N
    <2>1. Open \in SUBSET Slice /\ Owed \in SUBSET Slice /\ NotNew \in SUBSET Slice  BY SetTypes
    <2>2. /\ Cardinality(Open) \in Nat /\ Cardinality(Owed) \in Nat /\ Cardinality(NotNew) \in 0..N
          /\ N \in Nat
      BY <2>1, SliceFinite
    <2>3. gain \in Nat /\ submitted \in Nat /\ processed \in Nat
      BY <1>1, <2>2 DEF SliceTypes, WorkTypes
    <2> HIDE DEF N
    <2> QED  BY <1>1, <2>2, <2>3 DEF Counts
  <1>5. \A w \in Worker : held[w] # None <=> pc[w] \in {"connect", "window", "send"}
    BY <1>1 DEF Hands, HandsOf, Busy
  <1> QED  BY <1>1, <1>2, <1>3, <1>4, <1>5 DEF RdmaTypeOK, SliceTypes, WorkTypes, EndpointRecord

LEMMA ConservationFollows == RdmaInv => Conservation
  <1> SUFFICES ASSUME RdmaInv PROVE Conservation  OBVIOUS
  <1>1. RdmaTypeOK  BY TypesFollow
  <1>2. submitted + Cardinality(Owed) = processed + gain + Cardinality(Open)
    BY DEF RdmaInv, Counts
  <1>3. ASSUME \A t \in Task : sub[t] # "queued", processed = submitted PROVE Open = {}
    <2>1. Owed = {}  BY <1>3, TasksAssumption DEF RdmaInv, Submission, Owed
    <2>2. Cardinality(Owed) = 0  BY <2>1, FS_EmptySet
    <2>3. Open \in SUBSET Slice  BY DEF Open
    <2>4. Cardinality(Open) \in Nat /\ gain \in Nat /\ processed \in Nat /\ submitted \in Nat
      BY <2>3, SliceFinite DEF RdmaInv, SliceTypes, WorkTypes
    <2>5. Cardinality(Open) = 0  BY <1>2, <1>3, <2>2, <2>4
    <2> QED  BY <2>3, <2>5, CountNone
  <1> QED  BY <1>1, <1>2, <1>3 DEF Conservation

LEMMA TasksFollow == RdmaInv => TaskCountsExact
  <1> SUFFICES ASSUME RdmaInv, NEW t \in Task
               PROVE  /\ good[t] = Cardinality({s \in SlicesOf(t) : at[s] = "success"})
                      /\ bad[t] = Cardinality({s \in SlicesOf(t) : at[s] = "failed"})
                      /\ finished[t] => /\ SlicesOf(t) \cap Open = {}
                                        /\ \A w \in Worker : broken[w] \cap SlicesOf(t) = {}
    BY DEF TaskCountsExact
  <1>1. /\ good[t] = Cardinality({s \in SlicesOf(t) : at[s] = "success"})
        /\ bad[t] = Cardinality({s \in SlicesOf(t) : at[s] = "failed"})
    BY DEF RdmaInv, TaskCounts, Succeeded, Failed
  <1>2. ASSUME finished[t]
        PROVE  /\ SlicesOf(t) \cap Open = {}
               /\ \A w \in Worker : broken[w] \cap SlicesOf(t) = {}
    <2>1. \A s \in SlicesOf(t) : at[s] \in {"success", "failed"}  BY <1>2 DEF RdmaInv, Submission
    <2>2. SlicesOf(t) \cap Open = {}  BY <2>1 DEF Open
    <2>3. \A w \in Worker : \A s \in broken[w] : at[s] = "local"  BY DEF RdmaInv, Hands, HandsOf, Local
    <2> QED  BY <2>1, <2>2, <2>3
  <1> QED  BY <1>1, <1>2

LEMMA DepthsFollow == RdmaInv => DepthExact /\ NoUseAfterReclaim
  <1> SUFFICES ASSUME RdmaInv PROVE DepthExact /\ NoUseAfterReclaim  OBVIOUS
  <1>1. NoUseAfterReclaim  BY DEF RdmaInv, Depths, DepthOf, NoUseAfterReclaim
  <1>2. ASSUME torn = {}
        PROVE  /\ cqOut = Cardinality(Posted) + nrPoll
               /\ cqOut <= MaxCqe + (Cardinality(Worker) - 1) * MaxWr
    <2> DEFINE K == (Cardinality(Worker) - 1) * MaxWr
    <2>1. cqOut = Cardinality(Posted) + nrPoll /\ cqOut + Cardinality(Claims) <= MaxCqe + K
      BY <1>2 DEF RdmaInv, Outstanding
    <2>2. K \in Int /\ MaxCqe \in Int
      BY WorkersAssumption, LimitsAssumption, FS_CardinalityType
    <2>3. cqOut \in Int /\ Cardinality(Claims) \in Nat  BY ClaimsFinite DEF RdmaInv, WorkTypes
    <2> HIDE DEF K
    <2>4. cqOut <= MaxCqe + K  BY <2>1, <2>2, <2>3
    <2> QED  BY <2>1, <2>4 DEF K
  <1> QED  BY <1>1, <1>2 DEF DepthExact, RdmaInv, Depths, DepthOf

(***************************************************************************)
(* The theorems.                                                           *)
(***************************************************************************)
\* No slice of a transfer is forgotten or counted twice by the worker pool,
\* however its threads, the submitters, the adapter and the monitor thread
\* interleave: when the workers sleep (processed_slice_count_ equals
\* submitted_slice_count_) no slice is in any queue.
THEOREM SlicesConserved == RdmaSpec => []Conservation
  BY InvAlways, ConservationFollows, PTL

\* success_slice_count and failed_slice_count of a task count its slices,
\* each once, and a task that getTransferStatus reported finished has none
\* in a worker's hands: freeBatchID may delete it.
THEOREM TasksCounted == RdmaSpec => []TaskCountsExact
  BY InvAlways, TasksFollow, PTL

\* wr_depth of an endpoint that was not reset between a poll and its
\* subtraction counts its work requests and never exceeds max_wr, and
\* cq_outstanding exceeds max_cqe by no more than what the other workers may
\* have read at the same time.
THEOREM DepthsCorrect == RdmaSpec => []DepthExact
  BY InvAlways, DepthsFollow, PTL

\* reclaimEndpoint destroys no endpoint on which something is posted, or
\* whose wr_depth a completion has still to be subtracted from, unless it
\* was reset between a poll and its subtraction.
THEOREM ReclaimSafe == RdmaSpec => []NoUseAfterReclaim
  BY InvAlways, DepthsFollow, PTL
=============================================================================
