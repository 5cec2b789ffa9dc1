---------------------------- MODULE RdmaTransport ---------------------------
(***************************************************************************)
(* The RDMA path of the transfer engine: MultiTransport's tasks, cut into  *)
(* slices, the WorkerPool whose threads post them to endpoints and poll    *)
(* the completion queue, and the endpoint store of an RdmaContext.         *)
(*                                                                         *)
(* Several threads count the same slices: a task counts the slices that    *)
(* succeeded and failed, the pool counts the ones submitted and processed  *)
(* (its threads sleep while the two are equal), an endpoint the work       *)
(* requests on its queue pair (wr_depth), the context the ones on its      *)
(* completion queue (cq_outstanding).  The model keeps every point where   *)
(* one of these is read in one step and written in a later one.            *)
(*                                                                         *)
(* Abstractions.  The queues are sets: the order of slices decides         *)
(* nothing.  An endpoint has one queue pair, the context one completion    *)
(* queue, polled by Poller.  Which device of the peer a slice goes to      *)
(* (selectDevice) is any of those its target segment has.                  *)
(***************************************************************************)
EXTENDS Integers, FiniteSets, FiniteSetsExt

CONSTANTS Slice, Task, TaskOf,    \* the slices and the task of each
          Devices,                \* the devices of a task's target segment
          Worker, Poller,         \* transferWorker threads
          Peer, ShardOf,          \* peer NIC paths and the worker of their shard
          EndPoint,               \* RdmaEndPoint objects
          MaxWr,                  \* max_wr
          MaxCqe,                 \* max_cqe
          MaxEndpoints,           \* max_ep_per_ctx
          MaxRetry,               \* retry_cnt
          MaxEvents,              \* bound: resets, fatal events, handshakes of the
                                  \* peer, refused handshakes, partial posts, evictions
          None                    \* no endpoint

ASSUME WorkersAssumption ==
    IsFiniteSet(Worker) /\ Poller \in Worker /\ ShardOf \in [Peer -> Worker]
ASSUME TasksAssumption ==
    /\ IsFiniteSet(Slice) /\ TaskOf \in [Slice -> Task]
    /\ Peer # {} /\ Devices \in [Task -> SUBSET Peer] /\ \A t \in Task : Devices[t] # {}
ASSUME LimitsAssumption ==
    /\ {MaxWr, MaxCqe, MaxEndpoints, MaxRetry} \subseteq Nat \ {0}
    /\ MaxEvents \in Nat
ASSUME NoneAssumption == None \notin EndPoint

VARIABLES sub,        \* per task: "no", "queued" or "done" (submitTransferTask)
          owed,       \* per task: the slices queued but not counted yet
          at,         \* per slice: where it is
          by,         \* per slice: the worker whose local queue has it
          peer, on,   \* per slice: peer_nic_path, and the endpoint it is posted on
          retry,      \* per slice: retry_cnt
          good, bad,  \* per task: success_slice_count, failed_slice_count
          finished,   \* per task: is_finished
          submitted, processed,   \* submitted_slice_count_, processed_slice_count_
          ep,         \* the endpoints
          cqOut,      \* cq_outstanding
          active,     \* whether the context is active
          pc,         \* per worker: the step it is at
          todo,       \* per worker: peers still to post to in this round
          held,       \* per worker: the endpoint it works on
          room,       \* per worker: wr_count of submitPostSend
          broken,     \* per worker: failed_slice_list
          stale,      \* per worker: redispatch_counter_ has moved on
          polled,     \* qp_depth_set of the Poller, not subtracted yet
          nrPoll,     \* nr_poll of the Poller, not taken off cq_outstanding yet
          gain,       \* processed_slice_count of the Poller's last poll
          doomed,     \* the endpoints disconnectQPs still has to disconnect
          torn,       \* the endpoints reset while completions that were polled
                      \* were not subtracted yet
          events      \* counter for the bound
taskVars == <<sub, owed, finished>>
sliceVars == <<at, by, peer, on, retry, good, bad>>
hcaVars == <<ep, cqOut, active>>
workVars == <<pc, todo, held, room, broken, stale, polled, nrPoll, gain>>
countVars == <<submitted, processed>>
vars == <<taskVars, sliceVars, hcaVars, workVars, countVars, doomed, torn, events>>

SlicesOf(t) == {s \in Slice : TaskOf[s] = t}
Local(w) == {s \in Slice : at[s] = "local" /\ by[s] = w}
LocalTo(w, p) == {s \in Local(w) : peer[s] = p}
Posted == {s \in Slice : at[s] \in {"posted", "completed", "flushed"}}
Wrs(e) == {s \in Posted : on[s] = e}
Locked(e) == \E w \in Worker : pc[w] = "send" /\ held[w] = e
Event == events < MaxEvents /\ events' = events + 1

\* The endpoint store: endpoint_map_ and waiting_list_.
Mapped == {e \in EndPoint : ep[e].st = "mapped"}
EndpointOf(p) == {e \in Mapped : ep[e].peer = p}
\* Mutant: work requests are not looked at.
hasOutstandingNone(x) == x.active
hasOutstandingSlice(x) == x.active \/ x.depth # 0
FreeEndpoint == [st |-> "free", peer |-> CHOOSE p \in Peer : TRUE, active |-> FALSE,
                 conn |-> FALSE, depth |-> 0]

Init ==
    /\ sub = [t \in Task |-> "no"] /\ owed = [t \in Task |-> {}]
    /\ finished = [t \in Task |-> FALSE]
    /\ at = [s \in Slice |-> "new"]
    /\ by = [s \in Slice |-> Poller]
    /\ peer = [s \in Slice |-> CHOOSE p \in Peer : TRUE]
    /\ on = [s \in Slice |-> None]
    /\ retry = [s \in Slice |-> 0]
    /\ good = [t \in Task |-> 0] /\ bad = [t \in Task |-> 0]
    /\ submitted = 0 /\ processed = 0
    /\ ep = [e \in EndPoint |-> FreeEndpoint]
    /\ cqOut = 0 /\ active = TRUE
    /\ pc = [w \in Worker |-> "loop"]
    /\ todo = [w \in Worker |-> {}]
    /\ held = [w \in Worker |-> None]
    /\ room = [w \in Worker |-> 0]
    /\ broken = [w \in Worker |-> {}]
    /\ stale = [w \in Worker |-> FALSE]
    /\ polled = [e \in EndPoint |-> 0] /\ nrPoll = 0 /\ gain = 0
    /\ doomed = {} /\ torn = {} /\ events = 0

Goto(w, s) == pc' = [pc EXCEPT ![w] = s]
Per(t, S) == Cardinality({s \in S : TaskOf[s] = t})
\* Slice::markSuccess and Slice::markFailed on all slices of a set.
markSuccess(S) == good' = [t \in Task |-> good[t] + Per(t, S)]
\* Mutant: a failed slice changes its status only.
markFailedUncounted(S) == UNCHANGED bad
markFailed(S) == bad' = [t \in Task |-> bad[t] + Per(t, S)]

(***************************************************************************)
(* submitTransferTask and WorkerPool::submitPostSend: the slices are       *)
(* queued first and counted afterwards; one whose target is unknown is     *)
(* marked failed and not queued.                                           *)
(***************************************************************************)
SubmitEnqueue(t) ==
    /\ sub[t] = "no"
    /\ \E lost \in SUBSET SlicesOf(t), f \in [SlicesOf(t) -> Devices[t]] :
          /\ at' = [s \in Slice |-> IF s \notin SlicesOf(t) THEN at[s]
                                    ELSE IF s \in lost THEN "failed" ELSE "queued"]
          /\ peer' = [s \in Slice |-> IF s \in SlicesOf(t) THEN f[s] ELSE peer[s]]
          /\ by' = [s \in Slice |-> IF s \in SlicesOf(t) \ lost THEN ShardOf[f[s]] ELSE by[s]]
          /\ markFailed(lost)
          /\ owed' = [owed EXCEPT ![t] = SlicesOf(t) \ lost]
    /\ sub' = [sub EXCEPT ![t] = "queued"]
    /\ UNCHANGED <<finished, on, retry, good, hcaVars, workVars, countVars, events, doomed, torn>>

\* Mutant: the slices are queued but not counted, so no worker wakes up.
SubmitUncounted(t) ==
    /\ sub[t] = "queued"
    /\ owed' = [owed EXCEPT ![t] = {}]
    /\ sub' = [sub EXCEPT ![t] = "done"]
    /\ UNCHANGED <<finished, sliceVars, hcaVars, workVars, countVars, events, doomed, torn>>

SubmitCount(t) ==
    /\ sub[t] = "queued"
    /\ submitted' = submitted + Cardinality(owed[t])
    /\ owed' = [owed EXCEPT ![t] = {}]
    /\ sub' = [sub EXCEPT ![t] = "done"]
    /\ UNCHANGED <<finished, sliceVars, hcaVars, workVars, processed, events, doomed, torn>>

(***************************************************************************)
(* redispatch: every slice of S gets a device of its target again and goes *)
(* back to w's local queue, or fails for good.  n[s] is its retry count.   *)
(***************************************************************************)
Dispatch(S) == {f \in [S -> Peer] : \A s \in S : f[s] \in Devices[TaskOf[s]]}

redispatch(w, S, n) ==
    \E f \in Dispatch(S), gone \in SUBSET S :
       LET dead == gone \cup {s \in S : n[s] >= MaxRetry}
       IN  /\ at' = [s \in Slice |-> IF s \in dead THEN "failed"
                                     ELSE IF s \in S THEN "local" ELSE at[s]]
           /\ by' = [s \in Slice |-> IF s \in S THEN w ELSE by[s]]
           /\ peer' = [s \in Slice |-> IF s \in S \ dead THEN f[s] ELSE peer[s]]
           /\ retry' = [s \in Slice |-> IF s \in dead THEN 0 ELSE n[s]]
           /\ markFailed(dead)
           /\ processed' = processed + Cardinality(dead)

(***************************************************************************)
(* transferWorker: while not everything submitted is processed, one round  *)
(* of performPostSend and performPollCq.                                   *)
(***************************************************************************)
Shard(w) == {s \in Slice : at[s] = "queued" /\ by[s] = w}

Collect(w) ==
    /\ pc[w] = "loop" /\ processed # submitted /\ ~stale[w]
    /\ at' = [s \in Slice |-> IF s \in Shard(w) THEN "local" ELSE at[s]]
    /\ todo' = [todo EXCEPT ![w] = {peer[s] : s \in Local(w) \cup Shard(w)}]
    /\ Goto(w, "post")
    /\ UNCHANGED <<taskVars, by, peer, on, retry, good, bad, hcaVars, held, room,
                   broken, stale, polled, nrPoll, gain, countVars, events, doomed, torn>>

\* A poll has failed slices since: all slices of this worker are dispatched
\* again and nothing is posted in this round.
CollectRedispatch(w) ==
    /\ pc[w] = "loop" /\ processed # submitted /\ stale[w]
    /\ redispatch(w, Local(w) \cup Shard(w), retry)
    /\ stale' = [stale EXCEPT ![w] = FALSE]
    /\ Goto(w, IF w = Poller THEN "poll" ELSE "loop")
    /\ UNCHANGED <<taskVars, on, good, hcaVars, todo, held, room, broken, polled,
                   nrPoll, gain, submitted, events, doomed, torn>>

\* The slices to p are not posted in this round: they go to failed_slice_list.
Break(w, p) ==
    /\ broken' = [broken EXCEPT ![w] = @ \cup LocalTo(w, p)]
    /\ todo' = [todo EXCEPT ![w] = @ \ {p}]

\* context_.endpoint: found in the map, or a new one is inserted, at the
\* cost of a mapped one when the store is full; then endpoints on the
\* waiting list that have nothing outstanding are destroyed.
Evicted(m) == [e \in EndPoint |-> IF e = m THEN [ep[e] EXCEPT !.st = "waiting", !.active = FALSE]
                                  ELSE ep[e]]
Inserted(m, n, p) == [m EXCEPT ![n] = [st |-> "mapped", peer |-> p, active |-> TRUE,
                                       conn |-> FALSE, depth |-> 0]]
Reclaimed(m) == [e \in EndPoint |->
                    IF m[e].st = "waiting" /\ ~hasOutstandingSlice(m[e])
                    THEN [m[e] EXCEPT !.st = "free", !.conn = FALSE] ELSE m[e]]

Lookup(w, p) ==
    /\ pc[w] = "post" /\ p \in todo[w]
    /\ active
    /\ \E e \in EndpointOf(p) :
          /\ ep[e].active
          /\ held' = [held EXCEPT ![w] = e]
          /\ Goto(w, IF ep[e].conn THEN "window" ELSE "connect")
    /\ UNCHANGED <<taskVars, sliceVars, hcaVars, todo, room, broken, polled, nrPoll, gain,
                   stale, countVars, events, doomed, torn>>

insertEndpoint(n, p) ==
    /\ active /\ EndpointOf(p) = {}
    /\ ep[n].st = "free" /\ polled[n] = 0 /\ \A v \in Worker : held[v] # n
    /\ \/ /\ Cardinality(Mapped) < MaxEndpoints
          /\ ep' = Reclaimed(Inserted(ep, n, p))
       \/ /\ Cardinality(Mapped) >= MaxEndpoints
          /\ \E m \in Mapped : ~Locked(m) /\ ep' = Reclaimed(Inserted(Evicted(m), n, p))

Insert(w, p) ==
    /\ pc[w] = "post" /\ p \in todo[w]
    /\ \E n \in EndPoint : insertEndpoint(n, p) /\ held' = [held EXCEPT ![w] = n]
    /\ IF Cardinality(Mapped) < MaxEndpoints THEN UNCHANGED events ELSE Event
    /\ Goto(w, "connect")
    /\ UNCHANGED <<taskVars, sliceVars, cqOut, active, todo, room, broken, polled,
                   nrPoll, gain, stale, countVars, doomed, torn>>

\* No endpoint: the context is inactive or no queue pair can be created.
NoEndpoint(w, p) ==
    /\ pc[w] = "post" /\ p \in todo[w]
    /\ \/ ~active
       \/ EndpointOf(p) = {} /\ \A n \in EndPoint : ep[n].st # "free"
       \/ EndpointOf(p) = {} /\ Cardinality(Mapped) >= MaxEndpoints /\ events = MaxEvents
    /\ Break(w, p)
    /\ UNCHANGED <<taskVars, sliceVars, hcaVars, pc, held, room, polled, nrPoll, gain,
                   stale, countVars, events, doomed, torn>>

\* The endpoint is inactive; after a second it is removed for a new one.
Inactive(w, p) ==
    /\ pc[w] = "post" /\ p \in todo[w]
    /\ active
    /\ \E e \in EndpointOf(p) :
          /\ ~ep[e].active
          /\ \/ UNCHANGED ep
             \/ ep' = [ep EXCEPT ![e].st = "waiting"]
    /\ Break(w, p)
    /\ UNCHANGED <<taskVars, sliceVars, cqOut, active, pc, held, room, polled,
                   nrPoll, gain, stale, countVars, events, doomed, torn>>

Cur(w) == ep[held[w]].peer
Release(w) == held' = [held EXCEPT ![w] = None]

\* setupConnectionsByActive, under the endpoint's lock.
Connect(w) ==
    /\ pc[w] = "connect" /\ ~Locked(held[w])
    /\ ep' = [ep EXCEPT ![held[w]].conn = TRUE]
    /\ Goto(w, "window")
    /\ UNCHANGED <<taskVars, sliceVars, cqOut, active, todo, held, room, broken,
                   polled, nrPoll, gain, stale, countVars, events, doomed, torn>>

\* The handshake is refused or unanswered: the endpoint becomes inactive,
\* and the context too when nothing else has ever worked.
ConnectFails(w) ==
    /\ pc[w] = "connect" /\ ~Locked(held[w]) /\ ~ep[held[w]].conn
    /\ Event
    /\ ep' = [ep EXCEPT ![held[w]].active = FALSE]
    /\ active' \in {active, FALSE}
    /\ Break(w, Cur(w))
    /\ Release(w)
    /\ Goto(w, "post")
    /\ UNCHANGED <<taskVars, sliceVars, cqOut, room, polled, nrPoll, gain, stale,
                   countVars, doomed, torn>>

\* RdmaEndPoint::submitPostSend: how much may be posted ...
WrCount(w) == Min({MaxWr - ep[held[w]].depth, MaxCqe - cqOut,
                   Cardinality(LocalTo(w, Cur(w)))})
Window(w) ==
    /\ pc[w] = "window" /\ ~Locked(held[w])
    /\ ep[held[w]].active /\ WrCount(w) > 0
    /\ room' = [room EXCEPT ![w] = WrCount(w)]
    /\ Goto(w, "send")
    /\ UNCHANGED <<taskVars, sliceVars, hcaVars, todo, held, broken, polled, nrPoll, gain,
                   stale, countVars, events, doomed, torn>>

WindowClosed(w) ==
    /\ pc[w] = "window" /\ ~Locked(held[w])
    /\ ~ep[held[w]].active \/ WrCount(w) <= 0
    /\ todo' = [todo EXCEPT ![w] = @ \ {Cur(w)}]
    /\ Release(w)
    /\ Goto(w, "post")
    /\ UNCHANGED <<taskVars, sliceVars, hcaVars, room, broken, stale, polled, nrPoll, gain,
                   countVars, events, doomed, torn>>

\* ... and, still under the endpoint's lock, the posting of S.  ibv_post_send
\* may stop at a work request: those before it, P, stay posted, the others go
\* to failed_slice_list.  A queue pair that was reset after it was connected
\* takes none.
Send(w) ==
    /\ pc[w] = "send"
    /\ \E S \in kSubset(room[w], LocalTo(w, Cur(w))) : \E P \in SUBSET S :
          /\ IF ep[held[w]].conn THEN (P = S /\ UNCHANGED events) \/ (P # S /\ Event)
                                 ELSE P = {} /\ UNCHANGED events
          /\ at' = [s \in Slice |-> IF s \in P THEN "posted" ELSE at[s]]
          /\ on' = [s \in Slice |-> IF s \in P THEN held[w] ELSE on[s]]
          /\ ep' = [ep EXCEPT ![held[w]].depth = @ + Cardinality(P)]
          /\ cqOut' = cqOut + Cardinality(P)
          /\ broken' = [broken EXCEPT ![w] = @ \cup (S \ P)]
    /\ todo' = [todo EXCEPT ![w] = @ \ {Cur(w)}]
    /\ room' = [room EXCEPT ![w] = 0]
    /\ Release(w)
    /\ Goto(w, "post")
    /\ UNCHANGED <<taskVars, by, peer, retry, good, bad, active, polled, nrPoll, gain, stale,
                   countVars, doomed, torn>>

\* The end of performPostSend: what could not be posted is tried again.
RoundEnd(w) ==
    /\ pc[w] = "post" /\ todo[w] = {}
    /\ redispatch(w, broken[w], [s \in Slice |-> IF s \in broken[w] THEN retry[s] + 1 ELSE retry[s]])
    /\ broken' = [broken EXCEPT ![w] = {}]
    /\ Goto(w, IF w = Poller THEN "poll" ELSE "loop")
    /\ UNCHANGED <<taskVars, on, good, hcaVars, todo, held, room, polled, nrPoll, gain,
                   stale, submitted, events, doomed, torn>>

(***************************************************************************)
(* performPollCq: all completions that are there.  A slice that failed is  *)
(* kept for the next round, and the endpoint its peer has now is deleted;  *)
(* wr_depth and processed_slice_count_ are brought up to date at the end.  *)
(* Errors without any success make the context inactive; disconnectQPs     *)
(* walks the store without its lock and may miss an endpoint moved here.   *)
(***************************************************************************)
Poll(w) ==
    /\ pc[w] = "poll"
    /\ LET done == {s \in Slice : at[s] = "completed"}
           errs == {s \in Slice : at[s] = "flushed"}
           dead == {s \in errs : retry[s] + 1 >= MaxRetry}
           again == errs \ dead
       IN  /\ at' = [s \in Slice |-> CASE s \in done -> "success" [] s \in dead -> "failed"
                                       [] s \in again -> "local" [] OTHER -> at[s]]
           /\ by' = [s \in Slice |-> IF s \in again THEN w ELSE by[s]]
           /\ on' = [s \in Slice |-> IF s \in done \cup errs THEN None ELSE on[s]]
           /\ retry' = [s \in Slice |-> IF s \in again THEN retry[s] + 1
                                       ELSE IF s \in dead THEN 0 ELSE retry[s]]
           /\ markSuccess(done) /\ markFailed(dead)
           /\ ep' = [e \in EndPoint |-> IF e \in Mapped /\ \E s \in errs : peer[s] = ep[e].peer
                                        THEN [ep[e] EXCEPT !.st = "waiting"] ELSE ep[e]]
           /\ stale' = [v \in Worker |-> stale[v] \/ again # {}]
           /\ nrPoll' = Cardinality(done \cup errs)
           /\ polled' = [e \in EndPoint |-> Cardinality({s \in done \cup errs : on[s] = e})]
           /\ gain' = Cardinality(done)
           /\ processed' = processed + Cardinality(dead)
           /\ active' \in {active, active /\ errs = {}}
    /\ \E missed \in SUBSET {e \in doomed : ep'[e].st # ep[e].st} : doomed' = doomed \ missed
    /\ Goto(w, "uncount")
    /\ UNCHANGED <<taskVars, peer, cqOut, todo, held, room, broken, submitted, events, torn>>

\* ... cq_outstanding after all completions are handled ...
Uncount(w) ==
    /\ pc[w] = "uncount"
    /\ cqOut' = cqOut - nrPoll
    /\ nrPoll' = 0
    /\ Goto(w, "settle")
    /\ UNCHANGED <<taskVars, sliceVars, ep, active, todo, held, room, broken, stale, polled,
                   gain, countVars, events, doomed, torn>>

\* Mutant: wr_depth is never brought down.
SettleNoDepth(w) ==
    /\ pc[w] = "settle"
    /\ UNCHANGED ep
    /\ polled' = [e \in EndPoint |-> 0]
    /\ processed' = processed + gain
    /\ gain' = 0
    /\ Goto(w, "loop")
    /\ UNCHANGED <<taskVars, sliceVars, cqOut, active, todo, held, room, broken,
                   stale, nrPoll, submitted, events, doomed, torn>>

Settle(w) ==
    /\ pc[w] = "settle"
    /\ ep' = [e \in EndPoint |-> [ep[e] EXCEPT !.depth = @ - polled[e]]]
    /\ polled' = [e \in EndPoint |-> 0]
    /\ processed' = processed + gain
    /\ gain' = 0
    /\ Goto(w, "loop")
    /\ UNCHANGED <<taskVars, sliceVars, cqOut, active, todo, held, room, broken,
                   stale, nrPoll, submitted, events, doomed, torn>>

(***************************************************************************)
(* The adapter and the peer.                                               *)
(***************************************************************************)
Complete(s) ==
    /\ at[s] = "posted"
    /\ at' = [at EXCEPT ![s] = "completed"]
    /\ UNCHANGED <<taskVars, by, peer, on, retry, good, bad, hcaVars, workVars,
                   countVars, events, doomed, torn>>

Flush(s) ==
    /\ at[s] = "posted"
    /\ at' = [at EXCEPT ![s] = "flushed"]
    /\ UNCHANGED <<taskVars, by, peer, on, retry, good, bad, hcaVars, workVars,
                   countVars, events, doomed, torn>>

\* disconnectUnlocked: "CQ will not be generated" for what is posted on e,
\* and wr_depth is taken off cq_outstanding.
disconnect(e, conn) ==
    /\ ~Locked(e)
    /\ at' = [s \in Slice |-> IF s \in Wrs(e) THEN "lost" ELSE at[s]]
    /\ cqOut' = cqOut - ep[e].depth
    /\ ep' = [ep EXCEPT ![e] = [@ EXCEPT !.conn = conn, !.depth = 0]]
    /\ torn' = IF polled[e] = 0 THEN torn ELSE torn \cup {e}

\* onSetupRdmaConnections: the peer connects, or has started over; after the
\* reset the connection may fail.
PassiveHandshake(e) ==
    /\ e \in Mapped /\ ep[e].conn /\ Event
    /\ \E conn \in BOOLEAN : disconnect(e, conn)
    /\ UNCHANGED <<taskVars, by, peer, on, retry, good, bad, active, workVars, countVars, doomed>>

\* A peer nobody has posted to yet gets an endpoint.
PassiveInserts(p) ==
    /\ Event
    /\ \E n \in EndPoint : insertEndpoint(n, p)
    /\ UNCHANGED <<taskVars, sliceVars, cqOut, active, workVars, countVars, doomed, torn>>

PassiveConnects(e) ==
    /\ e \in Mapped /\ ~ep[e].conn /\ ~Locked(e) /\ Event
    /\ ep' = [ep EXCEPT ![e].conn = TRUE]
    /\ UNCHANGED <<taskVars, sliceVars, cqOut, active, workVars, countVars, doomed, torn>>

(***************************************************************************)
(* monitorWorker, one thread: doProcessContextEvents when one queue pair,  *)
(* or the device or the port fails, which disconnects the endpoints one by *)
(* one; every second the context is active again.                          *)
(***************************************************************************)
QpFatal(e) ==
    /\ doomed = {} /\ ep[e].st # "free" /\ ep[e].active /\ ~Locked(e) /\ Event
    /\ ep' = [ep EXCEPT ![e].active = FALSE]
    /\ UNCHANGED <<taskVars, sliceVars, cqOut, active, workVars, countVars, doomed, torn>>

DeviceFails ==
    /\ doomed = {} /\ Event
    /\ active' = FALSE
    /\ doomed' = {e \in EndPoint : ep[e].st # "free"}
    /\ UNCHANGED <<taskVars, sliceVars, ep, cqOut, workVars, countVars, torn>>

DisconnectNext(e) ==
    /\ e \in doomed
    /\ disconnect(e, FALSE)
    /\ doomed' = doomed \ {e}
    /\ UNCHANGED <<taskVars, by, peer, on, retry, good, bad, active, workVars, countVars, events>>

Activate ==
    /\ doomed = {} /\ ~active
    /\ active' = TRUE
    /\ UNCHANGED <<taskVars, sliceVars, ep, cqOut, workVars, countVars, events, doomed, torn>>

(***************************************************************************)
(* MultiTransport::getTransferStatus, by the submitter.  A batch whose     *)
(* tasks are finished may be freed, slices included, at any time after.    *)
(***************************************************************************)
getTransferStatus(t) ==
    /\ sub[t] = "done" /\ ~finished[t]
    /\ good[t] + bad[t] = Cardinality(SlicesOf(t))
    /\ finished' = [finished EXCEPT ![t] = TRUE]
    /\ UNCHANGED <<sub, owed, sliceVars, hcaVars, workVars, countVars, events, doomed, torn>>

Work(w) == \/ Collect(w) \/ CollectRedispatch(w)
           \/ \E p \in Peer : Lookup(w, p) \/ Insert(w, p) \/ NoEndpoint(w, p) \/ Inactive(w, p)
           \/ Connect(w) \/ ConnectFails(w)
           \/ Window(w) \/ WindowClosed(w) \/ Send(w) \/ RoundEnd(w)
           \/ Poll(w) \/ Uncount(w) \/ Settle(w)
Client(t) == SubmitEnqueue(t) \/ SubmitCount(t) \/ getTransferStatus(t)
Adapter == \/ \E s \in Slice : Complete(s) \/ Flush(s)
           \/ \E e \in EndPoint : PassiveConnects(e) \/ PassiveHandshake(e) \/ QpFatal(e)
           \/ \E p \in Peer : PassiveInserts(p)
           \/ DeviceFails
Monitor == (\E e \in EndPoint : DisconnectNext(e)) \/ Activate
Next == (\E w \in Worker : Work(w)) \/ (\E t \in Task : Client(t)) \/ Adapter \/ Monitor
RdmaSpec == Init /\ [][Next]_vars

\* Threads run, the adapter completes what is posted, submitters go on.  A
\* subscript names variables of which every step of its action changes one.
FairRdmaSpec ==
    /\ RdmaSpec
    /\ \A w \in Worker : WF_<<pc, todo, stale>>(Work(w))
    /\ WF_at(\E s \in Slice : Complete(s) \/ Flush(s))
    /\ WF_<<sub, finished>>(\E t \in Task : SubmitCount(t) \/ getTransferStatus(t))
    /\ WF_<<doomed, active>>(Monitor)

(***************************************************************************)
(* Properties                                                              *)
(***************************************************************************)
Places == {"new", "queued", "local", "posted", "completed", "flushed", "lost",
           "success", "failed"}
Open == {s \in Slice : at[s] \in Places \ {"new", "success", "failed"}}
Owed == {s \in Slice : s \in owed[TaskOf[s]]}

\* Every variable keeps its type; a slice is tried MaxRetry times at most,
\* and a worker has an endpoint in hand exactly while it posts.
RdmaTypeOK ==
    /\ sub \in [Task -> {"no", "queued", "done"}] /\ owed \in [Task -> SUBSET Slice]
    /\ at \in [Slice -> Places] /\ by \in [Slice -> Worker] /\ peer \in [Slice -> Peer]
    /\ on \in [Slice -> EndPoint \cup {None}] /\ retry \in [Slice -> 0..MaxRetry]
    /\ good \in [Task -> 0..Cardinality(Slice)] /\ bad \in [Task -> 0..Cardinality(Slice)]
    /\ finished \in [Task -> BOOLEAN]
    /\ submitted \in 0..Cardinality(Slice) /\ processed \in 0..Cardinality(Slice)
    /\ ep \in [EndPoint -> [st : {"free", "mapped", "waiting"}, peer : Peer,
                            active : BOOLEAN, conn : BOOLEAN, depth : Int]]
    /\ cqOut \in Int /\ active \in BOOLEAN
    /\ pc \in [Worker -> {"loop", "post", "connect", "window", "send",
                          "poll", "uncount", "settle"}]
    /\ todo \in [Worker -> SUBSET Peer] /\ held \in [Worker -> EndPoint \cup {None}]
    /\ room \in [Worker -> 0..Cardinality(Slice)] /\ broken \in [Worker -> SUBSET Slice]
    /\ stale \in [Worker -> BOOLEAN]
    /\ polled \in [EndPoint -> 0..Cardinality(Slice)]
    /\ nrPoll \in 0..Cardinality(Slice) /\ gain \in 0..Cardinality(Slice)
    /\ doomed \subseteq EndPoint /\ torn \subseteq EndPoint /\ events \in 0..MaxEvents
    /\ \A w \in Worker : held[w] # None <=> pc[w] \in {"connect", "window", "send"}

\* No slice is forgotten or counted twice, whichever of its counters is
\* behind: the slices submitted are the ones processed and the ones still in
\* some queue.  So, once all calls of submitPostSend have returned, workers
\* go to sleep (processed = submitted) only when there is nothing left.  No
\* counter leaves its range, the retries of a slice included.
Conservation ==
    /\ RdmaTypeOK
    /\ submitted + Cardinality(Owed) = processed + gain + Cardinality(Open)
    /\ (\A t \in Task : sub[t] # "queued") /\ processed = submitted => Open = {}

\* A task is reported finished when each of its slices has succeeded or
\* failed, once, and then its slices are in nobody's hands: freeBatchID,
\* which waits for is_finished only, may delete them.
TaskCountsExact ==
    \A t \in Task :
       /\ good[t] = Cardinality({s \in SlicesOf(t) : at[s] = "success"})
       /\ bad[t] = Cardinality({s \in SlicesOf(t) : at[s] = "failed"})
       /\ finished[t] => /\ SlicesOf(t) \cap Open = {}
                                /\ \A w \in Worker : broken[w] \cap SlicesOf(t) = {}

\* wr_depth counts what is on the queue pair and never exceeds max_wr;
\* cq_outstanding counts what is on the completion queue, and exceeds
\* max_cqe by no more than what the other workers had in hand when it was
\* read.  Resets keep this, except one that comes between the poll of a
\* completion and its subtraction from wr_depth.
DepthExact ==
    /\ \A e \in EndPoint \ torn : /\ ep[e].depth = Cardinality(Wrs(e)) + polled[e]
                                  /\ ep[e].depth <= MaxWr
    /\ torn = {} => /\ cqOut = Cardinality(Posted) + nrPoll
                    /\ cqOut <= MaxCqe + (Cardinality(Worker) - 1) * MaxWr

\* An endpoint is destroyed only when nothing is posted on it and no
\* completion still has to be taken off its wr_depth, with the same exception.
NoUseAfterReclaim ==
    \A e \in EndPoint \ torn : ep[e].st = "free" => Wrs(e) = {} /\ polled[e] = 0

\* Every task that is submitted is reported finished, unless a slice of it
\* was on a queue pair when that was reset: such a slice is never completed.
\* (A task stays finished, so that all are, again and again, says each is.)
TasksFinish ==
    []<>(\A t \in Task : sub[t] = "done" =>
            finished[t] \/ \E s \in SlicesOf(t) : at[s] = "lost")
=============================================================================
