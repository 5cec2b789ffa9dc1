---------------------------- MODULE MooncakeStore ----------------------------
(***************************************************************************)
(* The store end to end: the threads of the clients (client.cpp) that put  *)
(* and get objects with one-sided transfers, the memory of the segments,   *)
(* and the master.  A transfer goes straight to the memory of a segment:   *)
(* the master does not see it and cannot stop it.                          *)
(*                                                                         *)
(* The value of an object is fixed by its key; slice i of object k is the  *)
(* value <<k, i>>.  The clients keep pinging, so segments are unmounted by *)
(* calls of UnmountSegment only.                                           *)
(***************************************************************************)
EXTENDS MasterService

CONSTANTS
  Proc,          \* threads of the clients
  Blank,         \* contents of a unit nobody has written
  PreferSameNode,      \* objects are read by BatchGet with prefer_alloc_in_same_node
  RemoveAllAnyTime     \* RemoveAll is called also while objects are being written

ASSUME CallsAssumption == PreferSameNode \in BOOLEAN /\ RemoveAllAnyTime \in BOOLEAN

VARIABLES
  mem,           \* contents of the units of each segment
  op             \* the operation each thread has under way

storeVars == <<mem, op>>

\* A transfer moves the slice val to or from the buffer buf.
Idle == [kind |-> "idle"]

PutOp(k, todo) == [kind |-> "put", key |-> k, todo |-> todo]

QueryOp(k) == [kind |-> "query", key |-> k, ttl |-> LeaseTTL]

GetOp(k, todo, ttl, good) ==
  [kind |-> "get", key |-> k, todo |-> todo, ttl |-> ttl, good |-> good]

ReturnedOp(good) == [kind |-> "returned", good |-> good]

\* The transfers of the slices of object k to or from replica r.
Transfers(k, r) == {[buf |-> r.bufs[i], val |-> <<k, i>>] : i \in DOMAIN r.bufs}

\* Types of the memory and of the operations: a unit is blank or holds a slice of
\* some object, and transfers go to buffers of segments.
StoreTypeOK ==
  /\ TypeOK
  /\ \A s \in Segment, u \in Slot :
        mem[s][u] = Blank \/ (mem[s][u][1] \in Key /\ mem[s][u][2] \in Nat \ {0})
  /\ \A p \in Proc :
        /\ op[p].kind \in {"idle", "put", "query", "get", "returned"}
        /\ op[p].kind \in {"put", "get"} => \A w \in op[p].todo : w.buf \in Buffer
        /\ op[p].kind \in {"query", "get"} => op[p].ttl \in 0 .. LeaseTTL

StoreInit ==
  /\ Init
  /\ mem = [s \in Segment |-> [u \in Slot |-> Blank]]
  /\ op = [p \in Proc |-> Idle]

Become(p, o) == op' = [op EXCEPT ![p] = o]

\* A call on a key the master does not find.
NotFound(k) == AccessorMiss(k) \/ (k \notin objects /\ UNCHANGED vars)

-----------------------------------------------------------------------------
(* Client::Put: PutStart, the transfers, then PutEnd or PutRevoke.          *)

PutBegin(p, k) ==
  /\ op[p] = Idle
  /\ \E n \in SliceNums, rn \in ReplicaNums, soft \in SoftPins :
        \E M \in Allocate(FreeBuffers(k), n, rn) :
           /\ PutStart(k, M, soft)
           /\ Become(p, PutOp(k, UNION {Transfers(k, r) : r \in M}))
  /\ UNCHANGED mem

\* OBJECT_ALREADY_EXISTS counts as success, NO_AVAILABLE_HANDLE as failure; both
\* end the operation.
PutRefused(p, k) ==
  /\ op[p] = Idle
  /\ PutStartExists(k) \/ PutStartNoSpace(k)
  /\ UNCHANGED storeVars

TransferWrite(p) ==
  /\ op[p].kind = "put"
  /\ \E w \in op[p].todo :
        /\ mem' = [mem EXCEPT ![w.buf.seg][w.buf.slot] = w.val]
        /\ Become(p, PutOp(op[p].key, op[p].todo \ {w}))
  /\ UNCHANGED vars

PutFinish(p) ==
  /\ op[p].kind = "put" /\ op[p].todo = {}
  /\ PutEnd(op[p].key, "MEMORY") \/ NotFound(op[p].key)
  /\ Become(p, Idle)
  /\ UNCHANGED mem

\* Mutant: a failed transfer is reported as a success.
PutFailCompletes(p) ==
  /\ op[p].kind = "put" /\ op[p].todo # {}
  /\ PutEnd(op[p].key, "MEMORY")
  /\ Become(p, Idle)
  /\ UNCHANGED mem

\* A transfer failed; nothing of it is still under way.
PutFail(p) ==
  /\ op[p].kind = "put" /\ op[p].todo # {}
  /\ PutRevoke(op[p].key, "MEMORY") \/ NotFound(op[p].key)
  /\ Become(p, Idle)
  /\ UNCHANGED mem

-----------------------------------------------------------------------------
(* Client::Query and Client::Get.  The deadline of the reader starts when    *)
(* the query is sent, before the master grants the lease.                    *)

Query(p, k) ==
  /\ op[p] = Idle
  /\ Become(p, QueryOp(k))
  /\ UNCHANGED <<vars, mem>>

\* Mutant: the reader takes any replica, complete or not.
QueryReplyAny(p) ==
  /\ op[p].kind = "query"
  /\ \/ /\ GetReplicaList(op[p].key)
        /\ \E r \in CleanReplicas(op[p].key) :
              Become(p, GetOp(op[p].key, Transfers(op[p].key, r), op[p].ttl, TRUE))
     \/ NotFound(op[p].key) /\ Become(p, Idle)
  /\ UNCHANGED mem

\* The reader takes a complete replica out of the answer.
QueryReply(p) ==
  LET k == op[p].key
      R == CompleteReplicas(CleanReplicas(k))
  IN  /\ op[p].kind = "query"
      /\ \/ /\ GetReplicaList(k)
            /\ \/ \E r \in R : Become(p, GetOp(k, Transfers(k, r), op[p].ttl, TRUE))
               \/ R = {} /\ Become(p, Idle)
         \/ NotFound(k) /\ Become(p, Idle)
      /\ UNCHANGED mem

TransferRead(p) ==
  /\ op[p].kind = "get"
  /\ \E w \in op[p].todo :
        Become(p, GetOp(op[p].key, op[p].todo \ {w}, op[p].ttl,
                        op[p].good /\ mem[w.buf.seg][w.buf.slot] = w.val))
  /\ UNCHANGED <<vars, mem>>

\* Mutant: the lease is not looked at.
ReturnsAlways(ttl) == TRUE

\* Get and BatchGet return the data if the lease has not run out meanwhile;
\* BatchGetWhenPreferSameNode returns it in any case.
ReturnsData(ttl) == PreferSameNode \/ ttl > 0

GetReturn(p) ==
  /\ op[p].kind = "get" /\ op[p].todo = {}
  /\ Become(p, IF ReturnsData(op[p].ttl) THEN ReturnedOp(op[p].good) ELSE Idle)
  /\ UNCHANGED <<vars, mem>>

\* The caller has its data, or the thread dies and leaves everything behind.
Abandon(p) ==
  /\ op[p] # Idle
  /\ Become(p, Idle)
  /\ UNCHANGED <<vars, mem>>

-----------------------------------------------------------------------------

StoreTick ==
  /\ Tick
  /\ op' = [p \in Proc |->
        CASE op[p].kind = "query" -> [op[p] EXCEPT !.ttl = Elapse(@)]
          [] op[p].kind = "get"   -> [op[p] EXCEPT !.ttl = Elapse(@)]
          [] OTHER                -> op[p]]
  /\ UNCHANGED mem

ProcNext(p) ==
  \/ \E k \in Key : PutBegin(p, k) \/ PutRefused(p, k) \/ Query(p, k)
  \/ TransferWrite(p) \/ PutFinish(p) \/ PutFail(p)
  \/ QueryReply(p) \/ TransferRead(p) \/ GetReturn(p)
  \/ Abandon(p)

MayRemoveAll == RemoveAllAnyTime \/ \A p \in Proc : op[p].kind # "put"

\* The calls and threads that do not belong to an operation under way.
MasterNext ==
  \/ \E k \in Key : Remove(k)
  \/ \E sh \in Shard : \E gone \in SUBSET KeysOf(sh) :
        \/ MayRemoveAll /\ RemoveAll(sh, gone)
        \/ EvictShard(sh, gone)
  \/ \E sh \in Shard : HoldNext(sh)
  \/ EvictStart \/ EvictSecondPass \/ EvictEnd
  \/ \E s \in Segment : MountSegment(s) \/ \E t \in Worker : PrepareUnmount(t, s)
  \/ \E t \in Worker : UnmountNext(t)

StoreNext ==
  \/ \E p \in Proc : ProcNext(p)
  \/ MasterNext /\ UNCHANGED storeVars
  \/ StoreTick

StoreSpec == StoreInit /\ [][StoreNext]_<<vars, storeVars>>

-----------------------------------------------------------------------------

\* A Get that succeeds returns the data of its object: "Get operations always
\* return correct and complete data" (design document of the store).
ReadIntegrity == \A p \in Proc : op[p].kind = "returned" => op[p].good

\* Whatever is still to be written by a Put goes to units that the master keeps
\* for that object, so it cannot damage another one.
WriteSafe ==
  \A p \in Proc : op[p].kind = "put" =>
    \A w \in op[p].todo : Valid(w.buf) => w.buf \in Bufs(replicas[op[p].key])

\* A replica that the master reports as complete holds the data of its object,
\* and memory and operations keep their types.
CompleteIsWritten ==
  /\ StoreTypeOK
  /\ \A k \in Key : \A r \in CompleteReplicas(replicas[k]) :
       (\A b \in BufsOf(r) : Valid(b)) =>
         \A w \in Transfers(k, r) : mem[w.buf.seg][w.buf.slot] = w.val

-----------------------------------------------------------------------------
(* The objects and calls of ObjectStore, as the metadata and the threads     *)
(* have them.  A query that is not answered yet has not begun.               *)

StateOf == [k \in Key |-> IF ~Found(k) THEN "absent"
                          ELSE IF CompleteReplicas(CleanReplicas(k)) = {} THEN "reserved"
                          ELSE "readable"]

CallOf == [p \in Proc |->
  CASE op[p].kind \in {"put", "get"} -> [kind |-> op[p].kind, key |-> op[p].key]
    [] op[p].kind = "returned" -> [kind |-> "data"]
    [] OTHER -> Idle]

Abstract == INSTANCE ObjectStore WITH state <- StateOf, call <- CallOf

\* Master, clients and memory together keep the promise of ObjectStore: a key is
\* given to one writer at a time (PutStart), only that writer's PutEnd makes it
\* readable, and an object once readable never goes back to being written.  This
\* is for segments that are mounted once: a segment that is mounted again while a
\* Put of its earlier life is under way gives the key a second writer, whom the
\* PutEnd of the first can complete.
ImplementsObjectStore == Abstract!ObjectStoreSpec
=============================================================================
