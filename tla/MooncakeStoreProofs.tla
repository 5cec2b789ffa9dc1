------------------------- MODULE MooncakeStoreProofs -------------------------
(***************************************************************************)
(* Safety of MooncakeStore for every number of threads, keys, segments and *)
(* replicas: the transfers of the clients and the metadata of the master   *)
(* together.  The invariant ties each thread to the metadata: a Put under  *)
(* way owns the replicas of its key, all of them unfinished, and a Get     *)
(* whose deadline has not passed reads a complete replica under lease.     *)
(*                                                                         *)
(* It holds while no allocator has been destroyed, and once none is left:  *)
(* an unmount while other segments are in use can give the units of a Put  *)
(* under way to another object (the run of MCStoreStalePut).               *)
(***************************************************************************)
EXTENDS MooncakeStore, MasterServiceProofs

\* No segment has been mounted twice and no allocator has been destroyed: those
\* of segments that are being unmounted are still held by some call.
Fresh ==
  \A s \in Segment : /\ mounts[s] <= 1
                     /\ mounts[s] = 1 => Alive([seg |-> s, gen |-> 1])

\* There is no allocator.
Ended == (\A s \in Segment : bufAllocator[s] = 0) /\ holders = {}

Settled == Fresh \/ Ended

\* Types of the operations and of the memory.
Value == Key \X (Nat \ {0})

Transfer == [buf : Buffer, val : Value]

PutOps == [kind : {"put"}, key : Key, todo : SUBSET Transfer]
QueryOps == [kind : {"query"}, key : Key, ttl : 0 .. LeaseTTL]
GetOps == [kind : {"get"}, key : Key, todo : SUBSET Transfer, ttl : 0 .. LeaseTTL,
           good : BOOLEAN]
ReturnedOps == [kind : {"returned"}, good : BOOLEAN]

OpTypeOK == op \in [Proc -> {Idle} \cup PutOps \cup QueryOps \cup GetOps \cup ReturnedOps]

MemTypeOK == mem \in [Segment -> [Slot -> {Blank} \cup Value]]

-----------------------------------------------------------------------------

Writing(p) == op[p].kind = "put"

\* A Get whose lease has not run out.
Reading(p) == op[p].kind = "get" /\ op[p].ttl > 0

MemAt(b) == mem[b.seg][b.slot]

SameUnit(b, c) == b.seg = c.seg /\ b.slot = c.slot

\* What a reader has read and will read is right, and whoever has its data has
\* the right data.
ReadersGood ==
  /\ \A p \in Proc : Reading(p) => op[p].good
  /\ ReadIntegrity

ReadersRight == \A p \in Proc : Reading(p) => \A w \in op[p].todo : MemAt(w.buf) = w.val

\* No writer has a unit before it that a reader will read.
Apart ==
  \A p, q \in Proc : Reading(p) /\ Writing(q) =>
    \A w \in op[p].todo, v \in op[q].todo : ~SameUnit(w.buf, v.buf)

TodoGen == \A p \in Proc : Writing(p) => \A w \in op[p].todo : w.buf.gen > 0

\* While no allocator has been destroyed: an entry has a replica, ...
NonEmpty == \A k \in objects : replicas[k] # {}

\* ... a writer owns the replicas of its key and is the only one, ...
WritersOwn ==
  \A p \in Proc : Writing(p) =>
    /\ op[p].key \in objects
    /\ \A r \in replicas[op[p].key] : r.status = "PROCESSING"
    /\ \A w \in op[p].todo : \E r \in replicas[op[p].key] : w \in Transfers(op[p].key, r)
    /\ \A r \in replicas[op[p].key] : \A w \in Transfers(op[p].key, r) :
          w \in op[p].todo \/ MemAt(w.buf) = w.val
    /\ \A q \in Proc : Writing(q) /\ op[q].key = op[p].key => q = p

\* ... a reader reads a complete replica under lease, ...
ReadersLeased ==
  \A p \in Proc : Reading(p) =>
    /\ lease[op[p].key] >= op[p].ttl
    /\ \E r \in CompleteReplicas(replicas[op[p].key]) :
          op[p].todo \subseteq Transfers(op[p].key, r)

\* ... and complete replicas are written.
Written ==
  \A k \in Key : \A r \in CompleteReplicas(replicas[k]) : \A w \in Transfers(k, r) :
    MemAt(w.buf) = w.val

FreshInv == NonEmpty /\ WritersOwn /\ ReadersLeased /\ Written

StoreInv ==
  /\ UnitInv
  /\ OpTypeOK
  /\ MemTypeOK
  /\ ReadersRight
  /\ Apart
  /\ TodoGen
  /\ Fresh => FreshInv

-----------------------------------------------------------------------------
(* Operations and memory.                                                   *)

\* The fields of an operation.
LEMMA OpFields ==
  ASSUME OpTypeOK, NEW p \in Proc
  PROVE  /\ op[p].kind \in {"idle", "put", "query", "get", "returned"}
         /\ op[p].kind = "put" => op[p] \in PutOps
         /\ op[p].kind = "query" => op[p] \in QueryOps
         /\ op[p].kind = "get" => op[p] \in GetOps
         /\ op[p].kind = "returned" => op[p] \in ReturnedOps
         /\ op[p].kind = "idle" => op[p] = Idle
BY DEF OpTypeOK, PutOps, QueryOps, GetOps, ReturnedOps, Idle

\* The transfers of a replica.
LEMMA TransferOf ==
  ASSUME NEW k, NEW r, NEW w
  PROVE  w \in Transfers(k, r) <=>
           \E i \in DOMAIN r.bufs : w = [buf |-> r.bufs[i], val |-> <<k, i>>]
BY DEF Transfers

\* They are typed and go to the buffers of the replica.
LEMMA TransferType ==
  ASSUME TypeOK, NEW k \in Key, NEW r \in ReplicaSet, NEW w \in Transfers(k, r)
  PROVE  w \in Transfer /\ w.buf \in BufsOf(r)
<1>1. PICK i \in DOMAIN r.bufs : w = [buf |-> r.bufs[i], val |-> <<k, i>>]
  BY TransferOf
<1>2. r.bufs \in Seq(Buffer)
  BY DEF ReplicaSet
<1>3. r.bufs[i] \in Buffer /\ i \in Nat \ {0}
  BY <1>1, <1>2
<1> QED BY <1>1, <1>3 DEF Transfer, Value, BufsOf

\* The same for a replica of the metadata.
LEMMA HeldTransfer ==
  ASSUME TypeOK, NEW k \in Key, NEW r \in replicas[k], NEW w \in Transfers(k, r)
  PROVE  w \in Transfer /\ w.buf \in Buffer /\ w.buf \in Bufs(replicas[k])
<1>1. r \in ReplicaSet
  BY DEF TypeOK, ObjectTypeOK
<1>2. w \in Transfer /\ w.buf \in BufsOf(r)
  BY <1>1, TransferType
<1> QED BY <1>2 DEF Transfer, Bufs

\* A write changes one unit.
LEMMA WriteOne ==
  ASSUME MemTypeOK, NEW w \in Transfer, NEW b \in Buffer,
         mem' = [mem EXCEPT ![w.buf.seg][w.buf.slot] = w.val]
  PROVE  MemAt(b)' = IF SameUnit(b, w.buf) THEN w.val ELSE MemAt(b)
BY DEF MemTypeOK, Transfer, Buffer, MemAt, SameUnit

-----------------------------------------------------------------------------
(* While no allocator has been destroyed.                                   *)

\* Every handle is valid.
LEMMA FreshValid ==
  ASSUME UnitInv, Fresh, NEW k \in Key, NEW b \in Bufs(replicas[k])
  PROVE  Valid(b)
<1>1. HandleInv /\ GenKnown /\ TypeOK
  BY DEF UnitInv, HandleInv, SegmentInv
<1>2. b.seg \in Segment /\ b.gen \in Nat \ {0}
  BY <1>1, ValidOK
<1>3. b.gen <= mounts[b.seg] /\ mounts[b.seg] \in Nat /\ mounts[b.seg] <= 1
  BY <1>1, <1>2 DEF GenKnown, Fresh, TypeOK, SegmentTypeOK
<1>4. b.gen = 1 /\ mounts[b.seg] = 1
  BY <1>2, <1>3
<1> QED BY <1>2, <1>4 DEF Fresh, Valid, AllocatorFor

\* It comes from the first allocator of its segment.
LEMMA FreshFirst ==
  ASSUME UnitInv, Fresh, NEW k \in Key, NEW b \in Bufs(replicas[k])
  PROVE  b.gen = 1
<1>1. HandleInv /\ GenKnown /\ TypeOK
  BY DEF UnitInv, HandleInv, SegmentInv
<1>2. b.seg \in Segment /\ b.gen \in Nat \ {0}
  BY <1>1, ValidOK
<1>3. b.gen <= mounts[b.seg] /\ mounts[b.seg] \in Nat /\ mounts[b.seg] <= 1
  BY <1>1, <1>2 DEF GenKnown, Fresh, TypeOK, SegmentTypeOK
<1> QED BY <1>2, <1>3

\* So CleanupStaleHandles finds nothing to do.
LEMMA FreshClean ==
  ASSUME UnitInv, Fresh, NEW k \in Key
  PROVE  CleanReplicas(k) = replicas[k] /\ (Found(k) <=> k \in objects /\ replicas[k] # {})
<1>1. \A r \in replicas[k] : ~HasInvalidMemHandle(r)
  BY FreshValid DEF HasInvalidMemHandle, Bufs
<1> QED BY <1>1 DEF CleanReplicas, Found

\* A unit is in one slice of one replica of one object.
LEMMA FreshExclusive ==
  ASSUME UnitInv, Fresh, NEW j \in Key, NEW k \in Key, NEW r \in replicas[j], NEW q \in replicas[k],
         NEW v \in Transfers(j, r), NEW w \in Transfers(k, q), SameUnit(v.buf, w.buf)
  PROVE  j = k /\ r = q /\ v = w
<1>1. TypeOK /\ HandleInv /\ BufferExclusive
  BY DEF UnitInv, HandleInv, SegmentInv
<1>2. PICK i \in DOMAIN r.bufs : v = [buf |-> r.bufs[i], val |-> <<j, i>>]
  BY TransferOf
<1>3. PICK m \in DOMAIN q.bufs : w = [buf |-> q.bufs[m], val |-> <<k, m>>]
  BY TransferOf
<1>4. v.buf \in Bufs(replicas[j]) /\ w.buf \in Bufs(replicas[k])
  BY <1>1, HeldTransfer
<1>5. v.buf.gen = 1 /\ w.buf.gen = 1 /\ v.buf \in Buffer /\ w.buf \in Buffer
  BY <1>1, <1>4, FreshFirst, HeldTransfer
<1>6. v.buf = w.buf
  BY <1>5 DEF SameUnit, Buffer
<1>7. r.bufs[i] = q.bufs[m]
  BY <1>2, <1>3, <1>6
<1>8. j = k /\ r = q /\ i = m
  BY <1>1, <1>7 DEF BufferExclusive
<1> QED BY <1>2, <1>3, <1>8

\* Readers and writers are apart, and what is read is right.
LEMMA FreshReaders ==
  UnitInv /\ OpTypeOK /\ Fresh /\ FreshInv => ReadersRight /\ Apart
<1> SUFFICES ASSUME UnitInv, OpTypeOK, Fresh, FreshInv PROVE ReadersRight /\ Apart
  OBVIOUS
<1>1. ASSUME NEW p \in Proc, Reading(p)
      PROVE  op[p].key \in Key /\ \A w \in op[p].todo : MemAt(w.buf) = w.val
  <2>1. op[p].key \in Key
    BY <1>1, OpFields DEF Reading, GetOps
  <2> QED BY <1>1, <2>1 DEF FreshInv, ReadersLeased, Written
<1>2. ASSUME NEW p \in Proc, NEW q \in Proc, Reading(p), Writing(q),
             NEW w \in op[p].todo, NEW v \in op[q].todo, SameUnit(w.buf, v.buf)
      PROVE  FALSE
  <2>1. op[p].key \in Key /\ op[q].key \in Key
    BY <1>2, OpFields DEF Reading, Writing, GetOps, PutOps
  <2>2. PICK r \in CompleteReplicas(replicas[op[p].key]) : w \in Transfers(op[p].key, r)
    BY <1>2 DEF FreshInv, ReadersLeased
  <2>3. PICK x \in replicas[op[q].key] : v \in Transfers(op[q].key, x) /\ x.status = "PROCESSING"
    BY <1>2 DEF FreshInv, WritersOwn
  <2>4. r \in replicas[op[p].key] /\ r.status = "COMPLETE"
    BY <2>2 DEF CompleteReplicas
  <2>5. r = x
    BY <1>2, <2>1, <2>2, <2>3, <2>4, FreshExclusive
  <2> QED BY <2>3, <2>4, <2>5
<1>3. Apart
  BY <1>2 DEF Apart
<1> QED BY <1>1, <1>3 DEF ReadersRight

-----------------------------------------------------------------------------
(* The steps as the master and the threads see them.                        *)

\* To the master every step of the store is one of its own, or none.
LEMMA MasterStep ==
  ASSUME OpTypeOK, [StoreNext]_<<vars, storeVars>>
  PROVE  [Next]_vars
<1>1. ASSUME NEW k \in Key, NotFound(k) PROVE [Next]_vars
  BY <1>1 DEF NotFound, Next, KeyNext
<1>2. ASSUME NEW p \in Proc, ProcNext(p) PROVE [Next]_vars
  <2>1. op[p].kind \in {"put", "query", "get"} => op[p].key \in Key
    BY OpFields DEF PutOps, QueryOps, GetOps
  <2>2. ASSUME NEW k \in Key, PutBegin(p, k) PROVE [Next]_vars
    BY <2>2 DEF PutBegin, Next, KeyNext
  <2>3. ASSUME NEW k \in Key, PutRefused(p, k) PROVE [Next]_vars
    BY <2>3 DEF PutRefused, Next, KeyNext
  <2>4. CASE PutFinish(p)
    BY <1>1, <2>1, <2>4 DEF PutFinish, Next, KeyNext, ReplicaType
  <2>5. CASE PutFail(p)
    BY <1>1, <2>1, <2>5 DEF PutFail, Next, KeyNext, ReplicaType
  <2>6. CASE QueryReply(p)
    BY <1>1, <2>1, <2>6 DEF QueryReply, Next, KeyNext
  <2>7. CASE \/ TransferWrite(p) \/ TransferRead(p) \/ GetReturn(p) \/ Abandon(p)
             \/ \E k \in Key : Query(p, k)
    BY <2>7 DEF TransferWrite, TransferRead, GetReturn, Abandon, Query
  <2> QED BY <1>2, <2>2, <2>3, <2>4, <2>5, <2>6, <2>7 DEF ProcNext
<1>3. CASE MasterNext
  BY <1>3 DEF MasterNext, Next, KeyNext, ShardNext, Thread
<1>4. CASE StoreTick
  BY <1>4 DEF StoreTick, Next
<1> QED BY <1>2, <1>3, <1>4 DEF StoreNext

\* What a step of the master does to the allocators.
LEMMA AllocatorsMove ==
  ASSUME SegmentInv, [Next]_vars, NEW s \in Segment
  PROVE  \/ mounts'[s] = mounts[s] /\ bufAllocator'[s] \in {0, bufAllocator[s]}
         \/ mounts'[s] = mounts[s] + 1
<1>1. CASE \/ \E k \in Key : KeyNext(k)
           \/ \E sh \in Shard : ShardNext(sh)
           \/ EvictStart \/ EvictSecondPass \/ EvictEnd
           \/ Tick
           \/ \E sh \in Shard : HoldNext(sh)
  BY <1>1, ObjectFrame, HoldFrame DEF segmentVars, registryVars
<1>2. CASE \/ (\E t \in Thread : UnmountNext(t))
           \/ (\E x \in Segment : MountSegment(x) \/ \E t \in Worker : PrepareUnmount(t, x))
           \/ (\E c \in Client : ClientNext(c))
           \/ MonitorScan \/ MonitorExpire \/ UNCHANGED vars
  BY <1>2, ZenonT(60) DEF UnmountNext, ClearInvalidHandles, CommitUnmount, CommitUnmountSegments,
     MountSegment, MountSegments, PrepareUnmount, PrepareUnmountSegments, ClientNext, Ping,
     ReMountSegment, MonitorScan, MonitorExpire, segmentVars, registryVars, vars
<1> QED BY <1>1, <1>2 DEF Next

\* When there is no allocator nobody gets hold of one.
LEMMA EndedHolds ==
  ASSUME HandleInv, [Next]_vars, Ended
  PROVE  holders' = {}
<1>0. holders = {}
  BY DEF Ended
<1>1. CASE \/ \E k \in Key : KeyNext(k)
           \/ \E sh \in Shard : ShardNext(sh)
           \/ EvictStart \/ EvictSecondPass \/ EvictEnd
           \/ Tick
  BY <1>0, <1>1, ObjectFrame DEF segmentVars
<1>2. CASE \/ (\E t \in Thread : UnmountNext(t))
           \/ (\E x \in Segment : MountSegment(x) \/ \E t \in Worker : PrepareUnmount(t, x))
           \/ (\E c \in Client : ClientNext(c))
           \/ MonitorScan \/ MonitorExpire \/ UNCHANGED vars
  BY <1>0, <1>2, ZenonT(60) DEF UnmountNext, ClearInvalidHandles, CommitUnmount,
     CommitUnmountSegments, MountSegment, MountSegments, PrepareUnmount, PrepareUnmountSegments,
     ClientNext, Ping, ReMountSegment, MonitorScan, MonitorExpire, segmentVars, vars
<1>3. ASSUME NEW sh \in Shard, HoldNext(sh) PROVE holders' = {}
  <2>1. CASE DropAllocator(sh)
    BY <1>0, <2>1 DEF DropAllocator
  <2>2. WithinReach(sh) = {}
    <3>1. ASSUME NEW k \in Key, NEW b \in Bufs(replicas[k]), Valid(b) PROVE FALSE
      <4>1. b.seg \in Segment /\ b.gen \in Nat \ {0}
        BY <3>1, ValidOK
      <4> QED BY <3>1, <4>1 DEF Valid, Alive, AllocatorFor, Ended
    <3>2. ASSUME NEW a \in allocators PROVE FALSE
      <4>1. SegmentInv
        BY DEF HandleInv
      <4>2. PICK x \in Segment : status[x] = "OK"
        BY <4>1 DEF SegmentInv, SegmentsConsistent
      <4> QED BY <4>1, <4>2 DEF SegmentInv, SegmentsConsistent, MountsPositive, Ended
    <3> QED BY <3>1, <3>2 DEF WithinReach, KeysOf
  <2>3. CASE HoldAllocator(sh)
    BY <2>2, <2>3 DEF HoldAllocator
  <2> QED BY <1>3, <2>1, <2>3 DEF HoldNext
<1> QED BY <1>1, <1>2, <1>3 DEF Next

\* No allocator has been destroyed after a step only if none had been before it.
LEMMA FreshBefore ==
  ASSUME HandleInv, [Next]_vars, Settled, Fresh'
  PROVE  Fresh
<1> SUFFICES ASSUME Ended PROVE Fresh
  BY DEF Settled
<1>0. SegmentInv /\ holders' = {}
  BY EndedHolds DEF HandleInv
<1>1. ASSUME NEW s \in Segment PROVE mounts[s] = 0
  <2>1. mounts[s] \in Nat /\ bufAllocator[s] = 0
    BY <1>0 DEF SegmentInv, TypeOK, SegmentTypeOK, Ended
  <2>2. mounts'[s] <= 1 /\ (mounts'[s] = 1 => bufAllocator'[s] = 1)
    BY <1>0 DEF Fresh, Alive
  <2>3. CASE mounts'[s] = mounts[s] /\ bufAllocator'[s] \in {0, bufAllocator[s]}
    BY <2>1, <2>2, <2>3
  <2>4. CASE mounts'[s] = mounts[s] + 1
    BY <2>1, <2>2, <2>4
  <2> QED BY <1>0, <2>3, <2>4, AllocatorsMove
<1>2. \A s \in Segment : mounts[s] <= 1 /\ ~(mounts[s] = 1)
  BY <1>1
<1> QED BY <1>2 DEF Fresh

\* Without allocators nothing is allocated.
LEMMA EndedAllocatesNothing ==
  ASSUME SegmentInv, Ended, NEW k \in Key, NEW n \in SliceNums, NEW rn \in ReplicaNums
  PROVE  Allocate(FreeBuffers(k), n, rn) = {}
<1>1. FreeBuffers(k) = {}
  <2> SUFFICES ASSUME NEW b \in FreeBuffers(k) PROVE FALSE
    OBVIOUS
  <2> QED BY FreeValid DEF Current, Ended
<1> SUFFICES ASSUME NEW M \in Allocate({}, n, rn) PROVE FALSE
  BY <1>1
<1>2. PICK m \in 1 .. rn : \E A \in Placements({}, n, m) : TRUE
  BY DEF Allocate
<1>3. PICK A \in [1 .. m -> [1 .. n -> {}]] : TRUE
  BY <1>2 DEF Placements
<1>4. 1 \in 1 .. m /\ 1 \in 1 .. n
  BY ConfigAssumption
<1> QED BY <1>3, <1>4

\* Nor is there a replica to read from.
LEMMA EndedReadsNothing ==
  ASSUME HandleInv, Ended, NEW k \in Key, NEW r \in CleanReplicas(k)
  PROVE  Transfers(k, r) = {}
<1> SUFFICES ASSUME NEW w \in Transfers(k, r) PROVE FALSE
  OBVIOUS
<1>1. TypeOK /\ r \in replicas[k] /\ ~HasInvalidMemHandle(r)
  BY DEF CleanReplicas, HandleInv, SegmentInv
<1>2. r \in ReplicaSet
  BY <1>1 DEF TypeOK, ObjectTypeOK
<1>3. w.buf \in BufsOf(r) /\ w.buf \in Bufs(replicas[k])
  BY <1>1, <1>2, TransferType, HeldTransfer
<1>4. Valid(w.buf) /\ w.buf.seg \in Segment /\ w.buf.gen \in Nat \ {0}
  BY <1>1, <1>3, ValidOK DEF HasInvalidMemHandle
<1> QED BY <1>4 DEF Valid, Alive, AllocatorFor, Ended

-----------------------------------------------------------------------------
(* The operations of the threads.                                           *)

\* A thread replaces its own operation.
LEMMA BecomeOne ==
  ASSUME OpTypeOK, NEW p \in Proc, NEW o, Become(p, o)
  PROVE  op'[p] = o /\ \A q \in Proc \ {p} : op'[q] = op[q]
BY DEF OpTypeOK, Become

\* Types of the operations are kept if the new operation has its type.
LEMMA BecomeType ==
  ASSUME OpTypeOK, NEW p \in Proc,
         NEW o \in {Idle} \cup PutOps \cup QueryOps \cup GetOps \cup ReturnedOps, Become(p, o)
  PROVE  OpTypeOK'
BY DEF OpTypeOK, Become

\* What time does to an operation.
LEMMA TickOps ==
  ASSUME OpTypeOK, StoreTick, NEW p \in Proc
  PROVE  /\ op'[p].kind = op[p].kind
         /\ op[p].kind \notin {"query", "get"} => op'[p] = op[p]
         /\ op[p].kind = "query" => op'[p] = [op[p] EXCEPT !.ttl = Elapse(@)]
         /\ op[p].kind = "get" => op'[p] = [op[p] EXCEPT !.ttl = Elapse(@)]
<1>1. op[p].kind = "query" => op'[p] = [op[p] EXCEPT !.ttl = Elapse(@)]
  BY DEF StoreTick
<1>2. op[p].kind = "get" => op'[p] = [op[p] EXCEPT !.ttl = Elapse(@)]
  BY DEF StoreTick
<1>3. op[p].kind \notin {"query", "get"} => op'[p] = op[p]
  BY DEF StoreTick
<1>4. op[p].kind = "query" => op'[p].kind = "query"
  BY <1>1, OpFields DEF QueryOps
<1>5. op[p].kind = "get" => op'[p].kind = "get"
  BY <1>2, OpFields DEF GetOps
<1> QED BY <1>1, <1>2, <1>3, <1>4, <1>5

\* A Get has a unit of time less.
LEMMA TickGet ==
  ASSUME OpTypeOK, StoreTick, NEW p \in Proc, op[p].kind = "get"
  PROVE  /\ op'[p].kind = "get" /\ op'[p].key = op[p].key /\ op'[p].todo = op[p].todo
         /\ op'[p].good = op[p].good
         /\ op[p].ttl \in Nat /\ op'[p].ttl = Elapse(op[p].ttl)
<1>1. op[p] \in GetOps
  BY OpFields
<1>2. op'[p] = [op[p] EXCEPT !.ttl = Elapse(op[p].ttl)]
  BY TickOps
<1>3. op[p].ttl \in Nat
  BY <1>1, TimeAssumption DEF GetOps
<1> QED BY <1>1, <1>2, <1>3 DEF GetOps

\* Types of the operations and of the memory.
LEMMA StoreTypes ==
  ASSUME TypeOK, OpTypeOK, MemTypeOK, [StoreNext]_<<vars, storeVars>>
  PROVE  OpTypeOK' /\ MemTypeOK'
<1> DEFINE Ops == {Idle} \cup PutOps \cup QueryOps \cup GetOps \cup ReturnedOps
<1>1. ASSUME NEW p \in Proc, ProcNext(p) PROVE OpTypeOK' /\ MemTypeOK'
  <2>0. Idle \in Ops
    OBVIOUS
  <2>1. ASSUME NEW k \in Key, PutBegin(p, k) PROVE OpTypeOK' /\ MemTypeOK'
    <3>a. PICK n \in SliceNums, rn \in ReplicaNums : \E M \in Allocate(FreeBuffers(k), n, rn) :
            Become(p, PutOp(k, UNION {Transfers(k, r) : r \in M}))
      BY <2>1 DEF PutBegin
    <3>1. PICK M \in Allocate(FreeBuffers(k), n, rn) :
            Become(p, PutOp(k, UNION {Transfers(k, r) : r \in M}))
      BY <3>a
    <3>2. M \in SUBSET ReplicaSet
      BY AllocateType, FreeType, ConfigAssumption DEF TypeOK
    <3>3. \A r \in M : Transfers(k, r) \subseteq Transfer
      BY <3>2, TransferType
    <3>4. PutOp(k, UNION {Transfers(k, r) : r \in M}) \in PutOps
      BY <3>3 DEF PutOp, PutOps
    <3> QED BY <2>1, <3>1, <3>4, BecomeType DEF PutBegin, MemTypeOK
  <2>2. ASSUME NEW k \in Key, Query(p, k) PROVE OpTypeOK' /\ MemTypeOK'
    <3>1. QueryOp(k) \in QueryOps
      BY TimeAssumption DEF QueryOp, QueryOps
    <3> QED BY <2>2, <3>1, BecomeType DEF Query, MemTypeOK
  <2>3. ASSUME NEW k \in Key, PutRefused(p, k) PROVE OpTypeOK' /\ MemTypeOK'
    BY <2>3 DEF PutRefused, storeVars, OpTypeOK, MemTypeOK
  <2>4. CASE TransferWrite(p)
    <3>1. PICK w \in op[p].todo : /\ mem' = [mem EXCEPT ![w.buf.seg][w.buf.slot] = w.val]
                                  /\ Become(p, PutOp(op[p].key, op[p].todo \ {w}))
      BY <2>4 DEF TransferWrite
    <3>2. op[p] \in PutOps
      BY <2>4, OpFields DEF TransferWrite
    <3>3. w \in Transfer /\ PutOp(op[p].key, op[p].todo \ {w}) \in PutOps
      BY <3>2 DEF PutOp, PutOps
    <3>4. OpTypeOK'
      BY <3>1, <3>3, BecomeType
    <3>5. w.val \in {Blank} \cup Value /\ w.buf.seg \in Segment /\ w.buf.slot \in Slot
      BY <3>3 DEF Transfer, Buffer
    <3>6. MemTypeOK'
      BY <3>1, <3>5 DEF MemTypeOK
    <3> QED BY <3>4, <3>6
  <2>5. CASE PutFinish(p) \/ PutFail(p) \/ Abandon(p)
    BY <2>0, <2>5, BecomeType DEF PutFinish, PutFail, Abandon, MemTypeOK
  <2>6. CASE QueryReply(p)
    <3>1. op[p] \in QueryOps
      BY <2>6, OpFields DEF QueryReply
    <3>2. CASE Become(p, Idle)
      BY <2>0, <2>6, <3>2, BecomeType DEF QueryReply, MemTypeOK
    <3>3. ASSUME NEW r \in CleanReplicas(op[p].key),
                 Become(p, GetOp(op[p].key, Transfers(op[p].key, r), op[p].ttl, TRUE))
          PROVE  OpTypeOK' /\ MemTypeOK'
      <4>1. op[p].key \in Key /\ op[p].ttl \in 0 .. LeaseTTL
        BY <3>1 DEF QueryOps
      <4>2. r \in replicas[op[p].key]
        BY DEF CleanReplicas
      <4>3. Transfers(op[p].key, r) \subseteq Transfer
        BY <4>1, <4>2, HeldTransfer
      <4>4. GetOp(op[p].key, Transfers(op[p].key, r), op[p].ttl, TRUE) \in GetOps
        BY <4>1, <4>3 DEF GetOp, GetOps
      <4> QED BY <2>6, <3>3, <4>4, BecomeType DEF QueryReply, MemTypeOK
    <3> QED BY <2>6, <3>2, <3>3 DEF QueryReply, CompleteReplicas
  <2>7. CASE TransferRead(p)
    <3>1. PICK w \in op[p].todo : Become(p, GetOp(op[p].key, op[p].todo \ {w}, op[p].ttl,
                                      op[p].good /\ MemAt(w.buf) = w.val))
      BY <2>7 DEF TransferRead, MemAt
    <3>2. op[p] \in GetOps
      BY <2>7, OpFields DEF TransferRead
    <3>3. (op[p].good /\ MemAt(w.buf) = w.val) \in BOOLEAN
      OBVIOUS
    <3>4. GetOp(op[p].key, op[p].todo \ {w}, op[p].ttl, op[p].good /\ MemAt(w.buf) = w.val) \in GetOps
      BY <3>2, <3>3 DEF GetOp, GetOps
    <3> QED BY <2>7, <3>1, <3>4, BecomeType DEF TransferRead, MemTypeOK
  <2>8. CASE GetReturn(p)
    <3>1. op[p] \in GetOps
      BY <2>8, OpFields DEF GetReturn
    <3>2. ReturnedOp(op[p].good) \in ReturnedOps
      BY <3>1 DEF GetOps, ReturnedOp, ReturnedOps
    <3> QED BY <2>0, <2>8, <3>2, BecomeType DEF GetReturn, MemTypeOK
  <2> QED BY <1>1, <2>1, <2>2, <2>3, <2>4, <2>5, <2>6, <2>7, <2>8 DEF ProcNext
<1>2. CASE StoreTick
  <2>1. ASSUME NEW p \in Proc PROVE op'[p] \in Ops
    <3>1. \A t \in 0 .. LeaseTTL : Elapse(t) \in 0 .. LeaseTTL
      BY TimeAssumption DEF Elapse
    <3>2. op[p].kind = "query" => op'[p] \in QueryOps
      BY <1>2, <3>1, TickOps, OpFields DEF QueryOps
    <3>3. op[p].kind = "get" => op'[p] \in GetOps
      BY <1>2, <3>1, TickOps, OpFields DEF GetOps
    <3>4. op[p].kind \notin {"query", "get"} => op'[p] \in Ops
      BY <1>2, TickOps DEF OpTypeOK
    <3> QED BY <3>2, <3>3, <3>4
  <2>2. DOMAIN op' = Proc /\ op' = [p \in Proc |-> op'[p]]
    BY <1>2 DEF StoreTick
  <2> QED BY <1>2, <2>1, <2>2 DEF StoreTick, OpTypeOK, MemTypeOK
<1>3. CASE UNCHANGED storeVars
  BY <1>3 DEF storeVars, OpTypeOK, MemTypeOK
<1> QED BY <1>1, <1>2, <1>3 DEF StoreNext

\* Every step but the beginning of a Put or of a Get only gets on with the
\* operations under way.
OpsNarrow ==
  \A p \in Proc :
    /\ Writing(p)' => /\ Writing(p) /\ op'[p].key = op[p].key
                      /\ op'[p].todo \subseteq op[p].todo
    /\ Reading(p)' => /\ Reading(p) /\ op'[p].key = op[p].key
                      /\ op'[p].todo \subseteq op[p].todo
                      /\ op'[p].ttl <= op[p].ttl

NarrowStep ==
  \/ \E p \in Proc : \/ \E k \in Key : PutRefused(p, k) \/ Query(p, k)
                     \/ TransferWrite(p) \/ PutFinish(p) \/ PutFail(p)
                     \/ TransferRead(p) \/ GetReturn(p) \/ Abandon(p)
  \/ StoreTick
  \/ UNCHANGED storeVars

\* One thread gets on or ends.
LEMMA OneNarrows ==
  ASSUME OpTypeOK, NEW p \in Proc, NEW o, Become(p, o),
         o.kind = "put" => /\ Writing(p) /\ o.key = op[p].key /\ o.todo \subseteq op[p].todo,
         o.kind = "get" => /\ op[p].kind = "get" /\ o.key = op[p].key
                           /\ o.todo \subseteq op[p].todo /\ o.ttl = op[p].ttl
  PROVE  OpsNarrow
<1>1. op'[p] = o /\ \A q \in Proc \ {p} : op'[q] = op[q]
  BY BecomeOne
<1>2. op[p].kind = "get" => op[p].ttl \in Nat
  BY OpFields, TimeAssumption DEF GetOps
<1>3. \A q \in Proc \ {p} : op[q].kind = "get" => op[q].ttl \in Nat
  BY OpFields, TimeAssumption DEF GetOps
<1> QED BY <1>1, <1>2, <1>3 DEF OpsNarrow, Writing, Reading

\* The steps that narrow.
LEMMA NarrowSteps ==
  ASSUME OpTypeOK, NarrowStep
  PROVE  OpsNarrow
<1>0. Idle.kind = "idle"
  BY DEF Idle
<1>1. ASSUME UNCHANGED storeVars PROVE OpsNarrow
  <2>1. \A q \in Proc : op[q].kind = "get" => op[q].ttl \in Nat
    BY OpFields, TimeAssumption DEF GetOps
  <2> QED BY <1>1, <2>1 DEF storeVars, OpsNarrow, Writing, Reading
<1>2. ASSUME NEW p \in Proc, NEW k \in Key, Query(p, k) PROVE OpsNarrow
  <2>1. QueryOp(k).kind = "query"
    BY DEF QueryOp
  <2> QED BY <1>2, <2>1, OneNarrows DEF Query
<1>3. ASSUME NEW p \in Proc, TransferWrite(p) PROVE OpsNarrow
  <2>1. PICK w \in op[p].todo : Become(p, PutOp(op[p].key, op[p].todo \ {w}))
    BY <1>3 DEF TransferWrite
  <2>2. /\ PutOp(op[p].key, op[p].todo \ {w}).kind = "put"
        /\ PutOp(op[p].key, op[p].todo \ {w}).key = op[p].key
        /\ PutOp(op[p].key, op[p].todo \ {w}).todo = op[p].todo \ {w}
    BY DEF PutOp
  <2>3. Writing(p)
    BY <1>3 DEF TransferWrite, Writing
  <2> QED BY <2>1, <2>2, <2>3, OneNarrows
<1>4. ASSUME NEW p \in Proc, PutFinish(p) \/ PutFail(p) \/ Abandon(p) PROVE OpsNarrow
  BY <1>0, <1>4, OneNarrows DEF PutFinish, PutFail, Abandon
<1>5. ASSUME NEW p \in Proc, TransferRead(p) PROVE OpsNarrow
  <2>1. PICK w \in op[p].todo : Become(p, GetOp(op[p].key, op[p].todo \ {w}, op[p].ttl,
                                    op[p].good /\ mem[w.buf.seg][w.buf.slot] = w.val))
    BY <1>5 DEF TransferRead
  <2> DEFINE o == GetOp(op[p].key, op[p].todo \ {w}, op[p].ttl,
                        op[p].good /\ mem[w.buf.seg][w.buf.slot] = w.val)
  <2>2. o.kind = "get" /\ o.key = op[p].key /\ o.todo = op[p].todo \ {w} /\ o.ttl = op[p].ttl
    BY DEF GetOp
  <2>3. op[p].kind = "get" /\ Become(p, o)
    BY <1>5, <2>1 DEF TransferRead
  <2> HIDE DEF o
  <2> QED BY <2>2, <2>3, OneNarrows
<1>6. ASSUME NEW p \in Proc, GetReturn(p) PROVE OpsNarrow
  <2>1. ReturnedOp(op[p].good).kind = "returned"
    BY DEF ReturnedOp
  <2> QED BY <1>0, <1>6, <2>1, OneNarrows DEF GetReturn
<1>7. CASE StoreTick
  <2> SUFFICES ASSUME NEW p \in Proc
               PROVE  /\ Writing(p)' => op'[p] = op[p] /\ Writing(p)
                      /\ Reading(p)' => /\ Reading(p) /\ op'[p].key = op[p].key
                                        /\ op'[p].todo = op[p].todo
                                        /\ op'[p].ttl <= op[p].ttl
    BY DEF OpsNarrow
  <2>1. Writing(p)' => op'[p] = op[p] /\ Writing(p)
    BY <1>7, TickOps DEF Writing
  <2>2. ASSUME op[p].kind = "get"
        PROVE  /\ op'[p].key = op[p].key /\ op'[p].todo = op[p].todo
               /\ op'[p].ttl = Elapse(op[p].ttl) /\ op[p].ttl \in Nat
    BY <1>7, <2>2, TickGet
  <2>3. op'[p].kind = "get" => op[p].kind = "get"
    BY <1>7, TickOps
  <2> QED BY <2>1, <2>2, <2>3 DEF Reading, Elapse
<1>8. ASSUME NEW p \in Proc, NEW k \in Key, PutRefused(p, k) PROVE OpsNarrow
  BY <1>1, <1>8 DEF PutRefused
<1> QED BY <1>1, <1>2, <1>3, <1>4, <1>5, <1>6, <1>7, <1>8 DEF NarrowStep

\* Every step either narrows or begins a Put or a Get.
LEMMA StepKinds ==
  ASSUME [StoreNext]_<<vars, storeVars>>
  PROVE  \/ NarrowStep
         \/ \E p \in Proc, k \in Key : PutBegin(p, k)
         \/ \E p \in Proc : QueryReply(p)
BY DEF StoreNext, ProcNext, NarrowStep

\* The memory changes by a transfer of a writer.
LEMMA MemorySteps ==
  ASSUME [StoreNext]_<<vars, storeVars>>
  PROVE  UNCHANGED mem \/ \E p \in Proc : TransferWrite(p)
<1>1. ASSUME NEW p \in Proc, ProcNext(p) PROVE UNCHANGED mem \/ TransferWrite(p)
  BY <1>1 DEF ProcNext, PutBegin, PutRefused, Query, PutFinish, PutFail, QueryReply, TransferRead,
     GetReturn, Abandon, storeVars
<1> QED BY <1>1 DEF StoreNext, StoreTick, storeVars

\* What has been read and returned is right.
LEMMA GoodStep ==
  ASSUME ~PreferSameNode, OpTypeOK, ReadersGood, ReadersRight, [StoreNext]_<<vars, storeVars>>
  PROVE  ReadersGood'
<1> DEFINE Ok(o) == /\ o.kind = "get" /\ o.ttl > 0 => o.good
                    /\ o.kind = "returned" => o.good
<1>0. \A p \in Proc : Ok(op[p])
  BY DEF ReadersGood, ReadIntegrity, Reading
<1> SUFFICES \A p \in Proc : Ok(op'[p])
  BY DEF ReadersGood, ReadIntegrity, Reading
<1>1. ASSUME NEW p \in Proc, NEW o, Become(p, o), Ok(o) PROVE \A q \in Proc : Ok(op'[q])
  BY <1>0, <1>1, BecomeOne
<1>2. Ok(Idle)
  BY DEF Idle
<1>3. ASSUME NEW p \in Proc, ProcNext(p) PROVE \A q \in Proc : Ok(op'[q])
  <2>1. ASSUME NEW k \in Key, PutBegin(p, k) PROVE \A q \in Proc : Ok(op'[q])
    <3>1. \E T : Become(p, PutOp(k, T))
      BY <2>1 DEF PutBegin
    <3>2. \A T : PutOp(k, T).kind = "put"
      BY DEF PutOp
    <3> QED BY <1>1, <3>1, <3>2
  <2>2. ASSUME NEW k \in Key, Query(p, k) PROVE \A q \in Proc : Ok(op'[q])
    <3>1. QueryOp(k).kind = "query"
      BY DEF QueryOp
    <3> QED BY <1>1, <2>2, <3>1 DEF Query
  <2>3. ASSUME NEW k \in Key, PutRefused(p, k) PROVE \A q \in Proc : Ok(op'[q])
    BY <1>0, <2>3 DEF PutRefused, storeVars
  <2>4. CASE TransferWrite(p)
    <3>1. \E T : Become(p, PutOp(op[p].key, T))
      BY <2>4 DEF TransferWrite
    <3>2. \A T : PutOp(op[p].key, T).kind = "put"
      BY DEF PutOp
    <3> QED BY <1>1, <3>1, <3>2
  <2>5. CASE PutFinish(p) \/ PutFail(p) \/ Abandon(p)
    BY <1>1, <1>2, <2>5 DEF PutFinish, PutFail, Abandon
  <2>6. CASE QueryReply(p)
    <3>1. \A T : Ok(GetOp(op[p].key, T, op[p].ttl, TRUE))
      BY DEF GetOp
    <3>2. Become(p, Idle) \/ \E T : Become(p, GetOp(op[p].key, T, op[p].ttl, TRUE))
      BY <2>6 DEF QueryReply
    <3> QED BY <1>1, <1>2, <3>1, <3>2
  <2>7. CASE TransferRead(p)
    <3>1. PICK w \in op[p].todo : Become(p, GetOp(op[p].key, op[p].todo \ {w}, op[p].ttl,
                                      op[p].good /\ MemAt(w.buf) = w.val))
      BY <2>7 DEF TransferRead, MemAt
    <3>2. op[p].ttl > 0 => op[p].good /\ MemAt(w.buf) = w.val
      BY <1>0, <2>7 DEF TransferRead, ReadersRight, Reading
    <3>3. Ok(GetOp(op[p].key, op[p].todo \ {w}, op[p].ttl, op[p].good /\ MemAt(w.buf) = w.val))
      BY <3>2 DEF GetOp
    <3> QED BY <1>1, <3>1, <3>3
  <2>8. CASE GetReturn(p)
    <3>1. ReturnsData(op[p].ttl) => Ok(ReturnedOp(op[p].good))
      BY <1>0, <2>8 DEF GetReturn, ReturnsData, ReturnedOp
    <3> QED BY <1>1, <1>2, <2>8, <3>1 DEF GetReturn
  <2> QED BY <1>3, <2>1, <2>2, <2>3, <2>4, <2>5, <2>6, <2>7, <2>8 DEF ProcNext
<1>4. CASE StoreTick
  <2> SUFFICES ASSUME NEW p \in Proc PROVE Ok(op'[p])
    OBVIOUS
  <2>1. ASSUME op[p].kind = "get"
        PROVE  /\ op'[p].good = op[p].good /\ op'[p].kind = "get"
               /\ op'[p].ttl = Elapse(op[p].ttl) /\ op[p].ttl \in Nat
    BY <1>4, <2>1, TickGet
  <2>2. op[p].kind = "query" => op'[p].kind = "query"
    BY <1>4, TickOps
  <2>3. op[p].kind \notin {"query", "get"} => op'[p] = op[p]
    BY <1>4, TickOps
  <2> QED BY <1>0, <2>1, <2>2, <2>3 DEF Elapse
<1>5. CASE UNCHANGED storeVars
  BY <1>0, <1>5 DEF storeVars
<1> QED BY <1>3, <1>4, <1>5 DEF StoreNext

-----------------------------------------------------------------------------
(* The steps that end with no segment mounted.                              *)

\* A Put begins with transfers to buffers of live allocators.
LEMMA PutBegins ==
  ASSUME SegmentInv, OpTypeOK, NEW p \in Proc, NEW k \in Key, PutBegin(p, k)
  PROVE  /\ \E n \in SliceNums, rn \in ReplicaNums, soft \in SoftPins :
              \E M \in Allocate(FreeBuffers(k), n, rn) :
                /\ PutStart(k, M, soft)
                /\ op'[p] = PutOp(k, UNION {Transfers(k, r) : r \in M})
         /\ \A q \in Proc \ {p} : op'[q] = op[q]
         /\ op[p] = Idle
         /\ UNCHANGED <<mem, segmentVars>>
<1>1. PICK n \in SliceNums, rn \in ReplicaNums, soft \in SoftPins :
         \E M \in Allocate(FreeBuffers(k), n, rn) :
            /\ PutStart(k, M, soft)
            /\ Become(p, PutOp(k, UNION {Transfers(k, r) : r \in M}))
  BY DEF PutBegin
<1>2. PICK M \in Allocate(FreeBuffers(k), n, rn) :
            /\ PutStart(k, M, soft)
            /\ Become(p, PutOp(k, UNION {Transfers(k, r) : r \in M}))
  BY <1>1
<1>3. /\ op'[p] = PutOp(k, UNION {Transfers(k, r) : r \in M})
      /\ \A q \in Proc \ {p} : op'[q] = op[q]
  BY <1>2, BecomeOne
<1>4. UNCHANGED segmentVars
  BY <1>2 DEF PutStart
<1> QED BY <1>2, <1>3, <1>4 DEF PutBegin

\* A query is answered by a complete replica without stale handles, or by nothing.
LEMMA QueryAnswers ==
  ASSUME OpTypeOK, NEW p \in Proc, QueryReply(p)
  PROVE  /\ op[p] \in QueryOps /\ op[p].key \in Key
         /\ \A q \in Proc \ {p} : op'[q] = op[q]
         /\ UNCHANGED <<mem, segmentVars>>
         /\ \/ op'[p] = Idle /\ (GetReplicaList(op[p].key) \/ NotFound(op[p].key))
            \/ /\ GetReplicaList(op[p].key)
               /\ \E r \in CompleteReplicas(CleanReplicas(op[p].key)) :
                    op'[p] = GetOp(op[p].key, Transfers(op[p].key, r), op[p].ttl, TRUE)
<1>1. op[p] \in QueryOps /\ op[p].key \in Key
  BY OpFields DEF QueryReply, QueryOps
<1>2. UNCHANGED <<mem, segmentVars>>
  BY DEF QueryReply, GetReplicaList, LeaseOnRead, NotFound, AccessorMiss, vars
<1>3. ASSUME NEW o, Become(p, o) PROVE op'[p] = o /\ \A q \in Proc \ {p} : op'[q] = op[q]
  BY <1>3, BecomeOne
<1>4. CASE Become(p, Idle) /\ (GetReplicaList(op[p].key) \/ NotFound(op[p].key))
  BY <1>1, <1>2, <1>3, <1>4
<1>5. ASSUME NEW r \in CompleteReplicas(CleanReplicas(op[p].key)), GetReplicaList(op[p].key),
             Become(p, GetOp(op[p].key, Transfers(op[p].key, r), op[p].ttl, TRUE))
      PROVE  /\ op'[p] = GetOp(op[p].key, Transfers(op[p].key, r), op[p].ttl, TRUE)
             /\ \A q \in Proc \ {p} : op'[q] = op[q]
  BY <1>3, <1>5
<1> QED BY <1>1, <1>2, <1>4, <1>5 DEF QueryReply

\* The buffers to be written come from allocators.
LEMMA TodoGenStep ==
  ASSUME SegmentInv, OpTypeOK, TodoGen, [StoreNext]_<<vars, storeVars>>
  PROVE  TodoGen'
<1>1. CASE NarrowStep
  BY <1>1, NarrowSteps DEF TodoGen, OpsNarrow
<1>2. ASSUME NEW p \in Proc, NEW k \in Key, PutBegin(p, k) PROVE TodoGen'
  <2>1. PICK n \in SliceNums, rn \in ReplicaNums, soft \in SoftPins :
          \E M \in Allocate(FreeBuffers(k), n, rn) :
            op'[p] = PutOp(k, UNION {Transfers(k, r) : r \in M})
    BY <1>2, PutBegins
  <2>2. PICK M \in Allocate(FreeBuffers(k), n, rn) :
            op'[p] = PutOp(k, UNION {Transfers(k, r) : r \in M})
    BY <2>1
  <2>3. \A q \in Proc \ {p} : op'[q] = op[q]
    BY <1>2, PutBegins
  <2>4. ASSUME NEW w \in op'[p].todo PROVE w.buf.gen > 0
    <3>1. PICK r \in M : w \in Transfers(k, r)
      BY <2>2 DEF PutOp
    <3>2. w.buf \in BufsOf(r)
      BY <3>1, TransferOf DEF BufsOf
    <3>3. w.buf \in Bufs(M)
      BY <3>2 DEF Bufs
    <3> QED BY <3>3, AllocateBufs, FreeValid
  <2> QED BY <2>3, <2>4 DEF TodoGen, Writing
<1>3. ASSUME NEW p \in Proc, QueryReply(p) PROVE TodoGen'
  <2>1. op'[p].kind # "put" /\ \A q \in Proc \ {p} : op'[q] = op[q]
    <3>1. op'[p] = Idle \/ \E T : op'[p] = GetOp(op[p].key, T, op[p].ttl, TRUE)
      BY <1>3, QueryAnswers
    <3>2. Idle.kind = "idle" /\ \A T : GetOp(op[p].key, T, op[p].ttl, TRUE).kind = "get"
      BY DEF GetOp, Idle
    <3>3. op'[p].kind # "put"
      BY <3>1, <3>2
    <3> QED BY <1>3, <3>3, QueryAnswers
  <2> QED BY <2>1 DEF TodoGen, Writing
<1> QED BY <1>1, <1>2, <1>3, StepKinds

\* Readers finish what they read, and no thread begins anything more.
LEMMA EndedStep ==
  ASSUME StoreInv, Ended', [StoreNext]_<<vars, storeVars>>
  PROVE  ReadersRight' /\ Apart'
<1>0. /\ HandleInv /\ SegmentInv /\ OpTypeOK /\ MemTypeOK /\ ReadersRight /\ Apart
  BY DEF StoreInv, UnitInv, HandleInv
<1>1. CASE NarrowStep
  <2>1. OpsNarrow
    BY <1>0, <1>1, NarrowSteps
  <2>2. Apart'
    BY <1>0, <2>1 DEF Apart, OpsNarrow
  <2>3. ASSUME UNCHANGED mem PROVE ReadersRight'
    BY <1>0, <2>1, <2>3 DEF ReadersRight, OpsNarrow, MemAt
  <2>4. ASSUME NEW q \in Proc, TransferWrite(q) PROVE ReadersRight'
    <3>1. PICK w \in op[q].todo : mem' = [mem EXCEPT ![w.buf.seg][w.buf.slot] = w.val]
      BY <2>4 DEF TransferWrite
    <3>2. Writing(q) /\ op[q] \in PutOps
      BY <1>0, <2>4, OpFields DEF TransferWrite, Writing
    <3>3. w \in Transfer
      BY <3>2 DEF PutOps
    <3> SUFFICES ASSUME NEW p \in Proc, Reading(p)', NEW v \in op'[p].todo
                 PROVE  MemAt(v.buf)' = v.val
      BY DEF ReadersRight
    <3>4. Reading(p) /\ v \in op[p].todo
      BY <2>1 DEF OpsNarrow
    <3>5. v \in Transfer
      BY <1>0, <3>4, OpFields DEF Reading, GetOps
    <3>6. v.buf \in Buffer
      BY <3>5 DEF Transfer
    <3>7. ~SameUnit(v.buf, w.buf)
      BY <1>0, <3>2, <3>4 DEF Apart
    <3>8. MemAt(v.buf)' = MemAt(v.buf)
      BY <1>0, <3>1, <3>3, <3>6, <3>7, WriteOne
    <3> QED BY <1>0, <3>4, <3>8 DEF ReadersRight
  <2> QED BY <2>2, <2>3, <2>4, MemorySteps
<1>2. ASSUME NEW p \in Proc, NEW k \in Key, PutBegin(p, k) PROVE FALSE
  <2>1. PICK n \in SliceNums, rn \in ReplicaNums : Allocate(FreeBuffers(k), n, rn) # {}
    BY <1>2 DEF PutBegin
  <2>2. Ended
    BY <1>0, <1>2, PutBegins DEF Ended, segmentVars
  <2> QED BY <1>0, <2>1, <2>2, EndedAllocatesNothing
<1>3. ASSUME NEW p \in Proc, QueryReply(p) PROVE ReadersRight' /\ Apart'
  <2>1. /\ op[p].key \in Key /\ \A q \in Proc \ {p} : op'[q] = op[q]
        /\ UNCHANGED <<mem, segmentVars>>
    BY <1>0, <1>3, QueryAnswers
  <2>2. Ended
    BY <2>1 DEF Ended, segmentVars
  <2>3. op'[p].kind # "put" /\ (op'[p].kind = "get" => op'[p].todo = {})
    <3>1. CASE op'[p] = Idle
      BY <3>1 DEF Idle
    <3>2. ASSUME NEW r \in CompleteReplicas(CleanReplicas(op[p].key)),
                 op'[p] = GetOp(op[p].key, Transfers(op[p].key, r), op[p].ttl, TRUE)
          PROVE  op'[p].kind # "put" /\ op'[p].todo = {}
      <4>1. Transfers(op[p].key, r) = {}
        BY <1>0, <2>1, <2>2, EndedReadsNothing DEF CompleteReplicas
      <4> QED BY <3>2, <4>1 DEF GetOp
    <3> QED BY <1>0, <1>3, <3>1, <3>2, QueryAnswers
  <2>4. ReadersRight'
    BY <1>0, <2>1, <2>3 DEF ReadersRight, Reading, MemAt
  <2>5. Apart'
    BY <1>0, <2>1, <2>3 DEF Apart, Reading, Writing
  <2> QED BY <2>4, <2>5
<1> QED BY <1>1, <1>2, <1>3, StepKinds

-----------------------------------------------------------------------------
(* The steps that end with no segment unmounted.                            *)

\* A step that takes replicas away at most: not from objects under lease, and not
\* from those of the keys B that are being written.
Shrinks(B) ==
  /\ \A k \in Key : replicas'[k] \subseteq replicas[k]
  /\ NonEmpty'
  /\ \A k \in Key : \A r \in CompleteReplicas(replicas[k]) :
        lease[k] > 0 => r \in replicas'[k] /\ lease'[k] >= lease[k]
  /\ \A k \in B : k \in objects /\ (\A r \in replicas[k] : r.status = "PROCESSING") =>
        k \in objects' /\ replicas'[k] = replicas[k]

\* What such a step keeps of the writers and of the written replicas.
LEMMA ShrinkWriters ==
  ASSUME FreshInv, OpTypeOK, UNCHANGED mem, OpsNarrow, NEW B, Shrinks(B),
         \A p \in Proc : Writing(p)' => op'[p] = op[p] /\ op[p].key \in B
  PROVE  NonEmpty' /\ WritersOwn' /\ Written'
<1>1. Written'
  BY DEF FreshInv, Written, Shrinks, CompleteReplicas, MemAt
<1>2. WritersOwn'
  <2> SUFFICES ASSUME NEW p \in Proc, Writing(p)'
               PROVE  /\ op[p].key \in objects'
                      /\ \A r \in replicas'[op[p].key] : r.status = "PROCESSING"
                      /\ \A w \in op[p].todo : \E r \in replicas'[op[p].key] :
                            w \in Transfers(op[p].key, r)
                      /\ \A r \in replicas'[op[p].key] : \A w \in Transfers(op[p].key, r) :
                            w \in op[p].todo \/ MemAt(w.buf)' = w.val
                      /\ \A q \in Proc : Writing(q)' /\ op'[q].key = op[p].key => q = p
    BY DEF WritersOwn
  <2>1. op'[p] = op[p] /\ op[p].key \in B /\ Writing(p)
    BY DEF OpsNarrow
  <2>2. /\ op[p].key \in objects
        /\ \A r \in replicas[op[p].key] : r.status = "PROCESSING"
        /\ \A w \in op[p].todo : \E r \in replicas[op[p].key] : w \in Transfers(op[p].key, r)
        /\ \A r \in replicas[op[p].key] : \A w \in Transfers(op[p].key, r) :
              w \in op[p].todo \/ MemAt(w.buf) = w.val
        /\ \A q \in Proc : Writing(q) /\ op[q].key = op[p].key => q = p
    BY <2>1 DEF FreshInv, WritersOwn
  <2>3. op[p].key \in objects' /\ replicas'[op[p].key] = replicas[op[p].key]
    BY <2>1, <2>2 DEF Shrinks
  <2>4. \A q \in Proc : Writing(q)' => Writing(q) /\ op'[q].key = op[q].key
    BY DEF OpsNarrow
  <2> QED BY <2>2, <2>3, <2>4 DEF MemAt
<1> QED BY <1>1, <1>2 DEF Shrinks

\* And of the readers, unless time passes.
LEMMA ShrinkReaders ==
  ASSUME TypeOK, TypeOK', FreshInv, OpTypeOK, OpTypeOK', OpsNarrow, NEW B, Shrinks(B)
  PROVE  ReadersLeased'
<1> SUFFICES ASSUME NEW p \in Proc, Reading(p)'
             PROVE  /\ lease'[op'[p].key] >= op'[p].ttl
                    /\ \E r \in CompleteReplicas(replicas'[op'[p].key]) :
                          op'[p].todo \subseteq Transfers(op'[p].key, r)
  BY DEF ReadersLeased, CompleteReplicas
<1>1. /\ Reading(p) /\ op'[p].key = op[p].key
      /\ op'[p].todo \subseteq op[p].todo /\ op'[p].ttl <= op[p].ttl
  BY DEF OpsNarrow
<1>2. op[p].key \in Key /\ op[p].ttl \in Nat /\ op'[p].ttl \in Nat
  <2>1. op[p] \in GetOps
    BY <1>1, OpFields DEF Reading
  <2>2. OpTypeOK' /\ op'[p].kind = "get"
    BY DEF Reading
  <2>3. op'[p] \in GetOps
    BY <2>2 DEF OpTypeOK, GetOps, PutOps, QueryOps, ReturnedOps, Idle
  <2> QED BY <2>1, <2>3, TimeAssumption DEF GetOps
<1>3. lease[op[p].key] \in Nat /\ lease'[op[p].key] \in Nat
  BY <1>2, TimeAssumption DEF TypeOK, ObjectTypeOK
<1>4. PICK r \in CompleteReplicas(replicas[op[p].key]) : op[p].todo \subseteq Transfers(op[p].key, r)
  BY <1>1 DEF FreshInv, ReadersLeased
<1>5. lease[op[p].key] >= op[p].ttl /\ op[p].ttl > 0
  BY <1>1 DEF FreshInv, ReadersLeased, Reading
<1>6. r \in replicas'[op[p].key] /\ lease'[op[p].key] >= lease[op[p].key]
  BY <1>2, <1>3, <1>4, <1>5 DEF Shrinks
<1>7. r \in CompleteReplicas(replicas'[op[p].key])
  BY <1>4, <1>6 DEF CompleteReplicas
<1> QED BY <1>1, <1>2, <1>3, <1>4, <1>5, <1>6, <1>7

\* Erasing and keeping entries, as the operations of the master do it.
LEMMA EraseShrinks ==
  ASSUME TypeOK, NEW new, NEW gone, NEW B \in SUBSET Key, EraseObjects(new, gone),
         \A k \in Key : new[k] \subseteq replicas[k],
         \A k \in objects \ gone : new[k] # {},
         \A k \in Key : \A r \in CompleteReplicas(replicas[k]) :
            lease[k] > 0 => r \in new[k] /\ k \notin gone,
         \A k \in B : k \in objects /\ (\A r \in replicas[k] : r.status = "PROCESSING") =>
            k \notin gone /\ new[k] = replicas[k]
  PROVE  Shrinks(B)
<1>1. /\ objects' = objects \ gone
      /\ \A k \in Key : replicas'[k] = IF k \in gone THEN {} ELSE new[k]
      /\ \A k \in Key : lease'[k] = IF k \in gone THEN 0 ELSE lease[k]
  BY DEF EraseObjects
<1>2. \A k \in Key : lease[k] \in Nat
  BY TimeAssumption DEF TypeOK, ObjectTypeOK
<1>3. objects \in SUBSET Key
  BY DEF TypeOK, ObjectTypeOK
<1> QED BY <1>1, <1>2, <1>3 DEF Shrinks, NonEmpty

\* The replicas stay and the leases do not get shorter.
LEMMA SameShrinks ==
  ASSUME NonEmpty, NEW B \in SUBSET Key, objects \in SUBSET Key, UNCHANGED objects,
         \A k \in Key : replicas'[k] = replicas[k] /\ lease'[k] >= lease[k]
  PROVE  Shrinks(B)
BY DEF Shrinks, NonEmpty, CompleteReplicas

\* The calls of readers, and of writers that are turned away.
LEMMA ReadShrinks ==
  ASSUME UnitInv, Fresh, NonEmpty, NEW k \in Key,
         GetReplicaList(k) \/ PutStartExists(k) \/ PutStartNoSpace(k)
  PROVE  /\ Shrinks(Key)
         /\ \A j \in Key : replicas'[j] = replicas[j]
         /\ GetReplicaList(k) /\ CompleteReplicas(replicas[k]) # {} => lease'[k] >= LeaseTTL
<1>0. TypeOK /\ objects \in SUBSET Key /\ AbsentEmpty
  BY DEF UnitInv, HandleInv, SegmentInv, TypeOK, ObjectTypeOK
<1>1. \A j \in Key : lease[j] \in Nat /\ LeaseTTL \in Nat
  BY <1>0, TimeAssumption DEF TypeOK, ObjectTypeOK
<1>2. CleanReplicas(k) = replicas[k]
  BY FreshClean
<1>3. ~Found(k) => replicas[k] = {}
  BY <1>0, FreshClean DEF AbsentEmpty
<1>4. \A j \in Key : With(k, replicas[k])[j] = replicas[j]
  BY <1>0 DEF With, TypeOK, ObjectTypeOK
<1>5. UNCHANGED objects /\ \A j \in Key : replicas'[j] = replicas[j]
  <2>1. CASE GetReplicaList(k)
    BY <1>2, <1>4, <2>1 DEF GetReplicaList, LeaseOnRead, KeepObjects
  <2>2. CASE PutStartExists(k)
    BY <1>2, <1>4, <2>2 DEF PutStartExists, KeepObjects
  <2>3. CASE PutStartNoSpace(k)
    BY <1>3, <1>4, <2>3 DEF PutStartNoSpace, KeepObjects
  <2> QED BY <2>1, <2>2, <2>3
<1>6. \A j \in Key : lease'[j] >= lease[j]
  <2>1. CASE GetReplicaList(k)
    BY <1>1, <2>1 DEF GetReplicaList, LeaseOnRead, GrantLease, Later
  <2>2. CASE PutStartExists(k) \/ PutStartNoSpace(k)
    BY <1>1, <2>2 DEF PutStartExists, PutStartNoSpace
  <2> QED BY <2>1, <2>2
<1>7. GetReplicaList(k) /\ CompleteReplicas(replicas[k]) # {} => lease'[k] >= LeaseTTL
  BY <1>1, <1>2 DEF GetReplicaList, LeaseOnRead, GrantLease, Later
<1> QED BY <1>0, <1>5, <1>6, <1>7, SameShrinks

\* A key that is not found has no entry, so nothing changes.
LEMMA FreshNotFound ==
  ASSUME UnitInv, Fresh, NonEmpty, NEW k \in Key, NotFound(k)
  PROVE  UNCHANGED vars /\ k \notin objects
BY FreshClean DEF NotFound, AccessorMiss, NonEmpty

\* PutRevoke takes replicas of its key only, and none that is complete.
LEMMA RevokeShrinks ==
  ASSUME UnitInv, Fresh, NonEmpty, NEW k \in Key, NEW ty, PutRevoke(k, ty)
  PROVE  Shrinks(Key \ {k})
<1>0. TypeOK /\ objects \in SUBSET Key
  BY DEF UnitInv, HandleInv, SegmentInv, TypeOK, ObjectTypeOK
<1> DEFINE R    == replicas[k]
           left == IF HasDiffRepStatus(R, "PROCESSING", ty) THEN R ELSE EraseReplica(R, ty)
           gone == IF left = {} THEN {k} ELSE {}
           new  == With(k, left)
<1>1. EraseObjects(new, gone)
  BY FreshClean DEF PutRevoke
<1>2. left \subseteq R /\ \A r \in CompleteReplicas(R) : r \in left
  BY DEF HasDiffRepStatus, EraseReplica, CompleteReplicas
<1>3. new[k] = left /\ \A j \in Key \ {k} : new[j] = replicas[j]
  BY <1>0 DEF With, TypeOK, ObjectTypeOK
<1>4. \A j \in Key : new[j] \subseteq replicas[j]
  BY <1>2, <1>3
<1>5. \A j \in objects \ gone : new[j] # {}
  BY <1>0, <1>3 DEF NonEmpty
<1>6. \A j \in Key : \A r \in CompleteReplicas(replicas[j]) : r \in new[j] /\ j \notin gone
  BY <1>2, <1>3 DEF CompleteReplicas
<1>7. \A j \in Key \ {k} : j \notin gone /\ new[j] = replicas[j]
  BY <1>3
<1> HIDE DEF new, gone, left
<1> QED BY <1>0, <1>1, <1>4, <1>5, <1>6, <1>7, EraseShrinks

\* Remove leaves objects that are being written or leased alone.
LEMMA RemoveShrinks ==
  ASSUME UnitInv, Fresh, NonEmpty, NEW k \in Key, Remove(k)
  PROVE  Shrinks(Key)
<1>0. TypeOK /\ objects \in SUBSET Key
  BY DEF UnitInv, HandleInv, SegmentInv, TypeOK, ObjectTypeOK
<1> DEFINE gone == IF IsLeaseExpired(k) /\ IsAllReplicasComplete(replicas[k]) THEN {k} ELSE {}
           new  == With(k, replicas[k])
<1>1. EraseObjects(new, gone) /\ k \in objects
  BY FreshClean DEF Remove, Found
<1>2. \A j \in Key : new[j] = replicas[j]
  BY <1>0 DEF With, TypeOK, ObjectTypeOK
<1>3. \A j \in gone : lease[j] = 0 /\ IsAllReplicasComplete(replicas[j]) /\ replicas[j] # {}
  BY <1>1 DEF IsLeaseExpired, NonEmpty
<1>4. \A j \in objects \ gone : new[j] # {}
  BY <1>0, <1>2 DEF NonEmpty
<1>5. \A j \in Key : \A r \in CompleteReplicas(replicas[j]) :
         lease[j] > 0 => r \in new[j] /\ j \notin gone
  BY <1>2, <1>3 DEF CompleteReplicas
<1>6. \A j \in Key : j \in objects /\ (\A r \in replicas[j] : r.status = "PROCESSING") =>
         j \notin gone /\ new[j] = replicas[j]
  BY <1>2, <1>3 DEF IsAllReplicasComplete
<1> HIDE DEF new, gone
<1> QED BY <1>0, <1>1, <1>2, <1>4, <1>5, <1>6, EraseShrinks

\* RemoveAll does not look at what is being written.
LEMMA RemoveAllShrinks ==
  ASSUME UnitInv, NonEmpty, NEW sh, NEW gone, RemoveAll(sh, gone)
  PROVE  Shrinks({})
<1>0. TypeOK /\ objects \in SUBSET Key
  BY DEF UnitInv, HandleInv, SegmentInv, TypeOK, ObjectTypeOK
<1>1. EraseObjects(replicas, gone) /\ \A k \in gone : lease[k] = 0
  BY DEF RemoveAll, IsLeaseExpired
<1>2. \A k \in objects \ gone : replicas[k] # {}
  BY DEF NonEmpty
<1>3. \A k \in Key : \A r \in CompleteReplicas(replicas[k]) :
         lease[k] > 0 => r \in replicas[k] /\ k \notin gone
  BY <1>1 DEF CompleteReplicas
<1> QED BY <1>0, <1>1, <1>2, <1>3, EraseShrinks

\* The evictor does.
LEMMA EvictShrinks ==
  ASSUME UnitInv, NonEmpty, NEW sh, NEW gone \in SUBSET Key, EvictShard(sh, gone)
  PROVE  Shrinks(Key)
<1>0. TypeOK /\ objects \in SUBSET Key
  BY DEF UnitInv, HandleInv, SegmentInv, TypeOK, ObjectTypeOK
<1> DEFINE new == [k \in Key |-> IF k \in gone THEN EraseReplica(replicas[k], "MEMORY")
                                               ELSE replicas[k]]
           out == {k \in gone : new[k] = {}}
<1>1. EraseObjects(new, out)
  BY DEF EvictShard
<1>2. \A k \in gone : /\ lease[k] = 0
                      /\ \E r \in replicas[k] : r.status # "PROCESSING"
  <2> SUFFICES ASSUME NEW k \in gone
               PROVE  lease[k] = 0 /\ \E r \in replicas[k] : r.status # "PROCESSING"
    OBVIOUS
  <2>1. MayEvict(evictor.pass, k)
    BY DEF EvictShard
  <2> QED BY <2>1 DEF MayEvict, IsLeaseExpired, HasMemReplica, HasDiffRepStatus
<1>3. /\ \A k \in Key : new[k] \subseteq replicas[k]
      /\ \A k \in Key \ gone : new[k] = replicas[k]
  BY DEF EraseReplica
<1>4. \A k \in objects \ out : new[k] # {}
  BY <1>0, <1>3 DEF NonEmpty
<1>5. \A k \in Key : \A r \in CompleteReplicas(replicas[k]) :
         lease[k] > 0 => r \in new[k] /\ k \notin out
  BY <1>2, <1>3 DEF CompleteReplicas
<1>6. \A k \in Key : k \in objects /\ (\A r \in replicas[k] : r.status = "PROCESSING") =>
         k \notin out /\ new[k] = replicas[k]
  BY <1>2, <1>3
<1> HIDE DEF new, out
<1> QED BY <1>0, <1>1, <1>3, <1>4, <1>5, <1>6, EraseShrinks

\* A Put begins: its key has no entry, and the new replicas are its own.
LEMMA FreshPutBegin ==
  ASSUME UnitInv, OpTypeOK, Fresh, FreshInv, NEW p \in Proc, NEW k \in Key, PutBegin(p, k)
  PROVE  FreshInv'
<1>0. TypeOK /\ SegmentInv /\ AbsentEmpty /\ objects \in SUBSET Key
  BY DEF UnitInv, HandleInv, SegmentInv, TypeOK, ObjectTypeOK
<1>1. PICK n \in SliceNums, rn \in ReplicaNums, soft \in SoftPins :
         \E M \in Allocate(FreeBuffers(k), n, rn) :
            PutStart(k, M, soft) /\ op'[p] = PutOp(k, UNION {Transfers(k, r) : r \in M})
  BY <1>0, PutBegins
<1>2. PICK M \in Allocate(FreeBuffers(k), n, rn) :
            PutStart(k, M, soft) /\ op'[p] = PutOp(k, UNION {Transfers(k, r) : r \in M})
  BY <1>1
<1>3. (\A q \in Proc \ {p} : op'[q] = op[q]) /\ UNCHANGED mem
  BY <1>0, PutBegins
<1>4. k \notin objects /\ replicas[k] = {}
  BY <1>0, <1>2, FreshClean DEF PutStart, FreshInv, NonEmpty, AbsentEmpty
<1> DEFINE new == M \cup (IF UseDisk THEN {DiskReplica} ELSE {})
<1>5. /\ objects' = objects \cup {k}
      /\ replicas'[k] = new /\ \A j \in Key \ {k} : replicas'[j] = replicas[j]
      /\ \A j \in Key \ {k} : lease'[j] = lease[j]
  BY <1>0, <1>2, <1>4 DEF PutStart, With, TypeOK, ObjectTypeOK
<1>6. M # {} /\ \A r \in M : r.status = "PROCESSING"
  <2>1. PICK m \in 1 .. rn :
           M \in {{MemoryReplica(A[j]) : j \in 1 .. m} : A \in Placements(FreeBuffers(k), n, m)}
    BY DEF Allocate
  <2>2. PICK A : M = {MemoryReplica(A[j]) : j \in 1 .. m}
    BY <2>1
  <2>3. 1 \in 1 .. m
    BY ConfigAssumption
  <2>4. MemoryReplica(A[1]) \in M
    BY <2>2, <2>3
  <2>5. \A b : MemoryReplica(b).status = "PROCESSING"
    BY DEF MemoryReplica
  <2> QED BY <2>2, <2>4, <2>5
<1>7. \A r \in new : r.status = "PROCESSING"
  BY <1>6 DEF DiskReplica
<1>8. Transfers(k, DiskReplica) = {}
  BY DEF Transfers, DiskReplica
<1>9. /\ Writing(p)' /\ op'[p].key = k
      /\ op'[p].todo = UNION {Transfers(k, r) : r \in M}
  BY <1>2 DEF PutOp, Writing
<1>10. \A q \in Proc \ {p} : /\ (Writing(q)' <=> Writing(q)) /\ (Reading(q)' <=> Reading(q))
                             /\ Writing(q) => op[q].key \in objects /\ op[q].key # k
  BY <1>3, <1>4 DEF Writing, Reading, FreshInv, WritersOwn
<1>11. \A q \in Proc \ {p} : Reading(q) => op[q].key \in Key /\ op[q].key # k
  <2> SUFFICES ASSUME NEW q \in Proc, Reading(q) PROVE op[q].key \in Key /\ op[q].key # k
    OBVIOUS
  <2>1. op[q].key \in Key
    BY OpFields DEF Reading, GetOps
  <2>2. replicas[op[q].key] # {}
    BY DEF FreshInv, ReadersLeased, CompleteReplicas
  <2> QED BY <1>4, <2>1, <2>2
<1>12. ~Reading(p)'
  BY <1>9 DEF Reading, Writing
<1>13. NonEmpty'
  BY <1>0, <1>5, <1>6 DEF FreshInv, NonEmpty
<1>14. ReadersLeased'
  BY <1>3, <1>5, <1>10, <1>11, <1>12 DEF FreshInv, ReadersLeased
<1>15. Written'
  <2> SUFFICES ASSUME NEW j \in Key, NEW r \in CompleteReplicas(replicas'[j]), NEW w \in Transfers(j, r)
               PROVE  MemAt(w.buf)' = w.val
    BY DEF Written, CompleteReplicas
  <2>1. r \in replicas'[j] /\ r.status = "COMPLETE"
    BY DEF CompleteReplicas
  <2>2. j # k
    BY <1>5, <1>7, <2>1
  <2>3. r \in CompleteReplicas(replicas[j])
    BY <1>5, <2>1, <2>2 DEF CompleteReplicas
  <2> QED BY <1>3, <2>3 DEF FreshInv, Written, MemAt
<1>16. WritersOwn'
  <2> SUFFICES ASSUME NEW q \in Proc, Writing(q)'
               PROVE  /\ op'[q].key \in objects'
                      /\ \A r \in replicas'[op'[q].key] : r.status = "PROCESSING"
                      /\ \A w \in op'[q].todo : \E r \in replicas'[op'[q].key] :
                            w \in Transfers(op'[q].key, r)
                      /\ \A r \in replicas'[op'[q].key] : \A w \in Transfers(op'[q].key, r) :
                            w \in op'[q].todo \/ MemAt(w.buf)' = w.val
                      /\ \A x \in Proc : Writing(x)' /\ op'[x].key = op'[q].key => x = q
    BY DEF WritersOwn
  <2>1. CASE q = p
    <3>1. k \in objects' /\ \A r \in replicas'[k] : r.status = "PROCESSING"
      BY <1>5, <1>7
    <3>2. \A w \in op'[p].todo : \E r \in replicas'[k] : w \in Transfers(k, r)
      BY <1>5, <1>9
    <3>3. \A r \in replicas'[k] : \A w \in Transfers(k, r) : w \in op'[p].todo
      BY <1>5, <1>8, <1>9
    <3>4. \A x \in Proc : Writing(x)' /\ op'[x].key = k => x = p
      BY <1>3, <1>10
    <3> QED BY <1>9, <2>1, <3>1, <3>2, <3>3, <3>4
  <2>2. CASE q # p
    <3>1. /\ op'[q] = op[q] /\ Writing(q) /\ op[q].key # k
          /\ op[q].key \in objects
      BY <1>3, <1>10, <2>2
    <3>2. replicas'[op[q].key] = replicas[op[q].key] /\ op[q].key \in objects'
      BY <1>0, <1>5, <3>1
    <3>3. \A x \in Proc : Writing(x)' /\ op'[x].key = op[q].key => x = q
      BY <1>3, <1>9, <1>10, <3>1 DEF FreshInv, WritersOwn
    <3> QED BY <1>3, <3>1, <3>2, <3>3 DEF FreshInv, WritersOwn, MemAt
  <2> QED BY <2>1, <2>2
<1> QED BY <1>13, <1>14, <1>15, <1>16 DEF FreshInv

\* A transfer writes a unit of the writer's own replicas and of no other.
LEMMA FreshWrite ==
  ASSUME UnitInv, OpTypeOK, MemTypeOK, Fresh, FreshInv, NEW p \in Proc, TransferWrite(p)
  PROVE  FreshInv'
<1>0. TypeOK
  BY DEF UnitInv, HandleInv, SegmentInv
<1>1. PICK w \in op[p].todo : /\ mem' = [mem EXCEPT ![w.buf.seg][w.buf.slot] = w.val]
                              /\ Become(p, PutOp(op[p].key, op[p].todo \ {w}))
  BY DEF TransferWrite
<1>2. Writing(p) /\ op[p] \in PutOps /\ UNCHANGED vars
  BY OpFields DEF TransferWrite, Writing
<1> DEFINE k == op[p].key
<1>3. k \in Key /\ w \in Transfer
  BY <1>2 DEF PutOps
<1>4. PICK x \in replicas[k] : w \in Transfers(k, x) /\ x.status = "PROCESSING"
  BY <1>2 DEF FreshInv, WritersOwn
<1>5. /\ op'[p] = PutOp(k, op[p].todo \ {w})
      /\ \A q \in Proc \ {p} : op'[q] = op[q]
  BY <1>1, BecomeOne
<1>6. Writing(p)' /\ op'[p].key = k /\ op'[p].todo = op[p].todo \ {w} /\ ~Reading(p)'
  BY <1>5 DEF PutOp, Writing, Reading
<1>7. UNCHANGED <<objects, replicas, lease>>
  BY <1>2 DEF vars, objectVars
<1>8. ASSUME NEW j \in Key, NEW r \in replicas[j], NEW v \in Transfers(j, r)
      PROVE  MemAt(v.buf)' = MemAt(v.buf) \/ (j = k /\ r = x /\ v = w /\ MemAt(v.buf)' = v.val)
  <2>1. v.buf \in Buffer
    BY <1>0, HeldTransfer
  <2>2. CASE SameUnit(v.buf, w.buf)
    <3>1. j = k /\ r = x /\ v = w
      BY <1>3, <1>4, <2>2, FreshExclusive
    <3> QED BY <1>1, <1>3, <2>1, <2>2, <3>1, WriteOne
  <2>3. CASE ~SameUnit(v.buf, w.buf)
    BY <1>1, <1>3, <2>1, <2>3, WriteOne
  <2> QED BY <2>2, <2>3
<1> HIDE DEF k
<1>9. NonEmpty'
  BY <1>7 DEF FreshInv, NonEmpty
<1>10. ReadersLeased'
  BY <1>5, <1>6, <1>7 DEF FreshInv, ReadersLeased, Reading
<1>11. Written'
  <2> SUFFICES ASSUME NEW j \in Key, NEW r \in CompleteReplicas(replicas[j]), NEW v \in Transfers(j, r)
               PROVE  MemAt(v.buf)' = v.val
    BY <1>7 DEF Written, CompleteReplicas
  <2>1. r \in replicas[j]
    BY DEF CompleteReplicas
  <2> QED BY <1>8, <2>1 DEF FreshInv, Written
<1>12. WritersOwn'
  <2> SUFFICES ASSUME NEW q \in Proc, Writing(q)'
               PROVE  /\ op'[q].key \in objects
                      /\ \A r \in replicas[op'[q].key] : r.status = "PROCESSING"
                      /\ \A v \in op'[q].todo : \E r \in replicas[op'[q].key] :
                            v \in Transfers(op'[q].key, r)
                      /\ \A r \in replicas[op'[q].key] : \A v \in Transfers(op'[q].key, r) :
                            v \in op'[q].todo \/ MemAt(v.buf)' = v.val
                      /\ \A y \in Proc : Writing(y)' /\ op'[y].key = op'[q].key => y = q
    BY <1>7 DEF WritersOwn
  <2>1. Writing(q) /\ op'[q].key = op[q].key /\ op[q].key \in Key
    BY <1>2, <1>5, <1>6, OpFields DEF Writing, PutOps, k
  <2>2. op'[q].todo = IF q = p THEN op[q].todo \ {w} ELSE op[q].todo
    BY <1>5, <1>6
  <2>3. /\ op[q].key \in objects
        /\ \A r \in replicas[op[q].key] : r.status = "PROCESSING"
        /\ \A v \in op[q].todo : \E r \in replicas[op[q].key] : v \in Transfers(op[q].key, r)
    BY <2>1 DEF FreshInv, WritersOwn
  <2>4. \A y \in Proc : Writing(y)' /\ op'[y].key = op'[q].key => y = q
    <3>1. \A y \in Proc : Writing(y)' => Writing(y) /\ op'[y].key = op[y].key
      BY <1>2, <1>5, <1>6 DEF Writing, k
    <3> QED BY <2>1, <3>1 DEF FreshInv, WritersOwn
  <2>5. ASSUME NEW r \in replicas[op[q].key], NEW v \in Transfers(op[q].key, r)
        PROVE  v \in op'[q].todo \/ MemAt(v.buf)' = v.val
    <3>1. v \in op[q].todo \/ MemAt(v.buf) = v.val
      BY <2>1 DEF FreshInv, WritersOwn
    <3>2. CASE v \in op'[q].todo
      BY <3>2
    <3>3. CASE v \notin op'[q].todo /\ v \in op[q].todo
      <4>1. q = p /\ v = w
        BY <2>2, <3>3
      <4>2. v.buf \in Buffer
        BY <1>0, <2>1, HeldTransfer
      <4>3. SameUnit(v.buf, w.buf)
        BY <4>1 DEF SameUnit
      <4> QED BY <1>1, <1>3, <4>1, <4>2, <4>3, WriteOne
    <3>4. CASE MemAt(v.buf) = v.val
      BY <1>8, <2>1, <3>4
    <3> QED BY <3>1, <3>2, <3>3, <3>4
  <2> QED BY <2>1, <2>2, <2>3, <2>4, <2>5
<1> QED BY <1>9, <1>10, <1>11, <1>12 DEF FreshInv

\* PutEnd completes replicas whose transfers have all been made.
LEMMA FreshPutFinish ==
  ASSUME UnitInv, TypeOK', OpTypeOK, Fresh, FreshInv, NEW p \in Proc, PutFinish(p)
  PROVE  FreshInv'
<1>0. TypeOK /\ objects \in SUBSET Key
  BY DEF UnitInv, HandleInv, SegmentInv, TypeOK, ObjectTypeOK
<1>1. Writing(p) /\ op[p] \in PutOps /\ op[p].todo = {} /\ UNCHANGED mem /\ Become(p, Idle)
  BY OpFields DEF PutFinish, Writing
<1> DEFINE k == op[p].key
<1>2. k \in Key
  BY <1>1 DEF PutOps
<1>3. /\ k \in objects
      /\ \A r \in replicas[k] : r.status = "PROCESSING"
      /\ \A r \in replicas[k] : \A w \in Transfers(k, r) : MemAt(w.buf) = w.val
      /\ \A q \in Proc \ {p} : Writing(q) => op[q].key # k
  BY <1>1 DEF FreshInv, WritersOwn
<1>4. PutEnd(k, "MEMORY")
  BY <1>2, <1>3, FreshNotFound DEF PutFinish, FreshInv
<1> HIDE DEF k
<1>5. /\ UNCHANGED objects
      /\ replicas'[k] = MarkComplete(replicas[k], "MEMORY")
      /\ \A j \in Key \ {k} : replicas'[j] = replicas[j]
  BY <1>0, <1>2, <1>4, FreshClean DEF PutEnd, KeepObjects, With, TypeOK, ObjectTypeOK
<1>6. \A j \in Key : lease'[j] >= lease[j]
  <2>1. \A j \in Key : lease[j] \in Nat
    BY <1>0, TimeAssumption DEF TypeOK, ObjectTypeOK
  <2> QED BY <1>4, <2>1 DEF PutEnd, GrantLease, Later
<1>7. op'[p].kind = "idle" /\ \A q \in Proc \ {p} : op'[q] = op[q]
  BY <1>1, BecomeOne DEF Idle
<1>8. \A r \in replicas'[k] : \E x \in replicas[k] : r.bufs = x.bufs
  <2>1. \A x \in replicas[k] : x \in ReplicaSet
    BY <1>0, <1>2 DEF TypeOK, ObjectTypeOK
  <2>2. \A x \in replicas[k] : [x EXCEPT !.status = "COMPLETE"].bufs = x.bufs
    BY <2>1 DEF ReplicaSet
  <2> QED BY <1>5, <2>2 DEF MarkComplete
<1>9. NonEmpty'
  <2>1. PICK x \in replicas[k] : TRUE
    BY <1>3 DEF FreshInv, NonEmpty
  <2>2. replicas'[k] # {}
    <3>1. (IF x.type = "MEMORY" THEN [x EXCEPT !.status = "COMPLETE"] ELSE x)
            \in MarkComplete(replicas[k], "MEMORY")
      BY <2>1 DEF MarkComplete
    <3> QED BY <1>5, <3>1
  <2> QED BY <1>0, <1>5, <2>2 DEF FreshInv, NonEmpty
<1>10. Written'
  <2> SUFFICES ASSUME NEW j \in Key, NEW r \in CompleteReplicas(replicas'[j]), NEW w \in Transfers(j, r)
               PROVE  MemAt(w.buf) = w.val
    BY <1>1 DEF Written, CompleteReplicas, MemAt
  <2>1. r \in replicas'[j] /\ r.status = "COMPLETE"
    BY DEF CompleteReplicas
  <2>2. CASE j = k
    <3>1. PICK x \in replicas[k] : r.bufs = x.bufs
      BY <1>8, <2>1, <2>2
    <3>2. w \in Transfers(k, x)
      BY <2>2, <3>1 DEF Transfers
    <3> QED BY <1>3, <3>2
  <2>3. CASE j # k
    BY <1>5, <2>1, <2>3 DEF FreshInv, Written, CompleteReplicas
  <2> QED BY <2>2, <2>3
<1>11. WritersOwn'
  <2>1. ASSUME NEW q \in Proc, Writing(q)'
        PROVE  /\ q # p /\ op'[q] = op[q] /\ Writing(q) /\ op[q].key \in Key \ {k}
    <3>1. q # p /\ op'[q] = op[q] /\ Writing(q)
      BY <1>7, <2>1 DEF Writing
    <3> QED BY <1>3, <3>1, OpFields DEF Writing, PutOps
  <2>2. \A q \in Proc : Writing(q)' => replicas'[op[q].key] = replicas[op[q].key]
    BY <1>5, <2>1
  <2> QED BY <1>1, <1>5, <2>1, <2>2 DEF FreshInv, WritersOwn, MemAt
<1>12. ReadersLeased'
  <2> SUFFICES ASSUME NEW q \in Proc, Reading(q)'
               PROVE  /\ lease'[op'[q].key] >= op'[q].ttl
                      /\ \E r \in CompleteReplicas(replicas'[op'[q].key]) :
                            op'[q].todo \subseteq Transfers(op'[q].key, r)
    BY DEF ReadersLeased, CompleteReplicas
  <2>1. op'[q] = op[q] /\ Reading(q)
    BY <1>7 DEF Reading
  <2>2. op[q].key \in Key /\ op[q].ttl \in Nat
    BY <2>1, OpFields, TimeAssumption DEF Reading, GetOps
  <2>3. PICK r \in CompleteReplicas(replicas[op[q].key]) : op[q].todo \subseteq Transfers(op[q].key, r)
    BY <2>1 DEF FreshInv, ReadersLeased
  <2>4. op[q].key # k
    BY <1>3, <2>3 DEF CompleteReplicas
  <2>5. r \in CompleteReplicas(replicas'[op[q].key])
    BY <1>5, <2>2, <2>3, <2>4
  <2>6. lease[op[q].key] >= op[q].ttl
    BY <2>1 DEF FreshInv, ReadersLeased
  <2>7. lease[op[q].key] \in Nat /\ lease'[op[q].key] \in Nat
    BY <1>0, <2>2, TimeAssumption DEF TypeOK, ObjectTypeOK
  <2>8. lease'[op[q].key] >= op[q].ttl
    BY <1>6, <2>2, <2>6, <2>7
  <2> QED BY <2>1, <2>3, <2>5, <2>8
<1> QED BY <1>9, <1>10, <1>11, <1>12 DEF FreshInv

\* A query is answered: the reader has a complete replica and a lease on it.
LEMMA FreshQueryReply ==
  ASSUME UnitInv, TypeOK', OpTypeOK, Fresh, FreshInv, NEW p \in Proc, QueryReply(p)
  PROVE  FreshInv'
<1>0. TypeOK /\ objects \in SUBSET Key /\ NonEmpty
  BY DEF UnitInv, HandleInv, SegmentInv, TypeOK, ObjectTypeOK, FreshInv
<1> DEFINE k == op[p].key
<1>1. /\ k \in Key /\ op[p].ttl \in 0 .. LeaseTTL
      /\ \A q \in Proc \ {p} : op'[q] = op[q]
      /\ UNCHANGED mem
  BY QueryAnswers DEF QueryOps
<1>2. GetReplicaList(k) \/ UNCHANGED vars
  BY <1>0, <1>1, QueryAnswers, FreshNotFound
<1>3. \A j \in Key : replicas'[j] = replicas[j] /\ lease'[j] >= lease[j]
  <2>1. \A j \in Key : lease[j] \in Nat /\ LeaseTTL \in Nat
    BY <1>0, TimeAssumption DEF TypeOK, ObjectTypeOK
  <2>2. CASE GetReplicaList(k)
    BY <1>0, <1>1, <2>1, <2>2, ReadShrinks DEF GetReplicaList, LeaseOnRead, GrantLease, Later
  <2>3. CASE UNCHANGED vars
    BY <2>1, <2>3 DEF vars, objectVars
  <2> QED BY <1>2, <2>2, <2>3
<1>4. UNCHANGED objects
  BY <1>2 DEF GetReplicaList, LeaseOnRead, KeepObjects, vars, objectVars
<1>5. \/ op'[p] = Idle
      \/ /\ GetReplicaList(k)
         /\ \E r \in CompleteReplicas(replicas[k]) :
              op'[p] = GetOp(k, Transfers(k, r), op[p].ttl, TRUE)
  <2>1. CleanReplicas(k) = replicas[k]
    BY <1>1, FreshClean
  <2> QED BY <2>1, QueryAnswers
<1> HIDE DEF k
<1>6. ~Writing(p)'
  <2>1. Idle.kind = "idle" /\ \A T : GetOp(k, T, op[p].ttl, TRUE).kind = "get"
    BY DEF Idle, GetOp
  <2> QED BY <1>5, <2>1 DEF Writing
<1>7. NonEmpty'
  BY <1>0, <1>3, <1>4 DEF NonEmpty
<1>8. Written'
  BY <1>1, <1>3 DEF FreshInv, Written, CompleteReplicas, MemAt
<1>9. WritersOwn'
  <2>1. \A q \in Proc : Writing(q)' => q # p /\ op'[q] = op[q] /\ Writing(q)
    BY <1>1, <1>6 DEF Writing
  <2>2. \A q \in Proc : Writing(q) => op[q].key \in Key
    BY OpFields DEF Writing, PutOps
  <2> QED BY <1>1, <1>3, <1>4, <2>1, <2>2 DEF FreshInv, WritersOwn, MemAt
<1>10. ReadersLeased'
  <2> SUFFICES ASSUME NEW q \in Proc, Reading(q)'
               PROVE  /\ lease'[op'[q].key] >= op'[q].ttl
                      /\ \E r \in CompleteReplicas(replicas'[op'[q].key]) :
                            op'[q].todo \subseteq Transfers(op'[q].key, r)
    BY DEF ReadersLeased, CompleteReplicas
  <2>0. \A j \in Key : lease[j] \in Nat /\ lease'[j] \in Nat
    BY <1>0, TimeAssumption DEF TypeOK, ObjectTypeOK
  <2>1. CASE q # p
    <3>1. op'[q] = op[q] /\ Reading(q)
      BY <1>1, <2>1 DEF Reading
    <3>2. op[q].key \in Key /\ op[q].ttl \in Nat
      BY <3>1, OpFields, TimeAssumption DEF Reading, GetOps
    <3>3. /\ lease[op[q].key] >= op[q].ttl
          /\ \E r \in CompleteReplicas(replicas[op[q].key]) : op[q].todo \subseteq Transfers(op[q].key, r)
      BY <3>1 DEF FreshInv, ReadersLeased
    <3>4. lease'[op[q].key] >= op[q].ttl
      BY <1>3, <2>0, <3>2, <3>3
    <3> QED BY <1>3, <3>1, <3>2, <3>3, <3>4
  <2>2. CASE q = p
    <3>1. op'[p] # Idle
      BY <2>2 DEF Reading, Idle
    <3>2. PICK r \in CompleteReplicas(replicas[k]) :
            GetReplicaList(k) /\ op'[p] = GetOp(k, Transfers(k, r), op[p].ttl, TRUE)
      BY <1>5, <3>1
    <3>3. op'[p].key = k /\ op'[p].todo = Transfers(k, r) /\ op'[p].ttl = op[p].ttl
      BY <3>2 DEF GetOp
    <3>4. k \in Key /\ op[p].ttl \in 0 .. LeaseTTL
      BY <1>1
    <3>5. lease'[k] >= LeaseTTL
      BY <1>0, <3>2, <3>4, ReadShrinks
    <3>6. lease'[k] >= op[p].ttl
      BY <2>0, <3>4, <3>5, TimeAssumption
    <3>7. r \in CompleteReplicas(replicas'[k])
      BY <1>3, <3>4
    <3> QED BY <2>2, <3>3, <3>6, <3>7
  <2> QED BY <2>1, <2>2
<1> QED BY <1>7, <1>8, <1>9, <1>10 DEF FreshInv

\* Time passes for the leases as for their readers.
LEMMA FreshTick ==
  ASSUME UnitInv, OpTypeOK, Fresh, FreshInv, StoreTick
  PROVE  FreshInv'
<1>0. TypeOK
  BY DEF UnitInv, HandleInv, SegmentInv
<1>1. UNCHANGED <<objects, replicas, mem>> /\ \A k \in Key : lease'[k] = Elapse(lease[k])
  BY DEF StoreTick, Tick
<1>2. NonEmpty' /\ Written'
  BY <1>1 DEF FreshInv, NonEmpty, Written, CompleteReplicas, MemAt
<1>3. WritersOwn'
  <2>1. \A p \in Proc : Writing(p)' => Writing(p) /\ op'[p] = op[p]
    BY TickOps DEF Writing
  <2> QED BY <1>1, <2>1 DEF FreshInv, WritersOwn, MemAt
<1>4. ReadersLeased'
  <2> SUFFICES ASSUME NEW p \in Proc, Reading(p)'
               PROVE  /\ lease'[op'[p].key] >= op'[p].ttl
                      /\ \E r \in CompleteReplicas(replicas[op'[p].key]) :
                            op'[p].todo \subseteq Transfers(op'[p].key, r)
    BY <1>1 DEF ReadersLeased, CompleteReplicas
  <2>1. op[p].kind = "get"
    BY TickOps DEF Reading
  <2>2. /\ op'[p].key = op[p].key /\ op'[p].todo = op[p].todo
        /\ op[p].ttl \in Nat /\ op'[p].ttl = Elapse(op[p].ttl)
    BY <2>1, TickGet
  <2>3. Reading(p) /\ op[p].key \in Key
    BY <2>1, <2>2, OpFields DEF Reading, Elapse, GetOps
  <2>4. lease[op[p].key] >= op[p].ttl /\ lease[op[p].key] \in Nat
    BY <1>0, <2>3, TimeAssumption DEF FreshInv, ReadersLeased, TypeOK, ObjectTypeOK
  <2>5. lease'[op[p].key] >= op'[p].ttl
    BY <1>1, <2>2, <2>3, <2>4 DEF Elapse
  <2> QED BY <2>2, <2>3, <2>5 DEF FreshInv, ReadersLeased
<1> QED BY <1>2, <1>3, <1>4 DEF FreshInv

\* A cleaner finds nothing to do.
LEMMA FreshUnmount ==
  ASSUME UnitInv, Fresh, NonEmpty, NEW t \in Worker, UnmountNext(t)
  PROVE  UNCHANGED <<objects, replicas, lease>>
<1>0. TypeOK /\ objects \in SUBSET Key /\ replicas \in [Key -> SUBSET ReplicaSet]
      /\ lease \in [Key -> 0 .. LeaseTTL]
  BY DEF UnitInv, HandleInv, SegmentInv, TypeOK, ObjectTypeOK
<1>1. CASE ClearInvalidHandles(t)
  <2> DEFINE keys  == objects \cap KeysOf(cleaner[t].next)
             clean == [k \in Key |-> IF k \in keys THEN CleanReplicas(k) ELSE replicas[k]]
             gone  == {k \in keys : clean[k] = {}}
  <2>1. EraseObjects(clean, gone)
    BY <1>1 DEF ClearInvalidHandles
  <2>2. \A k \in Key : clean[k] = replicas[k]
    BY FreshClean
  <2>3. gone = {}
    BY <1>0, <2>2 DEF NonEmpty
  <2> HIDE DEF clean, gone
  <2>4. /\ objects' = objects
        /\ replicas' = [k \in Key |-> clean[k]]
        /\ lease' = [k \in Key |-> lease[k]]
    BY <2>1, <2>3 DEF EraseObjects
  <2> QED BY <1>0, <2>2, <2>4
<1>2. CASE CommitUnmount(t)
  BY <1>2 DEF CommitUnmount, objectVars
<1> QED BY <1>1, <1>2 DEF UnmountNext

\* The steps of the master that belong to no operation under way.
LEMMA FreshMaster ==
  ASSUME ~RemoveAllAnyTime, UnitInv, OpTypeOK, Fresh, Fresh', FreshInv, MasterNext
  PROVE  Shrinks(Key) \/ (Shrinks({}) /\ \A p \in Proc : ~Writing(p))
<1>0. TypeOK /\ objects \in SUBSET Key /\ NonEmpty /\ SegmentInv
  BY DEF UnitInv, HandleInv, SegmentInv, TypeOK, ObjectTypeOK, FreshInv
<1>1. ASSUME UNCHANGED <<objects, replicas, lease>> PROVE Shrinks(Key)
  <2>1. \A k \in Key : lease[k] \in Nat
    BY <1>0, TimeAssumption DEF TypeOK, ObjectTypeOK
  <2> QED BY <1>0, <1>1, <2>1, SameShrinks
<1>2. ASSUME NEW k \in Key, Remove(k) PROVE Shrinks(Key)
  BY <1>0, <1>2, RemoveShrinks
<1>3. ASSUME NEW sh \in Shard, NEW gone \in SUBSET KeysOf(sh), MayRemoveAll, RemoveAll(sh, gone)
      PROVE  Shrinks({}) /\ \A p \in Proc : ~Writing(p)
  BY <1>0, <1>3, RemoveAllShrinks DEF MayRemoveAll, Writing
<1>4. ASSUME NEW sh \in Shard, NEW gone \in SUBSET KeysOf(sh), EvictShard(sh, gone)
      PROVE  Shrinks(Key)
  BY <1>0, <1>4, EvictShrinks DEF KeysOf
<1>5. CASE EvictStart \/ EvictSecondPass \/ EvictEnd
  BY <1>1, <1>5 DEF EvictStart, EvictSecondPass, EvictEnd, objectVars
<1>6. ASSUME NEW s \in Segment, MountSegment(s) \/ \E t \in Worker : PrepareUnmount(t, s)
      PROVE  Shrinks(Key)
  BY <1>1, <1>6 DEF MountSegment, PrepareUnmount
<1>7. ASSUME NEW t \in Worker, UnmountNext(t) PROVE Shrinks(Key)
  BY <1>0, <1>1, <1>7, FreshUnmount
<1>8. ASSUME NEW sh \in Shard, HoldNext(sh) PROVE Shrinks(Key)
  BY <1>1, <1>8, HoldFrame
<1> QED BY <1>2, <1>3, <1>4, <1>5, <1>6, <1>7, <1>8 DEF MasterNext

\* Every step keeps the invariant while no allocator is destroyed.
LEMMA FreshStep ==
  ASSUME ~RemoveAllAnyTime, UnitInv, UnitInv', OpTypeOK, OpTypeOK', MemTypeOK, Fresh, Fresh',
         FreshInv, [StoreNext]_<<vars, storeVars>>
  PROVE  FreshInv'
<1>0. TypeOK /\ TypeOK' /\ objects \in SUBSET Key /\ NonEmpty
  BY DEF UnitInv, HandleInv, SegmentInv, TypeOK, ObjectTypeOK, FreshInv
<1>1. ASSUME NEW B, Shrinks(B), UNCHANGED mem, NarrowStep,
             \A p \in Proc : Writing(p)' => op'[p] = op[p] /\ op[p].key \in B
      PROVE  FreshInv'
  <2>1. OpsNarrow
    BY <1>1, NarrowSteps
  <2> QED BY <1>0, <1>1, <2>1, ShrinkWriters, ShrinkReaders DEF FreshInv
<1>2. \A p \in Proc : Writing(p) => op[p].key \in Key
  BY OpFields DEF Writing, PutOps
<1>3. ASSUME UNCHANGED vars PROVE Shrinks(Key)
  <2>1. \A k \in Key : lease[k] \in Nat
    BY <1>0, TimeAssumption DEF TypeOK, ObjectTypeOK
  <2> QED BY <1>0, <1>3, <2>1, SameShrinks DEF vars, objectVars
<1>4. ASSUME NEW p \in Proc, NEW o, Become(p, o), o.kind # "put"
      PROVE  \A q \in Proc : Writing(q)' => q # p /\ Writing(q) /\ op'[q] = op[q]
  BY <1>4, BecomeOne DEF Writing
<1>5. Idle.kind = "idle"
  BY DEF Idle
<1>6. ASSUME NEW p \in Proc, NEW k \in Key, PutRefused(p, k) PROVE FreshInv'
  <2>1. Shrinks(Key) /\ UNCHANGED storeVars
    BY <1>0, <1>6, ReadShrinks DEF PutRefused
  <2> QED BY <1>1, <1>2, <2>1 DEF NarrowStep, storeVars, Writing
<1>7. ASSUME NEW p \in Proc, NEW k \in Key, Query(p, k) PROVE FreshInv'
  <2>1. QueryOp(k).kind = "query"
    BY DEF QueryOp
  <2>2. Shrinks(Key) /\ UNCHANGED mem /\ Become(p, QueryOp(k))
    BY <1>3, <1>7 DEF Query
  <2>3. NarrowStep
    BY <1>7 DEF NarrowStep
  <2>4. \A q \in Proc : Writing(q)' => op'[q] = op[q] /\ op[q].key \in Key
    BY <1>2, <1>4, <2>1, <2>2
  <2> QED BY <1>1, <2>2, <2>3, <2>4
<1>8. ASSUME NEW p \in Proc, PutFail(p) PROVE FreshInv'
  <2> DEFINE k == op[p].key
  <2>1. Writing(p) /\ k \in Key /\ k \in objects
    BY <1>2, <1>8 DEF PutFail, Writing, FreshInv, WritersOwn
  <2>2. PutRevoke(k, "MEMORY") /\ Become(p, Idle) /\ UNCHANGED mem
    BY <1>0, <1>8, <2>1, FreshNotFound DEF PutFail
  <2>3. Shrinks(Key \ {k})
    BY <1>0, <2>1, <2>2, RevokeShrinks
  <2>4. \A q \in Proc : Writing(q)' => op'[q] = op[q] /\ op[q].key \in Key \ {k}
    BY <1>2, <1>4, <1>5, <2>1, <2>2 DEF FreshInv, WritersOwn
  <2>5. NarrowStep
    BY <1>8 DEF NarrowStep
  <2> HIDE DEF k
  <2> QED BY <1>1, <2>2, <2>3, <2>4, <2>5
<1>9. ASSUME NEW p \in Proc, TransferRead(p) \/ GetReturn(p) \/ Abandon(p) PROVE FreshInv'
  <2>1. Shrinks(Key) /\ UNCHANGED mem
    BY <1>3, <1>9 DEF TransferRead, GetReturn, Abandon
  <2>2. \E o : Become(p, o) /\ o.kind # "put"
    <3>1. CASE TransferRead(p)
      <4>1. \E T, g : Become(p, GetOp(op[p].key, T, op[p].ttl, g))
        BY <3>1 DEF TransferRead
      <4>2. \A T, g : GetOp(op[p].key, T, op[p].ttl, g).kind = "get"
        BY DEF GetOp
      <4> QED BY <4>1, <4>2
    <3>2. CASE GetReturn(p)
      <4>1. ReturnedOp(op[p].good).kind = "returned"
        BY DEF ReturnedOp
      <4> QED BY <1>5, <3>2, <4>1 DEF GetReturn
    <3>3. CASE Abandon(p)
      BY <1>5, <3>3 DEF Abandon
    <3> QED BY <1>9, <3>1, <3>2, <3>3
  <2>3. \A q \in Proc : Writing(q)' => op'[q] = op[q] /\ op[q].key \in Key
    BY <1>2, <1>4, <2>2
  <2>4. NarrowStep
    BY <1>9 DEF NarrowStep
  <2> QED BY <1>1, <2>1, <2>3, <2>4
<1>10. ASSUME MasterNext, UNCHANGED storeVars PROVE FreshInv'
  <2>1. NarrowStep /\ UNCHANGED mem /\ \A p \in Proc : Writing(p)' => op'[p] = op[p] /\ Writing(p)
    BY <1>10 DEF NarrowStep, storeVars, Writing
  <2>2. CASE Shrinks(Key)
    BY <1>1, <1>2, <2>1, <2>2
  <2>3. CASE Shrinks({}) /\ \A p \in Proc : ~Writing(p)
    BY <1>1, <2>1, <2>3
  <2> QED BY <1>10, <2>2, <2>3, FreshMaster
<1>11. ASSUME UNCHANGED <<vars, storeVars>> PROVE FreshInv'
  <2>1. NarrowStep /\ UNCHANGED mem /\ \A p \in Proc : Writing(p)' => op'[p] = op[p] /\ op[p].key \in Key
    BY <1>2, <1>11 DEF NarrowStep, storeVars, Writing
  <2> QED BY <1>1, <1>3, <1>11, <2>1
<1>12. ASSUME NEW p \in Proc, ProcNext(p) PROVE FreshInv'
  BY <1>0, <1>6, <1>7, <1>8, <1>9, <1>12, FreshPutBegin, FreshWrite, FreshPutFinish, FreshQueryReply
     DEF ProcNext
<1> QED BY <1>10, <1>11, <1>12, FreshTick DEF StoreNext

-----------------------------------------------------------------------------
(* The theorems.                                                            *)

\* The store starts in the invariant.
LEMMA StoreInitially == StoreInit => StoreInv
<1> SUFFICES ASSUME StoreInit PROVE StoreInv
  OBVIOUS
<1>1. UnitInv /\ objects = {} /\ \A k \in Key : replicas[k] = {}
  BY UnitInitially DEF StoreInit, Init
<1>2. \A p \in Proc : op[p] = Idle /\ op[p].kind = "idle"
  BY DEF StoreInit, Idle
<1>3. OpTypeOK /\ MemTypeOK
  BY DEF StoreInit, OpTypeOK, MemTypeOK
<1>4. \A p \in Proc : ~Writing(p) /\ ~Reading(p) /\ op[p].kind # "returned"
  BY <1>2 DEF Writing, Reading
<1>5. ReadersRight /\ Apart /\ TodoGen
  BY <1>4 DEF ReadersRight, Apart, TodoGen
<1>6. FreshInv
  BY <1>1, <1>4 DEF FreshInv, NonEmpty, WritersOwn, ReadersLeased, Written, CompleteReplicas
<1> QED BY <1>1, <1>3, <1>5, <1>6 DEF StoreInv

\* Every step keeps it.
LEMMA StoreStep ==
  ASSUME ~RemoveAllAnyTime
  PROVE  StoreInv /\ Settled /\ Settled' /\ [StoreNext]_<<vars, storeVars>> => StoreInv'
<1> SUFFICES ASSUME StoreInv, Settled, Settled', [StoreNext]_<<vars, storeVars>>
             PROVE  StoreInv'
  OBVIOUS
<1>0. /\ UnitInv /\ HandleInv /\ SegmentInv /\ TypeOK /\ OpTypeOK /\ MemTypeOK
      /\ ReadersRight /\ TodoGen
  BY DEF StoreInv, UnitInv, HandleInv, SegmentInv
<1>1. [Next]_vars
  BY <1>0, MasterStep
<1>2. UnitInv'
  BY <1>0, <1>1, UnitStep
<1>3. OpTypeOK' /\ MemTypeOK'
  BY <1>0, StoreTypes
<1>4. TodoGen'
  BY <1>0, TodoGenStep
<1>5. ASSUME Fresh' PROVE FreshInv'
  <2>1. Fresh
    BY <1>0, <1>1, <1>5, FreshBefore
  <2> QED BY <1>0, <1>2, <1>3, <1>5, <2>1, FreshStep DEF StoreInv
<1>6. ReadersRight' /\ Apart'
  <2>1. CASE Fresh'
    <3>1. (UnitInv /\ OpTypeOK /\ Fresh /\ FreshInv)'
      BY <1>2, <1>3, <1>5, <2>1
    <3> QED BY <3>1, FreshReaders, PTL
  <2>2. CASE Ended'
    BY <2>2, EndedStep
  <2> QED BY <2>1, <2>2 DEF Settled
<1> QED BY <1>2, <1>3, <1>4, <1>5, <1>6 DEF StoreInv

\* A Put that is under way writes to units of its own object only.
LEMMA InvWriteSafe == StoreInv /\ Settled => WriteSafe
<1> SUFFICES ASSUME StoreInv, Settled, NEW p \in Proc, Writing(p), NEW w \in op[p].todo, Valid(w.buf)
             PROVE  w.buf \in Bufs(replicas[op[p].key])
  BY DEF WriteSafe, Writing
<1>1. op[p] \in PutOps /\ w.buf.gen > 0 /\ TypeOK
  BY OpFields DEF StoreInv, UnitInv, HandleInv, SegmentInv, Writing, TodoGen
<1>2. op[p].key \in Key /\ w.buf.seg \in Segment
  BY <1>1 DEF PutOps, Transfer, Buffer
<1>3. CASE Fresh
  <2>1. PICK r \in replicas[op[p].key] : w \in Transfers(op[p].key, r)
    BY <1>3 DEF StoreInv, FreshInv, WritersOwn
  <2> QED BY <1>1, <1>2, <2>1, HeldTransfer
<1>4. CASE Ended
  BY <1>1, <1>2, <1>4 DEF Ended, Valid, Alive, AllocatorFor
<1> QED BY <1>3, <1>4 DEF Settled

\* Complete replicas are written.
LEMMA InvWritten == StoreInv /\ Settled => CompleteIsWritten
<1> SUFFICES ASSUME StoreInv, Settled PROVE CompleteIsWritten
  OBVIOUS
<1>0. TypeOK /\ OpTypeOK /\ MemTypeOK /\ HandleInv
  BY DEF StoreInv, UnitInv, HandleInv, SegmentInv
<1>1. StoreTypeOK
  <2>1. ASSUME NEW s \in Segment, NEW u \in Slot
        PROVE  mem[s][u] = Blank \/ (mem[s][u][1] \in Key /\ mem[s][u][2] \in Nat \ {0})
    BY <1>0 DEF MemTypeOK, Value
  <2>2. ASSUME NEW p \in Proc
        PROVE  /\ op[p].kind \in {"idle", "put", "query", "get", "returned"}
               /\ op[p].kind \in {"put", "get"} => \A w \in op[p].todo : w.buf \in Buffer
               /\ op[p].kind \in {"query", "get"} => op[p].ttl \in 0 .. LeaseTTL
    <3>1. op[p].kind = "put" => \A w \in op[p].todo : w.buf \in Buffer
      BY <1>0, OpFields DEF PutOps, Transfer
    <3>2. op[p].kind = "get" => \A w \in op[p].todo : w.buf \in Buffer
      BY <1>0, OpFields DEF GetOps, Transfer
    <3>3. op[p].kind \in {"query", "get"} => op[p].ttl \in 0 .. LeaseTTL
      BY <1>0, OpFields DEF QueryOps, GetOps
    <3> QED BY <1>0, <3>1, <3>2, <3>3, OpFields
  <2> QED BY <1>0, <2>1, <2>2 DEF StoreTypeOK
<1>2. ASSUME NEW k \in Key, NEW r \in CompleteReplicas(replicas[k]), \A b \in BufsOf(r) : Valid(b),
             NEW w \in Transfers(k, r)
      PROVE  MemAt(w.buf) = w.val
  <2>1. r \in replicas[k]
    BY DEF CompleteReplicas
  <2>2. CASE Fresh
    BY <2>2 DEF StoreInv, FreshInv, Written
  <2>3. CASE Ended
    <3>1. r \in CleanReplicas(k)
      BY <1>2, <2>1 DEF CleanReplicas, HasInvalidMemHandle
    <3> QED BY <1>0, <2>3, <3>1, EndedReadsNothing
  <2> QED BY <2>2, <2>3 DEF Settled
<1> QED BY <1>1, <1>2 DEF CompleteIsWritten, MemAt

\* The invariant of the store, for behaviours whose segments are settled.
LEMMA StoreInvAlways ==
  ASSUME ~RemoveAllAnyTime
  PROVE  StoreSpec /\ []Settled => [](StoreInv /\ Settled)
BY StoreInitially, StoreStep, PTL DEF StoreSpec

\* Segments are settled for good if no thread unmounts any, or if there is one
\* segment that is mounted once.
SegmentsSettle ==
  \/ Worker = {}
  \/ MaxMounts <= 1 /\ \A s, t \in Segment : s = t

\* The segments of every instance of this kind are settled.
LEMMA SettledAlways ==
  ASSUME SegmentsSettle
  PROVE  StoreSpec => []Settled
<1> DEFINE I == /\ UnitInv /\ OpTypeOK /\ MemTypeOK
                /\ \A s \in Segment : mounts[s] <= MaxMounts
                /\ \A h \in holders : h.alloc.gen > 0 /\ h.alloc.gen <= mounts[h.alloc.seg]
                /\ Worker = {} => \A s \in Segment : bufAllocator[s] = mounts[s] /\ mounts[s] <= 1
<1>1. StoreInit => I
  <2> SUFFICES ASSUME StoreInit PROVE I
    OBVIOUS
  <2>1. UnitInv /\ OpTypeOK /\ MemTypeOK
    BY StoreInitially DEF StoreInv
  <2> QED BY <2>1, MaxMountsAssumption DEF StoreInit, Init, SegmentInit
<1>2. I /\ [StoreNext]_<<vars, storeVars>> => I'
  <2> SUFFICES ASSUME I, [StoreNext]_<<vars, storeVars>> PROVE I'
    OBVIOUS
  <2>1. [Next]_vars /\ TypeOK /\ SegmentInv
    BY MasterStep DEF UnitInv, HandleInv, SegmentInv
  <2>2. UnitInv' /\ OpTypeOK' /\ MemTypeOK'
    BY <2>1, UnitStep, StoreTypes
  <2>3. \/ UNCHANGED <<bufAllocator, mounts, holders>>
        \/ \E sh \in Shard : HoldNext(sh)
        \/ \E s \in Segment : MountSegments({s}, Owner[s])
        \/ \E t \in Worker : CommitUnmount(t) \/ \E s \in Segment : PrepareUnmount(t, s)
    <3>1. ASSUME NEW p \in Proc, ProcNext(p) PROVE UNCHANGED segmentVars
      BY <3>1 DEF ProcNext, PutBegin, PutStart, PutRefused, PutStartExists, PutStartNoSpace,
         TransferWrite, PutFinish, PutEnd, PutFail, PutRevoke, NotFound, AccessorMiss, Query,
         QueryReply, GetReplicaList, LeaseOnRead, TransferRead, GetReturn, Abandon, vars
    <3>2. CASE StoreTick
      BY <3>2 DEF StoreTick, Tick, segmentVars
    <3>3. CASE MasterNext
      <4>1. ASSUME NEW t \in Worker, ClearInvalidHandles(t)
            PROVE  UNCHANGED <<bufAllocator, mounts, holders>>
        BY <4>1 DEF ClearInvalidHandles, registryVars
      <4>2. CASE \/ (\E k \in Key : Remove(k))
                 \/ (\E sh \in Shard : \E gone \in SUBSET KeysOf(sh) :
                        RemoveAll(sh, gone) \/ EvictShard(sh, gone))
                 \/ EvictStart \/ EvictSecondPass \/ EvictEnd
        BY <4>2 DEF Remove, RemoveAll, EvictShard, EvictStart, EvictSecondPass, EvictEnd, segmentVars
      <4> QED BY <3>3, <4>1, <4>2 DEF MasterNext, UnmountNext, MountSegment
    <3>4. UNCHANGED segmentVars => UNCHANGED <<bufAllocator, mounts, holders>>
      BY DEF segmentVars
    <3> QED BY <3>1, <3>2, <3>3, <3>4 DEF StoreNext, vars
  <2>4. CASE UNCHANGED <<bufAllocator, mounts, holders>>
    BY <2>2, <2>4
  <2>5. ASSUME NEW s \in Segment, MountSegments({s}, Owner[s]) PROVE I'
    <3>1. \A x \in Segment : mounts[x] \in Nat /\ bufAllocator[x] \in Nat
      BY <2>1 DEF TypeOK, SegmentTypeOK
    <3>2. \A x \in Segment : mounts'[x] <= MaxMounts /\ mounts'[x] >= mounts[x] /\ mounts'[x] \in Nat
      BY <2>5, <3>1, MaxMountsAssumption DEF MountSegments
    <3>3. ASSUME Worker = {}, NEW x \in Segment
          PROVE  bufAllocator'[x] = mounts'[x] /\ mounts'[x] <= 1
      <4>1. CASE x = s /\ MountSucceeds(s)
        <5>1. bufAllocator[s] = 0 /\ mounts[s] = 0
          BY <2>1, <3>3, <4>1 DEF MountSucceeds, SegmentInv, SegmentsConsistent
        <5> QED BY <2>5, <4>1, <5>1 DEF MountSegments
      <4>2. CASE ~(x = s /\ MountSucceeds(s))
        BY <2>5, <3>3, <4>2 DEF MountSegments
      <4> QED BY <4>1, <4>2
    <3>4. ASSUME NEW h \in holders'
          PROVE  h.alloc.gen > 0 /\ h.alloc.gen <= mounts'[h.alloc.seg]
      <4>1. h \in holders /\ h.alloc.seg \in Segment /\ h.alloc.gen \in Nat
        BY <2>1, <2>5 DEF MountSegments, TypeOK, SegmentTypeOK, Meeting, Allocator
      <4> QED BY <3>1, <3>2, <4>1
    <3> QED BY <2>2, <3>2, <3>3, <3>4
  <2>6. ASSUME NEW t \in Worker, CommitUnmount(t) \/ \E s \in Segment : PrepareUnmount(t, s) PROVE I'
    <3>1. UNCHANGED <<mounts, holders>>
      BY <2>6 DEF CommitUnmount, CommitUnmountSegments, PrepareUnmount, PrepareUnmountSegments
    <3> QED BY <2>2, <2>6, <3>1
  <2>7. ASSUME NEW sh \in Shard, HoldNext(sh) PROVE I'
    <3>1. UNCHANGED <<mounts, bufAllocator>>
      BY <2>7, HoldFrame DEF registryVars
    <3>2. ASSUME NEW a \in WithinReach(sh) PROVE a.gen > 0 /\ a.gen <= mounts[a.seg]
      <4>1. ASSUME NEW k \in Key, NEW b \in Bufs(replicas[k]), a = AllocatorFor(b)
            PROVE  a.gen > 0 /\ a.gen <= mounts[a.seg]
        BY <4>1 DEF UnitInv, HandleInv, GenKnown, AllocatorFor
      <4>2. CASE a \in allocators
        <5>1. PICK x \in Segment : status[x] = "OK" /\ a = AllocatorOf(x)
          BY <2>1, <4>2 DEF SegmentInv, SegmentsConsistent
        <5>2. a.seg = x /\ a.gen = bufAllocator[x]
          BY <5>1 DEF AllocatorOf
        <5> QED BY <2>1, <5>1, <5>2 DEF SegmentInv, SegmentsConsistent, MountsPositive, TypeOK,
                   SegmentTypeOK
      <4> QED BY <3>2, <4>1, <4>2 DEF WithinReach, KeysOf
    <3>3. ASSUME NEW h \in holders' PROVE h \in holders \/ h.alloc \in WithinReach(sh)
      BY <2>7, <3>3 DEF HoldNext, HoldAllocator, DropAllocator
    <3> QED BY <2>2, <3>1, <3>2, <3>3
  <2> QED BY <2>3, <2>4, <2>5, <2>6, <2>7
<1>3. I => Settled
  <2> SUFFICES ASSUME I PROVE Settled
    OBVIOUS
  <2>0. /\ \A s \in Segment : mounts[s] \in Nat /\ bufAllocator[s] \in {0, mounts[s]}
        /\ \A h \in holders : h.alloc \in Allocator
    BY DEF UnitInv, HandleInv, SegmentInv, SegmentsConsistent, TypeOK, SegmentTypeOK, Meeting
  <2>1. CASE Worker = {}
    BY <2>0, <2>1 DEF Settled, Fresh, Alive
  <2>2. CASE Worker # {}
    <3>1. MaxMounts <= 1 /\ \A s, t \in Segment : s = t
      BY <2>2 DEF SegmentsSettle
    <3>2. \A s \in Segment : mounts[s] <= 1
      BY <2>0, <3>1, MaxMountsAssumption
    <3>3. ASSUME NEW s \in Segment, mounts[s] = 1, ~Ended PROVE Alive([seg |-> s, gen |-> 1])
      <4>1. CASE bufAllocator[s] # 0
        BY <2>0, <3>3, <4>1 DEF Alive
      <4>2. CASE bufAllocator[s] = 0
        <5>1. PICK h \in holders : TRUE
          BY <3>1, <3>3, <4>2 DEF Ended
        <5>2. h.alloc \in Allocator /\ h.alloc.gen > 0 /\ h.alloc.gen <= mounts[h.alloc.seg]
          BY <2>0
        <5>3. h.alloc.seg = s /\ h.alloc.gen = 1
          BY <3>1, <3>3, <5>2 DEF Allocator
        <5>4. h.alloc = [seg |-> s, gen |-> 1]
          BY <5>2, <5>3 DEF Allocator
        <5> QED BY <5>4 DEF Alive
      <4> QED BY <4>1, <4>2
    <3> QED BY <3>2, <3>3 DEF Settled, Fresh
  <2> QED BY <2>1, <2>2
<1> HIDE DEF I
<1> QED BY <1>1, <1>2, <1>3, PTL DEF StoreSpec

\* A Get returns data of its object or an error, never anything else: the replica
\* it reads stays as long as its lease, and no Put under way has a unit of it.
THEOREM ReadsCorrect ==
  ASSUME ~RemoveAllAnyTime, ~PreferSameNode
  PROVE  StoreSpec /\ []Settled => []ReadIntegrity
<1>1. StoreInit => ReadersGood
  <2> SUFFICES ASSUME StoreInit PROVE ReadersGood
    OBVIOUS
  <2>1. \A p \in Proc : op[p].kind = "idle"
    BY DEF StoreInit, Idle
  <2> QED BY <2>1 DEF ReadersGood, ReadIntegrity, Reading
<1>2. StoreInv /\ ReadersGood /\ [StoreNext]_<<vars, storeVars>> => ReadersGood'
  BY GoodStep DEF StoreInv
<1>3. ReadersGood => ReadIntegrity
  BY DEF ReadersGood
<1> QED BY <1>1, <1>2, <1>3, StoreInvAlways, PTL DEF StoreSpec

\* Whatever is still to be written by a Put goes to units that the master keeps
\* for that object.
THEOREM WritesCorrect ==
  ASSUME ~RemoveAllAnyTime
  PROVE  StoreSpec /\ []Settled => []WriteSafe
BY StoreInvAlways, InvWriteSafe, PTL

\* A replica that the master reports as complete holds the data of its object.
THEOREM CompleteCorrect ==
  ASSUME ~RemoveAllAnyTime
  PROVE  StoreSpec /\ []Settled => []CompleteIsWritten
BY StoreInvAlways, InvWritten, PTL

\* All three without a condition on the behaviour, for the instances whose segments
\* are never unmounted and for those with one segment that is mounted once.
THEOREM StoreCorrect ==
  ASSUME ~RemoveAllAnyTime, ~PreferSameNode, SegmentsSettle
  PROVE  StoreSpec => [](ReadIntegrity /\ WriteSafe /\ CompleteIsWritten)
BY SettledAlways, ReadsCorrect, WritesCorrect, CompleteCorrect, PTL

-----------------------------------------------------------------------------
(* Without disk replicas the store implements ObjectStore.                   *)

\* A memory replica of at least one slice.
InMemory(r) == r.type = "MEMORY" /\ 1 \in DOMAIN r.bufs

MemOnly == \A k \in Key : \A r \in replicas[k] : InMemory(r)

\* What Allocate returns is in memory, unfinished, and not empty.
LEMMA AllocateInMemory ==
  ASSUME NEW F, NEW n \in SliceNums, NEW rn \in ReplicaNums, NEW M \in Allocate(F, n, rn)
  PROVE  M # {} /\ \A r \in M : InMemory(r) /\ r.status = "PROCESSING"
<1>1. PICK m \in 1 .. rn :
         M \in {{MemoryReplica(A[j]) : j \in 1 .. m} : A \in Placements(F, n, m)}
  BY DEF Allocate
<1>2. PICK A \in [1 .. m -> [1 .. n -> F]] : M = {MemoryReplica(A[j]) : j \in 1 .. m}
  BY <1>1 DEF Placements
<1>3. 1 \in 1 .. m /\ 1 \in 1 .. n
  BY ConfigAssumption
<1>4. ASSUME NEW j \in 1 .. m
      PROVE  InMemory(MemoryReplica(A[j])) /\ MemoryReplica(A[j]).status = "PROCESSING"
  <2>1. DOMAIN A[j] = 1 .. n
    BY <1>2
  <2> QED BY <1>3, <2>1 DEF MemoryReplica, InMemory
<1> QED BY <1>2, <1>3, <1>4

\* Marking a replica complete leaves it in memory.
LEMMA MarkInMemory ==
  ASSUME NEW R \in SUBSET ReplicaSet, NEW ty, \A r \in R : InMemory(r)
  PROVE  /\ \A r \in MarkComplete(R, ty) : InMemory(r)
         /\ ty = "MEMORY" => \A r \in MarkComplete(R, ty) : r.status = "COMPLETE"
         /\ R # {} => MarkComplete(R, ty) # {}
<1>1. \A r \in R : LET x == [r EXCEPT !.status = "COMPLETE"]
                   IN  InMemory(x) /\ x.status = "COMPLETE"
  BY DEF ReplicaSet, InMemory
<1>2. \A r \in R : r.type = "MEMORY"
  BY DEF InMemory
<1> QED BY <1>1, <1>2 DEF MarkComplete

\* Erasing and keeping entries.
LEMMA EraseMemOnly ==
  ASSUME NEW new, NEW gone, EraseObjects(new, gone), \A k \in Key : \A r \in new[k] : InMemory(r)
  PROVE  MemOnly'
BY DEF EraseObjects, MemOnly, InMemory

\* Replicas other than those in memory never appear.
LEMMA MemOnlyStep ==
  ASSUME ~UseDisk, TypeOK, MemOnly, [Next]_vars
  PROVE  MemOnly'
<1>0. replicas \in [Key -> SUBSET ReplicaSet]
  BY DEF TypeOK, ObjectTypeOK
<1>1. ASSUME NEW k \in Key PROVE CleanReplicas(k) \subseteq replicas[k]
  BY DEF CleanReplicas
<1>2. ASSUME NEW k \in Key, NEW R, \A r \in R : InMemory(r)
      PROVE  \A j \in Key : \A r \in With(k, R)[j] : InMemory(r)
  BY <1>0, <1>2 DEF With, MemOnly
<1>3. ASSUME NEW new, KeepObjects(new), \A j \in Key : \A r \in new[j] : InMemory(r) PROVE MemOnly'
  BY <1>3 DEF KeepObjects, MemOnly, InMemory
<1>4. ASSUME UNCHANGED replicas PROVE MemOnly'
  BY <1>4 DEF MemOnly, InMemory
<1>5. ASSUME NEW k \in Key, KeyNext(k) PROVE MemOnly'
  <2>0. /\ \A r \in replicas[k] : InMemory(r)
        /\ \A r \in CleanReplicas(k) : InMemory(r)
    BY <1>1 DEF MemOnly
  <2>1. CASE AccessorMiss(k)
    BY <2>1, EraseMemOnly DEF AccessorMiss, MemOnly
  <2>2. CASE ExistKey(k) \/ GetReplicaList(k) \/ PutStartExists(k)
    BY <1>2, <1>3, <2>0, <2>2 DEF ExistKey, GetReplicaList, LeaseOnRead, PutStartExists
  <2>3. CASE PutStartNoSpace(k)
    BY <1>2, <1>3, <2>3 DEF PutStartNoSpace
  <2>4. ASSUME NEW n \in SliceNums, NEW rn \in ReplicaNums,
               NEW M \in Allocate(FreeBuffers(k), n, rn), NEW soft, PutStart(k, M, soft)
        PROVE  MemOnly'
    <3>1. \A r \in M : InMemory(r)
      BY AllocateInMemory
    <3>2. CASE k \in objects
      BY <1>2, <1>3, <2>4, <3>2 DEF PutStart
    <3>3. CASE k \notin objects
      <4>1. replicas' = With(k, M)
        BY <2>4, <3>3 DEF PutStart
      <4> QED BY <1>2, <3>1, <4>1 DEF MemOnly, InMemory
    <3> QED BY <3>2, <3>3
  <2>5. ASSUME NEW ty, PutEnd(k, ty) PROVE MemOnly'
    <3>1. \A r \in MarkComplete(CleanReplicas(k), ty) : InMemory(r)
      <4>1. CleanReplicas(k) \in SUBSET ReplicaSet
        BY <1>0, <1>1
      <4> QED BY <2>0, <4>1, MarkInMemory
    <3> QED BY <1>2, <1>3, <2>5, <3>1 DEF PutEnd
  <2>6. ASSUME NEW ty, PutRevoke(k, ty) PROVE MemOnly'
    <3> DEFINE R == CleanReplicas(k)
               left == IF HasDiffRepStatus(R, "PROCESSING", ty) THEN R ELSE EraseReplica(R, ty)
    <3>1. \A r \in left : InMemory(r)
      BY <2>0 DEF EraseReplica
    <3>2. \E gone : EraseObjects(With(k, left), gone)
      BY <2>6 DEF PutRevoke
    <3> HIDE DEF left
    <3> QED BY <1>2, <3>1, <3>2, EraseMemOnly
  <2>7. CASE Remove(k)
    <3>1. \E gone : EraseObjects(With(k, CleanReplicas(k)), gone)
      BY <2>7 DEF Remove
    <3> QED BY <1>2, <2>0, <3>1, EraseMemOnly
  <2> QED BY <1>5, <2>1, <2>2, <2>3, <2>4, <2>5, <2>6, <2>7 DEF KeyNext
<1>6. ASSUME NEW sh \in Shard, ShardNext(sh) PROVE MemOnly'
  <2>1. ASSUME NEW pattern, GetReplicaListByRegex(sh, pattern) PROVE MemOnly'
    BY <1>4, <2>1 DEF GetReplicaListByRegex
  <2>2. ASSUME NEW pattern, RemoveByRegex(sh, pattern) PROVE MemOnly'
    BY <2>2, EraseMemOnly DEF RemoveByRegex, MemOnly
  <2>3. ASSUME NEW gone, RemoveAll(sh, gone) PROVE MemOnly'
    BY <2>3, EraseMemOnly DEF RemoveAll, MemOnly
  <2>4. ASSUME NEW gone, EvictShard(sh, gone) PROVE MemOnly'
    <3> DEFINE left == [k \in Key |-> IF k \in gone THEN EraseReplica(replicas[k], "MEMORY")
                                                    ELSE replicas[k]]
    <3>1. \A k \in Key : \A r \in left[k] : InMemory(r)
      BY DEF MemOnly, EraseReplica
    <3>2. \E out : EraseObjects(left, out)
      BY <2>4 DEF EvictShard
    <3> HIDE DEF left
    <3> QED BY <3>1, <3>2, EraseMemOnly
  <2> QED BY <1>6, <2>1, <2>2, <2>3, <2>4 DEF ShardNext
<1>7. ASSUME NEW t, ClearInvalidHandles(t) PROVE MemOnly'
  <2> DEFINE keys  == objects \cap KeysOf(cleaner[t].next)
             clean == [k \in Key |-> IF k \in keys THEN CleanReplicas(k) ELSE replicas[k]]
  <2>1. \A k \in Key : \A r \in clean[k] : InMemory(r)
    BY <1>1 DEF MemOnly
  <2>2. \E gone : EraseObjects(clean, gone)
    BY <1>7 DEF ClearInvalidHandles
  <2> HIDE DEF clean
  <2> QED BY <2>1, <2>2, EraseMemOnly
<1>8. CASE \/ (\E t \in Thread : CommitUnmount(t))
           \/ (\E s \in Segment : MountSegment(s) \/ \E t \in Worker : PrepareUnmount(t, s))
           \/ (\E c \in Client : ClientNext(c))
           \/ MonitorScan \/ MonitorExpire \/ EvictStart \/ EvictSecondPass \/ EvictEnd \/ Tick
           \/ UNCHANGED vars \/ (\E sh \in Shard : HoldNext(sh))
  BY <1>4, <1>8, HoldFrame DEF CommitUnmount, MountSegment, PrepareUnmount, ClientNext, Ping, ReMountSegment,
     MonitorScan, MonitorExpire, EvictStart, EvictSecondPass, EvictEnd, Tick, objectVars, vars
<1> QED BY <1>5, <1>6, <1>7, <1>8 DEF Next, UnmountNext

\* The state of an object while no allocator has been destroyed.
FreshStates ==
  \A k \in Key : StateOf[k] = IF k \notin objects THEN "absent"
                              ELSE IF CompleteReplicas(replicas[k]) = {} THEN "reserved"
                              ELSE "readable"

LEMMA FreshStateOf == UnitInv /\ Fresh /\ NonEmpty => FreshStates
<1> SUFFICES ASSUME UnitInv, Fresh, NonEmpty, NEW k \in Key
             PROVE  StateOf[k] = IF k \notin objects THEN "absent"
                                 ELSE IF CompleteReplicas(replicas[k]) = {} THEN "reserved"
                                 ELSE "readable"
  BY DEF FreshStates
<1>1. CleanReplicas(k) = replicas[k] /\ (Found(k) <=> k \in objects)
  BY FreshClean DEF NonEmpty
<1> QED BY <1>1 DEF StateOf

\* And once none is mounted.
LEMMA EndedStateOf == UnitInv /\ MemOnly /\ Ended => \A k \in Key : ~Found(k) /\ StateOf[k] = "absent"
<1> SUFFICES ASSUME UnitInv, MemOnly, Ended, NEW k \in Key PROVE ~Found(k) /\ StateOf[k] = "absent"
  OBVIOUS
<1>1. CleanReplicas(k) = {}
  <2> SUFFICES ASSUME NEW r \in CleanReplicas(k) PROVE FALSE
    OBVIOUS
  <2>1. Transfers(k, r) = {}
    BY EndedReadsNothing DEF UnitInv
  <2>2. InMemory(r)
    BY DEF CleanReplicas, MemOnly
  <2> QED BY <2>1, <2>2 DEF Transfers, InMemory
<1> QED BY <1>1 DEF Found, StateOf

\* What each operation is to ObjectStore.
CallsOf ==
  \A p \in Proc :
    /\ op[p].kind = "put" => CallOf[p] = Abstract!Call("put", op[p].key)
    /\ op[p].kind = "get" => CallOf[p] = Abstract!Call("get", op[p].key)
    /\ op[p].kind = "returned" => CallOf[p] = [kind |-> "data"]
    /\ op[p].kind \in {"idle", "query"} => CallOf[p] = Abstract!NoCall

LEMMA CallOfKind == CallsOf
<1> SUFFICES ASSUME NEW p \in Proc
             PROVE  /\ op[p].kind = "put" => CallOf[p] = Abstract!Call("put", op[p].key)
                    /\ op[p].kind = "get" => CallOf[p] = Abstract!Call("get", op[p].key)
                    /\ op[p].kind = "returned" => CallOf[p] = [kind |-> "data"]
                    /\ op[p].kind \in {"idle", "query"} => CallOf[p] = Abstract!NoCall
  BY DEF CallsOf
<1>1. CallOf[p] = CASE op[p].kind \in {"put", "get"} -> [kind |-> op[p].kind, key |-> op[p].key]
                    [] op[p].kind = "returned" -> [kind |-> "data"]
                    [] OTHER -> Idle
  BY DEF CallOf
<1>2. CASE op[p].kind = "put"
  BY <1>1, <1>2 DEF Abstract!Call
<1>3. CASE op[p].kind = "get"
  BY <1>1, <1>3 DEF Abstract!Call
<1>4. CASE op[p].kind = "returned"
  BY <1>1, <1>4
<1>5. CASE op[p].kind \in {"idle", "query"}
  BY <1>1, <1>5 DEF Idle, Abstract!NoCall
<1> QED BY <1>2, <1>3, <1>4, <1>5

\* Calls that differ.
LEMMA CallsDiffer ==
  ASSUME NEW k
  PROVE  /\ Abstract!Call("put", k) # Abstract!NoCall
         /\ Abstract!Call("get", k) # Abstract!NoCall
         /\ [kind |-> "data"] # Abstract!NoCall
         /\ \A j : /\ Abstract!Call("put", j) = Abstract!Call("put", k) => j = k
                   /\ Abstract!Call("get", j) # Abstract!Call("put", k)
         /\ [kind |-> "data"] # Abstract!Call("put", k)
<1>1. \A j, x : Abstract!Call(x, j).kind = x /\ Abstract!Call(x, j).key = j
  BY DEF Abstract!Call
<1>2. Abstract!NoCall.kind = "idle" /\ [kind |-> "data"].kind = "data"
  BY DEF Abstract!NoCall
<1> QED BY <1>1, <1>2

\* How states and calls change in one place.
LEMMA StateChanges ==
  ASSUME NEW k \in Key, NEW v, StateOf'[k] = v, \A j \in Key \ {k} : StateOf'[j] = StateOf[j]
  PROVE  StateOf' = [StateOf EXCEPT ![k] = v]
BY DEF StateOf

LEMMA StateStays ==
  ASSUME \A k \in Key : StateOf'[k] = StateOf[k]
  PROVE  StateOf' = StateOf
BY DEF StateOf

LEMMA CallChanges ==
  ASSUME NEW p \in Proc, NEW c, CallOf'[p] = c, \A q \in Proc \ {p} : op'[q] = op[q]
  PROVE  CallOf' = [CallOf EXCEPT ![p] = c]
<1>1. \A q \in Proc \ {p} : CallOf'[q] = CallOf[q]
  BY DEF CallOf
<1> QED BY <1>1 DEF CallOf

LEMMA CallStays ==
  ASSUME \A q \in Proc : CallOf'[q] = CallOf[q]
  PROVE  CallOf' = CallOf
BY DEF CallOf

\* A thread that turns to another operation changes its own call only.
LEMMA BecomeCall ==
  ASSUME OpTypeOK, NEW p \in Proc, NEW o, Become(p, o)
  PROVE  /\ op'[p] = o
         /\ o.kind = "put" => CallOf' = [CallOf EXCEPT ![p] = Abstract!Call("put", o.key)]
         /\ o.kind = "get" => CallOf' = [CallOf EXCEPT ![p] = Abstract!Call("get", o.key)]
         /\ o.kind = "returned" => CallOf' = [CallOf EXCEPT ![p] = [kind |-> "data"]]
         /\ o.kind \in {"idle", "query"} => CallOf' = [CallOf EXCEPT ![p] = Abstract!NoCall]
<1>1. op'[p] = o /\ \A q \in Proc \ {p} : op'[q] = op[q]
  BY BecomeOne
<1>2. CallsOf'
  BY CallOfKind, PTL
<1>3. /\ o.kind = "put" => CallOf'[p] = Abstract!Call("put", o.key)
      /\ o.kind = "get" => CallOf'[p] = Abstract!Call("get", o.key)
      /\ o.kind = "returned" => CallOf'[p] = [kind |-> "data"]
      /\ o.kind \in {"idle", "query"} => CallOf'[p] = Abstract!NoCall
  BY <1>1, <1>2 DEF CallsOf, Abstract!Call, Abstract!NoCall
<1> QED BY <1>1, <1>3, CallChanges

\* The same call with other transfers left is the same call.
LEMMA SameCall ==
  ASSUME NEW p \in Proc, NEW c, CallOf[p] = c
  PROVE  [CallOf EXCEPT ![p] = c] = CallOf
BY DEF CallOf

\* Steps that are nothing to ObjectStore.
LEMMA QuietCalls ==
  ASSUME OpTypeOK, NEW p \in Proc,
         \/ \E k \in Key : PutRefused(p, k) \/ Query(p, k)
         \/ TransferWrite(p) \/ TransferRead(p)
  PROVE  UNCHANGED CallOf
<1>1. CASE \E k \in Key : PutRefused(p, k)
  <2>1. UNCHANGED op
    BY <1>1 DEF PutRefused, storeVars
  <2> QED BY <2>1 DEF CallOf
<1>2. ASSUME NEW k \in Key, Query(p, k) PROVE UNCHANGED CallOf
  <2>1. op[p].kind = "idle" /\ QueryOp(k).kind = "query" /\ Become(p, QueryOp(k))
    BY <1>2 DEF Query, Idle, QueryOp
  <2>2. CallOf[p] = Abstract!NoCall
    BY <2>1, CallOfKind DEF CallsOf
  <2> QED BY <2>1, <2>2, BecomeCall, SameCall
<1>3. CASE TransferWrite(p)
  <2>1. op[p].kind = "put" /\ \E T : Become(p, PutOp(op[p].key, T))
    BY <1>3 DEF TransferWrite
  <2>2. \A T : PutOp(op[p].key, T).kind = "put" /\ PutOp(op[p].key, T).key = op[p].key
    BY DEF PutOp
  <2>3. CallOf[p] = Abstract!Call("put", op[p].key)
    BY <2>1, CallOfKind DEF CallsOf
  <2>4. CallOf' = [CallOf EXCEPT ![p] = Abstract!Call("put", op[p].key)]
    BY <2>1, <2>2, BecomeCall
  <2> QED BY <2>3, <2>4, SameCall
<1>4. CASE TransferRead(p)
  <2>1. op[p].kind = "get" /\ \E T, g : Become(p, GetOp(op[p].key, T, op[p].ttl, g))
    BY <1>4 DEF TransferRead
  <2>2. \A T, g : LET o == GetOp(op[p].key, T, op[p].ttl, g) IN o.kind = "get" /\ o.key = op[p].key
    BY DEF GetOp
  <2>3. CallOf[p] = Abstract!Call("get", op[p].key)
    BY <2>1, CallOfKind DEF CallsOf
  <2>4. CallOf' = [CallOf EXCEPT ![p] = Abstract!Call("get", op[p].key)]
    BY <2>1, <2>2, BecomeCall
  <2> QED BY <2>3, <2>4, SameCall
<1> QED BY <1>1, <1>2, <1>3, <1>4

\* Time changes no call.
LEMMA TickCalls ==
  ASSUME OpTypeOK, StoreTick
  PROVE  UNCHANGED CallOf
<1> SUFFICES ASSUME NEW p \in Proc PROVE CallOf'[p] = CallOf[p]
  BY CallStays
<1>1. CallsOf /\ CallsOf'
  BY CallOfKind, PTL
<1>2. op'[p].kind = op[p].kind
  BY TickOps
<1>3. op[p].kind \in {"put", "get"} => op'[p].key = op[p].key
  BY TickOps, TickGet
<1>4. op[p].kind \in {"idle", "put", "query", "get", "returned"}
  BY OpFields
<1> QED BY <1>1, <1>2, <1>3, <1>4 DEF CallsOf, Abstract!Call, Abstract!NoCall

\* A Put ends.
LEMMA PutEnds ==
  ASSUME OpTypeOK, NEW p \in Proc, PutFinish(p) \/ PutFail(p)
  PROVE  /\ op[p].key \in Key
         /\ CallOf[p] = Abstract!Call("put", op[p].key)
         /\ CallOf' = [CallOf EXCEPT ![p] = Abstract!NoCall]
<1>1. op[p].kind = "put" /\ Become(p, Idle)
  BY DEF PutFinish, PutFail
<1>2. op[p].key \in Key
  BY <1>1, OpFields DEF PutOps
<1>3. Idle.kind = "idle"
  BY DEF Idle
<1> QED BY <1>1, <1>2, <1>3, BecomeCall, CallOfKind DEF CallsOf

\* A Get ends, or a thread gives up.
LEMMA LeaveCalls ==
  ASSUME OpTypeOK, NEW p \in Proc, GetReturn(p) \/ Abandon(p), UNCHANGED StateOf
  PROVE  [Abstract!ObjectStoreNext]_<<StateOf, CallOf>>
<1>0. Idle.kind = "idle" /\ ReturnedOp(op[p].good).kind = "returned"
  BY DEF Idle, ReturnedOp
<1>1. CASE CallOf' = [CallOf EXCEPT ![p] = Abstract!NoCall]
  <2>1. CASE CallOf[p] = Abstract!NoCall
    BY <1>1, <2>1, SameCall
  <2>2. CASE CallOf[p] # Abstract!NoCall
    BY <1>1, <2>2 DEF Abstract!EndCall, Abstract!ObjectStoreNext
  <2> QED BY <2>1, <2>2
<1>2. CASE Become(p, Idle)
  BY <1>0, <1>1, <1>2, BecomeCall
<1>3. CASE GetReturn(p) /\ Become(p, ReturnedOp(op[p].good))
  <2>1. op[p].kind = "get" /\ op[p].key \in Key
    BY <1>3, OpFields DEF GetReturn, GetOps
  <2>2. CallOf[p] = Abstract!Call("get", op[p].key)
    BY <2>1, CallOfKind DEF CallsOf
  <2>3. CallOf' = [CallOf EXCEPT ![p] = [kind |-> "data"]]
    BY <1>0, <1>3, BecomeCall
  <2> QED BY <2>1, <2>2, <2>3 DEF Abstract!EndGet, Abstract!ObjectStoreNext
<1> QED BY <1>2, <1>3 DEF GetReturn, Abandon

\* Steps after which no segment is mounted.
LEMMA EndedSimulation ==
  ASSUME StoreInv, UnitInv', MemOnly, MemOnly', Ended', [StoreNext]_<<vars, storeVars>>
  PROVE  [Abstract!ObjectStoreNext]_<<StateOf, CallOf>>
<1>0. UnitInv /\ SegmentInv /\ OpTypeOK
  BY DEF StoreInv, UnitInv, HandleInv
<1>1. \A k \in Key : StateOf'[k] = "absent"
  <2>1. (UnitInv /\ MemOnly /\ Ended)'
    OBVIOUS
  <2>2. (\A k \in Key : ~Found(k) /\ StateOf[k] = "absent")'
    BY <2>1, EndedStateOf, PTL
  <2> QED BY <2>2
<1>2. ASSUME UNCHANGED CallOf PROVE Abstract!ObjectStoreNext
  <2>1. StateOf' = [k \in Key |-> IF k \in Key THEN "absent" ELSE StateOf[k]]
    BY <1>1 DEF StateOf
  <2>2. Abstract!Vanish(Key)
    BY <1>2, <2>1 DEF Abstract!Vanish
  <2> QED BY <2>2 DEF Abstract!ObjectStoreNext
<1>3. CASE UNCHANGED storeVars
  <2>1. UNCHANGED op
    BY <1>3 DEF storeVars
  <2> QED BY <1>2, <2>1 DEF CallOf
<1>4. CASE StoreTick
  BY <1>0, <1>2, <1>4, TickCalls
<1>5. ASSUME NEW p \in Proc, ProcNext(p) PROVE [Abstract!ObjectStoreNext]_<<StateOf, CallOf>>
  <2>1. UNCHANGED segmentVars
    BY <1>5 DEF ProcNext, PutBegin, PutStart, PutRefused, PutStartExists, PutStartNoSpace,
       TransferWrite, PutFinish, PutEnd, PutFail, PutRevoke, NotFound, AccessorMiss, Query,
       QueryReply, GetReplicaList, LeaseOnRead, TransferRead, GetReturn, Abandon, vars
  <2>2. Ended
    BY <2>1 DEF Ended, segmentVars
  <2>3. \A k \in Key : ~Found(k) /\ StateOf[k] = "absent"
    BY <1>0, <2>2, EndedStateOf
  <2>4. UNCHANGED StateOf
    BY <1>1, <2>3, StateStays
  <2>5. ASSUME NEW k \in Key, PutBegin(p, k) PROVE FALSE
    BY <1>0, <2>2, <2>5, EndedAllocatesNothing DEF PutBegin
  <2>6. CASE \/ \E k \in Key : PutRefused(p, k) \/ Query(p, k)
             \/ TransferWrite(p) \/ TransferRead(p)
    BY <1>0, <1>2, <2>6, QuietCalls
  <2>7. CASE PutFinish(p) \/ PutFail(p)
    BY <1>0, <2>4, <2>7, PutEnds, CallsDiffer DEF Abstract!EndCall, Abstract!ObjectStoreNext
  <2>8. CASE QueryReply(p)
    <3>1. op[p].kind = "query" /\ op[p].key \in Key
      BY <1>0, <2>8, QueryAnswers DEF QueryReply
    <3>2. Become(p, Idle) /\ Idle.kind = "idle"
      BY <2>3, <2>8, <3>1 DEF QueryReply, GetReplicaList, LeaseOnRead, Idle
    <3>3. CallOf[p] = Abstract!NoCall
      BY <3>1, CallOfKind DEF CallsOf
    <3> QED BY <1>0, <1>2, <3>2, <3>3, BecomeCall, SameCall
  <2>9. CASE GetReturn(p) \/ Abandon(p)
    BY <1>0, <2>4, <2>9, LeaveCalls
  <2> QED BY <1>5, <2>5, <2>6, <2>7, <2>8, <2>9 DEF ProcNext
<1> QED BY <1>3, <1>4, <1>5 DEF StoreNext

\* Objects only go in the steps of the master, and go as a whole.
LEMMA MasterVanishes ==
  ASSUME UnitInv, Fresh, NonEmpty, MemOnly, MasterNext
  PROVE  \A k \in objects' : k \in objects /\ replicas'[k] = replicas[k]
<1>0. TypeOK /\ objects \in SUBSET Key /\ SegmentInv
  BY DEF UnitInv, HandleInv, SegmentInv, TypeOK, ObjectTypeOK
<1>1. ASSUME NEW new, NEW gone, EraseObjects(new, gone), \A k \in objects \ gone : new[k] = replicas[k]
      PROVE  \A k \in objects' : k \in objects /\ replicas'[k] = replicas[k]
  BY <1>0, <1>1 DEF EraseObjects
<1>2. ASSUME NEW k \in Key, Remove(k)
      PROVE  \A j \in objects' : j \in objects /\ replicas'[j] = replicas[j]
  <2>1. \E gone : EraseObjects(With(k, replicas[k]), gone)
    BY <1>2, FreshClean DEF Remove
  <2>2. \A j \in Key : With(k, replicas[k])[j] = replicas[j]
    BY <1>0 DEF With, TypeOK, ObjectTypeOK
  <2> QED BY <1>0, <1>1, <2>1, <2>2
<1>3. ASSUME NEW sh, NEW gone, RemoveAll(sh, gone)
      PROVE  \A j \in objects' : j \in objects /\ replicas'[j] = replicas[j]
  BY <1>1, <1>3 DEF RemoveAll
<1>4. ASSUME NEW sh, NEW gone, EvictShard(sh, gone)
      PROVE  \A j \in objects' : j \in objects /\ replicas'[j] = replicas[j]
  <2> DEFINE left == [k \in Key |-> IF k \in gone THEN EraseReplica(replicas[k], "MEMORY")
                                                  ELSE replicas[k]]
             out  == {k \in gone : left[k] = {}}
  <2>1. EraseObjects(left, out)
    BY <1>4 DEF EvictShard
  <2>2. \A k \in Key : k \in gone => left[k] = {}
    BY DEF MemOnly, InMemory, EraseReplica
  <2>3. \A k \in objects \ out : left[k] = replicas[k]
    BY <1>0, <2>2
  <2> HIDE DEF left, out
  <2> QED BY <1>1, <2>1, <2>3
<1>5. CASE EvictStart \/ EvictSecondPass \/ EvictEnd
  BY <1>5 DEF EvictStart, EvictSecondPass, EvictEnd, objectVars
<1>6. ASSUME NEW s \in Segment, MountSegment(s) \/ \E t \in Worker : PrepareUnmount(t, s)
      PROVE  \A j \in objects' : j \in objects /\ replicas'[j] = replicas[j]
  BY <1>6 DEF MountSegment, PrepareUnmount
<1>7. ASSUME NEW t \in Worker, UnmountNext(t)
      PROVE  \A j \in objects' : j \in objects /\ replicas'[j] = replicas[j]
  BY <1>7, FreshUnmount
<1>8. ASSUME NEW sh \in Shard, HoldNext(sh)
      PROVE  \A j \in objects' : j \in objects /\ replicas'[j] = replicas[j]
  BY <1>8, HoldFrame
<1> QED BY <1>2, <1>3, <1>4, <1>5, <1>6, <1>7, <1>8 DEF MasterNext

\* Steps before and after which no allocator has been destroyed.
LEMMA FreshSimulation ==
  ASSUME StoreInv, StoreInv', MemOnly, MemOnly', Fresh, Fresh', [StoreNext]_<<vars, storeVars>>
  PROVE  [Abstract!ObjectStoreNext]_<<StateOf, CallOf>>
<1>0. UnitInv /\ TypeOK /\ objects \in SUBSET Key /\ OpTypeOK /\ FreshInv /\ NonEmpty
  BY DEF StoreInv, UnitInv, HandleInv, SegmentInv, TypeOK, ObjectTypeOK, FreshInv
<1>1. FreshStates
  BY <1>0, FreshStateOf
<1>2. FreshStates'
  <2>1. (UnitInv /\ Fresh /\ NonEmpty)'
    BY DEF StoreInv, FreshInv
  <2> QED BY <2>1, FreshStateOf, PTL
<1>3. ASSUME UNCHANGED objects, \A k \in Key : replicas'[k] = replicas[k] PROVE UNCHANGED StateOf
  BY <1>1, <1>2, <1>3, StateStays DEF FreshStates, CompleteReplicas
<1>4. ASSUME UNCHANGED vars PROVE UNCHANGED StateOf
  BY <1>3, <1>4 DEF vars, objectVars
<1>5. ASSUME MasterNext, UNCHANGED storeVars PROVE Abstract!ObjectStoreNext
  <2>1. \A k \in objects' : k \in objects /\ replicas'[k] = replicas[k]
    BY <1>0, <1>5, MasterVanishes
  <2>2. \A k \in Key : StateOf'[k] = IF k \in Key \ objects' THEN "absent" ELSE StateOf[k]
    BY <1>1, <1>2, <2>1 DEF FreshStates, CompleteReplicas
  <2>3. StateOf' = [k \in Key |-> IF k \in Key \ objects' THEN "absent" ELSE StateOf[k]]
    BY <2>2 DEF StateOf
  <2>4. UNCHANGED op
    BY <1>5 DEF storeVars
  <2>5. UNCHANGED CallOf
    BY <2>4 DEF CallOf
  <2>6. Abstract!Vanish(Key \ objects')
    BY <2>3, <2>5 DEF Abstract!Vanish
  <2> QED BY <2>6 DEF Abstract!ObjectStoreNext
<1>6. CASE StoreTick
  <2>1. UNCHANGED StateOf
    BY <1>3, <1>6 DEF StoreTick, Tick
  <2> QED BY <1>0, <1>6, <2>1, TickCalls
<1>7. CASE UNCHANGED <<vars, storeVars>>
  <2>1. UNCHANGED op
    BY <1>7 DEF storeVars
  <2> QED BY <1>4, <1>7, <2>1 DEF CallOf
<1>8. ASSUME NEW p \in Proc, NEW k \in Key, PutBegin(p, k) PROVE Abstract!BeginPut(p, k)
  <2>1. PICK n \in SliceNums, rn \in ReplicaNums, soft \in SoftPins :
           \E M \in Allocate(FreeBuffers(k), n, rn) :
              PutStart(k, M, soft) /\ Become(p, PutOp(k, UNION {Transfers(k, r) : r \in M}))
    BY <1>8 DEF PutBegin
  <2>2. PICK M \in Allocate(FreeBuffers(k), n, rn) :
              PutStart(k, M, soft) /\ Become(p, PutOp(k, UNION {Transfers(k, r) : r \in M}))
    BY <2>1
  <2>3. \A T : PutOp(k, T).kind = "put" /\ PutOp(k, T).key = k
    BY DEF PutOp
  <2>4. CallOf' = [CallOf EXCEPT ![p] = Abstract!Call("put", k)]
    BY <1>0, <2>2, <2>3, BecomeCall
  <2>5. CallOf[p] = Abstract!NoCall
    <3>1. op[p].kind = "idle"
      BY <1>8 DEF PutBegin, Idle
    <3> QED BY <3>1, CallOfKind DEF CallsOf
  <2>6. k \notin objects
    BY <1>0, <2>2, FreshClean DEF PutStart, NonEmpty
  <2>7. Abstract!Writers(k) = {}
    <3> SUFFICES ASSUME NEW q \in Proc, CallOf[q] = Abstract!Call("put", k) PROVE FALSE
      BY DEF Abstract!Writers
    <3>1. Writing(q) /\ op[q].key = k
      <4>1. op[q].kind \in {"idle", "put", "query", "get", "returned"}
        BY <1>0, OpFields
      <4> QED BY <4>1, CallOfKind, CallsDiffer DEF CallsOf, Writing
    <3> QED BY <1>0, <2>6, <3>1 DEF FreshInv, WritersOwn
  <2>8. StateOf[k] = "absent"
    BY <1>1, <2>6 DEF FreshStates
  <2>9. StateOf' = [StateOf EXCEPT ![k] = "reserved"]
    <3>1. objects' = objects \cup {k} /\ \A j \in Key \ {k} : replicas'[j] = replicas[j]
      BY <1>0, <2>2, <2>6 DEF PutStart, With, TypeOK, ObjectTypeOK
    <3>2. CompleteReplicas(replicas'[k]) = {}
      <4>1. \A r \in M : r.status = "PROCESSING"
        BY AllocateInMemory
      <4>2. DiskReplica.status = "PROCESSING"
        BY DEF DiskReplica
      <4>3. replicas'[k] \subseteq M \cup {DiskReplica}
        BY <1>0, <2>2, <2>6 DEF PutStart, With, TypeOK, ObjectTypeOK
      <4> QED BY <4>1, <4>2, <4>3 DEF CompleteReplicas
    <3>3. StateOf'[k] = "reserved" /\ \A j \in Key \ {k} : StateOf'[j] = StateOf[j]
      BY <1>1, <1>2, <3>1, <3>2 DEF FreshStates, CompleteReplicas
    <3> QED BY <3>3, StateChanges
  <2> QED BY <2>4, <2>5, <2>7, <2>8, <2>9 DEF Abstract!BeginPut
<1>9. ASSUME NEW p \in Proc,
             \/ \E k \in Key : PutRefused(p, k) \/ Query(p, k)
             \/ TransferWrite(p) \/ TransferRead(p)
      PROVE  UNCHANGED <<StateOf, CallOf>>
  <2>1. ASSUME NEW k \in Key, PutRefused(p, k) PROVE UNCHANGED StateOf
    <3>1. \A j \in Key : replicas'[j] = replicas[j]
      BY <1>0, <2>1, ReadShrinks DEF PutRefused
    <3>2. UNCHANGED objects
      BY <2>1 DEF PutRefused, PutStartExists, PutStartNoSpace, KeepObjects
    <3> QED BY <1>3, <3>1, <3>2
  <2>2. ASSUME (\E k \in Key : Query(p, k)) \/ TransferWrite(p) \/ TransferRead(p)
        PROVE  UNCHANGED StateOf
    <3>1. UNCHANGED vars
      BY <2>2 DEF Query, TransferWrite, TransferRead
    <3> QED BY <1>4, <3>1
  <2> QED BY <1>0, <1>9, <2>1, <2>2, QuietCalls
<1>10. ASSUME NEW p \in Proc, PutFinish(p) \/ PutFail(p) PROVE Abstract!EndPut(p, op[p].key)
  <2> DEFINE k == op[p].key
  <2>1. k \in Key /\ Writing(p)
    BY <1>0, <1>10, PutEnds DEF PutFinish, PutFail, Writing
  <2>2. k \in objects /\ \A r \in replicas[k] : r.status = "PROCESSING"
    BY <1>0, <2>1 DEF FreshInv, WritersOwn
  <2>3. CleanReplicas(k) = replicas[k] /\ replicas[k] # {} /\ ~NotFound(k)
    BY <1>0, <2>1, <2>2, FreshClean, FreshNotFound DEF NonEmpty
  <2>4. CASE PutFinish(p)
    <3>1. objects' = objects /\ replicas' = With(k, MarkComplete(replicas[k], "MEMORY"))
      BY <2>3, <2>4 DEF PutFinish, PutEnd, KeepObjects
    <3>2. /\ replicas'[k] = MarkComplete(replicas[k], "MEMORY")
          /\ \A j \in Key \ {k} : replicas'[j] = replicas[j]
      BY <1>0, <2>1, <3>1 DEF With, TypeOK, ObjectTypeOK
    <3>3. CompleteReplicas(replicas'[k]) # {}
      <4>1. replicas[k] \in SUBSET ReplicaSet /\ \A r \in replicas[k] : InMemory(r)
        BY <1>0, <2>1 DEF TypeOK, ObjectTypeOK, MemOnly
      <4> QED BY <2>3, <3>2, <4>1, MarkInMemory DEF CompleteReplicas
    <3>4. StateOf[k] = "reserved"
      BY <1>1, <2>1, <2>2 DEF FreshStates, CompleteReplicas
    <3>5. StateOf'[k] = "readable" /\ \A j \in Key \ {k} : StateOf'[j] = StateOf[j]
      BY <1>1, <1>2, <2>1, <2>2, <3>1, <3>2, <3>3 DEF FreshStates, CompleteReplicas
    <3>6. StateOf' = [StateOf EXCEPT ![k] = "readable"]
      BY <2>1, <3>5, StateChanges
    <3> QED BY <1>0, <1>10, <3>4, <3>6, PutEnds DEF Abstract!EndPut
  <2>5. CASE PutFail(p)
    <3> DEFINE left == IF HasDiffRepStatus(replicas[k], "PROCESSING", "MEMORY")
                       THEN replicas[k] ELSE EraseReplica(replicas[k], "MEMORY")
    <3>1. left = {}
      BY <2>1, <2>2 DEF HasDiffRepStatus, EraseReplica, MemOnly, InMemory
    <3>2. EraseObjects(With(k, left), IF left = {} THEN {k} ELSE {})
      BY <2>3, <2>5 DEF PutFail, PutRevoke
    <3>3. objects' = objects \ {k} /\ \A j \in Key \ {k} : replicas'[j] = replicas[j]
      BY <1>0, <2>1, <3>1, <3>2 DEF EraseObjects, With, TypeOK, ObjectTypeOK
    <3>4. StateOf'[k] = "absent" /\ \A j \in Key \ {k} : StateOf'[j] = StateOf[j]
      BY <1>1, <1>2, <2>1, <3>3 DEF FreshStates, CompleteReplicas
    <3>5. StateOf' = [StateOf EXCEPT ![k] = "absent"]
      BY <2>1, <3>4, StateChanges
    <3> QED BY <1>0, <1>10, <3>5, PutEnds DEF Abstract!EndPut
  <2> QED BY <1>10, <2>4, <2>5
<1>11. ASSUME NEW p \in Proc, QueryReply(p)
       PROVE  Abstract!BeginGet(p, op[p].key) \/ UNCHANGED <<StateOf, CallOf>>
  <2> DEFINE k == op[p].key
  <2>1. op[p].kind = "query" /\ k \in Key
    BY <1>0, <1>11, QueryAnswers DEF QueryReply
  <2>2. CallOf[p] = Abstract!NoCall
    BY <2>1, CallOfKind DEF CallsOf
  <2>3. UNCHANGED StateOf
    <3>1. CASE NotFound(k)
      BY <1>0, <1>4, <2>1, <3>1, FreshNotFound
    <3>2. CASE GetReplicaList(k)
      <4>1. \A j \in Key : replicas'[j] = replicas[j]
        BY <1>0, <2>1, <3>2, ReadShrinks
      <4>2. UNCHANGED objects
        BY <3>2 DEF GetReplicaList, LeaseOnRead, KeepObjects
      <4> QED BY <1>3, <4>1, <4>2
    <3> QED BY <1>11, <3>1, <3>2 DEF QueryReply
  <2>4. CASE Become(p, Idle)
    <3>1. Idle.kind = "idle"
      BY DEF Idle
    <3> QED BY <1>0, <2>2, <2>3, <2>4, <3>1, BecomeCall, SameCall
  <2>5. ASSUME NEW r \in CompleteReplicas(CleanReplicas(k)),
               Become(p, GetOp(k, Transfers(k, r), op[p].ttl, TRUE)), GetReplicaList(k)
        PROVE  Abstract!BeginGet(p, k)
    <3>1. LET o == GetOp(k, Transfers(k, r), op[p].ttl, TRUE) IN o.kind = "get" /\ o.key = k
      BY DEF GetOp
    <3>2. CallOf' = [CallOf EXCEPT ![p] = Abstract!Call("get", k)]
      BY <1>0, <2>5, <3>1, BecomeCall
    <3>3. StateOf[k] = "readable"
      BY <1>0, <1>1, <2>1, <2>5, FreshClean DEF FreshStates, GetReplicaList, LeaseOnRead, Found
    <3> QED BY <2>2, <2>3, <3>2, <3>3 DEF Abstract!BeginGet
  <2> QED BY <1>11, <2>4, <2>5 DEF QueryReply
<1>12. ASSUME NEW p \in Proc, GetReturn(p) \/ Abandon(p)
       PROVE  [Abstract!ObjectStoreNext]_<<StateOf, CallOf>>
  BY <1>0, <1>4, <1>12, LeaveCalls DEF GetReturn, Abandon
<1>13. ASSUME NEW p \in Proc, ProcNext(p) PROVE [Abstract!ObjectStoreNext]_<<StateOf, CallOf>>
  <2>1. CASE PutFinish(p) \/ PutFail(p)
    BY <1>0, <1>10, <2>1, PutEnds DEF Abstract!ObjectStoreNext
  <2>2. CASE QueryReply(p)
    BY <1>0, <1>11, <2>2, QueryAnswers DEF Abstract!ObjectStoreNext
  <2>3. ASSUME NEW k \in Key, PutBegin(p, k) PROVE Abstract!ObjectStoreNext
    BY <1>8, <2>3 DEF Abstract!ObjectStoreNext
  <2> QED BY <1>9, <1>12, <1>13, <2>1, <2>2, <2>3 DEF ProcNext
<1> QED BY <1>5, <1>6, <1>7, <1>13 DEF StoreNext

\* Master, clients and memory together keep the promise of ObjectStore: a key has
\* one writer at a time, only its PutEnd makes the object readable, and nothing
\* that is readable goes back to being written.
THEOREM StoreRefines ==
  ASSUME ~RemoveAllAnyTime, ~UseDisk
  PROVE  StoreSpec /\ []Settled => ImplementsObjectStore
<1>1. StoreInit => Abstract!ObjectStoreInit /\ MemOnly
  <2> SUFFICES ASSUME StoreInit PROVE Abstract!ObjectStoreInit /\ MemOnly
    OBVIOUS
  <2>1. \A k \in Key : ~Found(k) /\ replicas[k] = {}
    BY DEF StoreInit, Init, Found
  <2>2. StateOf = [k \in Key |-> "absent"]
    BY <2>1 DEF StateOf
  <2>3. \A p \in Proc : op[p].kind = "idle"
    BY DEF StoreInit, Idle
  <2>4. \A p \in Proc : CallOf[p] = Abstract!NoCall
    BY <2>3, CallOfKind DEF CallsOf
  <2>5. CallOf = [p \in Proc |-> Abstract!NoCall]
    BY <2>4 DEF CallOf
  <2> QED BY <2>1, <2>2, <2>5 DEF Abstract!ObjectStoreInit, MemOnly
<1>2. StoreInv /\ Settled /\ MemOnly /\ [StoreNext]_<<vars, storeVars>> => MemOnly'
  <2> SUFFICES ASSUME StoreInv, MemOnly, [StoreNext]_<<vars, storeVars>> PROVE MemOnly'
    OBVIOUS
  <2>1. OpTypeOK /\ TypeOK
    BY DEF StoreInv, UnitInv, HandleInv, SegmentInv
  <2> QED BY <2>1, MasterStep, MemOnlyStep
<1>3. /\ StoreInv /\ Settled /\ MemOnly
      /\ StoreInv' /\ Settled' /\ MemOnly'
      /\ [StoreNext]_<<vars, storeVars>>
      => [Abstract!ObjectStoreNext]_<<StateOf, CallOf>>
  <2> SUFFICES ASSUME StoreInv, Settled, MemOnly, StoreInv', Settled', MemOnly',
                      [StoreNext]_<<vars, storeVars>>
               PROVE  [Abstract!ObjectStoreNext]_<<StateOf, CallOf>>
    OBVIOUS
  <2>1. CASE Ended'
    BY <2>1, EndedSimulation DEF StoreInv
  <2>2. CASE Fresh'
    <3>1. HandleInv /\ OpTypeOK
      BY DEF StoreInv, UnitInv
    <3>2. Fresh
      BY <2>2, <3>1, MasterStep, FreshBefore
    <3> QED BY <2>2, <3>2, FreshSimulation
  <2> QED BY <2>1, <2>2 DEF Settled
<1> QED BY <1>1, <1>2, <1>3, StoreInvAlways, PTL
        DEF StoreSpec, ImplementsObjectStore, Abstract!ObjectStoreSpec

\* In the instances whose segments are never unmounted, and in those with one
\* segment that is mounted once, every behaviour does.
THEOREM StoreImplements ==
  ASSUME ~RemoveAllAnyTime, ~UseDisk, SegmentsSettle
  PROVE  StoreSpec => ImplementsObjectStore
BY StoreRefines, SettledAlways, PTL
=============================================================================
