---------------------------- MODULE MasterService ----------------------------
(***************************************************************************)
(* The master of the store (master_service.h, master_service.cpp): the     *)
(* metadata of the objects, their leases, the unmounting of segments by    *)
(* RPCs and by the client monitor thread, and the eviction thread.         *)
(*                                                                         *)
(* A step is one critical section.  An operation that takes several, such  *)
(* as UnmountSegment or an iteration over the shards, is one step for each *)
(* and everything else may happen in between.  The callers of the RPCs are *)
(* unconstrained: any client may issue any call at any time.               *)
(*                                                                         *)
(* Time: leases, soft pins and client TTLs are kept as the time that is    *)
(* left, and Tick lets one unit pass.  0 is an expired deadline.           *)
(***************************************************************************)
EXTENDS SegmentManager, Sequences

CONSTANTS
  Key,               \* object keys
  Slot,              \* allocation units of each segment
  NumShards,         \* kNumShards
  ShardOf,           \* getShardIndex
  Worker,            \* RPC threads that can run UnmountSegment
  Monitor,           \* the client monitor thread
  SliceNums,         \* slice counts of the Puts
  ReplicaNums,       \* values of ReplicateConfig::replica_num
  SoftPins,          \* values of ReplicateConfig::with_soft_pin
  UseDisk,           \* use_disk_replica_
  LeaseTTL,          \* default_kv_lease_ttl_
  SoftTTL,           \* default_kv_soft_pin_ttl_
  ClientTTL,         \* client_live_ttl_sec_
  QueueSize,         \* elements client_ping_queue_ can get memory for
  AllowSoftEvict,    \* allow_evict_soft_pinned_objects_
  HighWatermark,     \* eviction_high_watermark_ratio_, in percent
  EvictionRatio      \* eviction_ratio_, in percent

ASSUME ShardAssumption ==
  /\ NumShards \in Nat
  /\ ShardOf \in [Key -> 0 .. NumShards - 1]
ASSUME WorkerAssumption == Monitor \notin Worker
ASSUME TimeAssumption == LeaseTTL \in Nat /\ SoftTTL \in Nat /\ ClientTTL \in Nat
ASSUME ConfigAssumption ==
  /\ SliceNums \subseteq Nat \ {0}
  /\ ReplicaNums \subseteq Nat \ {0}
  /\ SoftPins \subseteq BOOLEAN
  /\ UseDisk \in BOOLEAN
  /\ AllowSoftEvict \in BOOLEAN
  /\ QueueSize \in Nat

VARIABLES
  objects,      \* the keys present in metadata_shards_
  replicas,     \* ObjectMetadata::replicas of each object
  lease,        \* time left of lease_timeout
  softPin,      \* time left of soft_pin_timeout, NoPin if it is not set
  allocated,    \* units in use in the current allocator of each segment
  cleaner,      \* progress of the threads that unmount segments
  okClient,     \* ok_client_
  pingQueue,    \* client_ping_queue_
  clientTtl,    \* client_ttl of the monitor thread, NoTtl if absent
  expired,      \* expired_clients of the monitor thread
  evictor,      \* progress of BatchEvict
  needEviction  \* need_eviction_

INSTANCE Replica

objectVars == <<objects, replicas, lease, softPin, allocated>>
clientVars == <<okClient, pingQueue, clientTtl, expired>>
evictVars == <<evictor, needEviction>>

vars == <<segmentVars, objectVars, cleaner, clientVars, evictVars>>

Shard == 0 .. NumShards - 1
KeysOf(sh) == {k \in Key : ShardOf[k] = sh}
Thread == Worker \cup {Monitor}
NoPin == -1
NoTtl == -1

\* A thread between PrepareUnmountSegment and CommitUnmountSegment owns the
\* segments in segs; ClearInvalidHandles goes on at shard next.
IdleCleaner == [segs |-> {}, next |-> 0]

\* BatchEvict in pass 1 or 2 still has to visit the shards in left; of
\* evicted_count and object_count only whether they are 0 matters.
SleepingEvictor == [pass |-> 0, left |-> {}, evicted |-> 0, seen |-> 0]

ObjectTypeOK ==
  /\ objects \in SUBSET Key
  /\ replicas \in [Key -> SUBSET ReplicaSet]
  /\ lease \in [Key -> 0 .. LeaseTTL]
  /\ softPin \in [Key -> {NoPin} \cup (0 .. SoftTTL)]
  /\ allocated \in [Segment -> SUBSET Slot]

CleanerTypeOK ==
  cleaner \in [Thread -> [segs : SUBSET Segment, next : 0 .. NumShards]]

ClientTypeOK ==
  /\ okClient \in SUBSET Client
  /\ pingQueue \in Seq(Client)
  /\ clientTtl \in [Client -> {NoTtl} \cup (0 .. ClientTTL + 1)]
  /\ expired \in SUBSET Client

EvictTypeOK ==
  /\ evictor \in [pass : 0 .. 2, left : SUBSET Shard,
                  evicted : {0, 1}, seen : {0, 1}]
  /\ needEviction \in BOOLEAN

\* Types of the master's state: deadlines never leave their range and every
\* replica holds buffers of known segments.
TypeOK ==
  /\ SegmentTypeOK
  /\ ObjectTypeOK
  /\ CleanerTypeOK
  /\ ClientTypeOK
  /\ EvictTypeOK

Init ==
  /\ SegmentInit
  /\ objects = {}
  /\ replicas = [k \in Key |-> {}]
  /\ lease = [k \in Key |-> 0]
  /\ softPin = [k \in Key |-> NoPin]
  /\ allocated = [s \in Segment |-> {}]
  /\ cleaner = [t \in Thread |-> IdleCleaner]
  /\ okClient = {}
  /\ pingQueue = <<>>
  /\ clientTtl = [c \in Client |-> NoTtl]
  /\ expired = {}
  /\ evictor = SleepingEvictor
  /\ needEviction = FALSE

-----------------------------------------------------------------------------
(* Handles.  A buffer is valid while the allocator object it came from is   *)
(* alive (AllocatedBuffer::isAllocatorValid); its segment may be on the way *)
(* out by then.  It is current while that allocator is the one in use.      *)

AllocatorFor(b) == [seg |-> b.seg, gen |-> b.gen]

Valid(b) == Alive(AllocatorFor(b))

Current(b) == bufAllocator[b.seg] = b.gen

\* The mutex of shard sh is free.  The calls that hold an allocator have locked
\* the shard of the object they work on.
Unlocked(sh) == \A h \in holders : h.shard # sh

HasInvalidMemHandle(r) == \E b \in BufsOf(r) : ~Valid(b)

\* What CleanupStaleHandles leaves of the replicas of k.
CleanReplicas(k) == {r \in replicas[k] : ~HasInvalidMemHandle(r)}

\* Mutant: destroyed buffers are not given back.
ReleaseNothing(B) == UNCHANGED allocated

\* The destructor of AllocatedBuffer gives the unit back to its allocator, if
\* that is still alive; only the units of allocators in use are kept track of.
Release(B) ==
  allocated' = [s \in Segment |->
    allocated[s] \ {b.slot : b \in {x \in B : x.seg = s /\ Current(x)}}]

\* Mutant: what stays is given back as well.
DroppedAll(new) == UNION {Bufs(replicas[k]) : k \in {x \in Key : new[x] # replicas[x]}}

\* The buffers that are destroyed when the replicas of each key become new[key].
Dropped(new) == UNION {Bufs(replicas[k]) \ Bufs(new[k]) : k \in Key}

\* The entries of the keys in gone are erased, the others keep the replicas new.
EraseObjects(new, gone) ==
  LET left == [k \in Key |-> IF k \in gone THEN {} ELSE new[k]]
  IN  /\ objects' = objects \ gone
      /\ replicas' = left
      /\ lease' = [k \in Key |-> IF k \in gone THEN 0 ELSE lease[k]]
      /\ softPin' = [k \in Key |-> IF k \in gone THEN NoPin ELSE softPin[k]]
      /\ Release(Dropped(left))

Later(a, b) == IF a >= b THEN a ELSE b

\* Mutant: a lease is prolonged by the TTL each time.
GrantLeaseAdds(K, ttl) ==
  /\ lease' = [k \in Key |-> IF k \in K THEN lease[k] + ttl ELSE lease[k]]
  /\ UNCHANGED softPin

\* ObjectMetadata::GrantLease for the keys in K; no deadline moves back.
GrantLease(K, ttl) ==
  /\ lease' = [k \in Key |-> IF k \in K THEN Later(lease[k], ttl) ELSE lease[k]]
  /\ softPin' = [k \in Key |-> IF k \in K /\ softPin[k] # NoPin
                               THEN Later(softPin[k], SoftTTL) ELSE softPin[k]]

\* The entries stay, with the replicas new.
KeepObjects(new) ==
  /\ objects' = objects
  /\ replicas' = new
  /\ Release(Dropped(new))

-----------------------------------------------------------------------------
(* Operations on one key.  MetadataAccessor locks the shard, drops the      *)
(* replicas with stale handles and erases the entry if none is left.        *)

With(k, R) == [replicas EXCEPT ![k] = R]

Found(k) == k \in objects /\ CleanReplicas(k) # {}

\* Any operation on a key of which no replica survives: OBJECT_NOT_FOUND.
AccessorMiss(k) ==
  /\ Unlocked(ShardOf[k])
  /\ k \in objects /\ ~Found(k)
  /\ EraseObjects(replicas, {k})
  /\ UNCHANGED <<segmentVars, cleaner, clientVars, evictVars>>

\* ExistKey and GetReplicaList: a lease if there is a complete replica.
LeaseOnRead(k) ==
  /\ Unlocked(ShardOf[k])
  /\ Found(k)
  /\ KeepObjects(With(k, CleanReplicas(k)))
  /\ GrantLease(IF CompleteReplicas(CleanReplicas(k)) # {} THEN {k} ELSE {}, LeaseTTL)
  /\ UNCHANGED <<segmentVars, cleaner, clientVars, evictVars>>

ExistKey(k) == LeaseOnRead(k)

GetReplicaList(k) == LeaseOnRead(k)

\* The free units of the allocators in allocators_, once CleanupStaleHandles has
\* run on k.
FreeBuffers(k) ==
  LET stale == Bufs(replicas[k] \ CleanReplicas(k))
  IN  {b \in [seg : {a.seg : a \in allocators}, gen : {a.gen : a \in allocators},
              slot : Slot] :
          /\ [seg |-> b.seg, gen |-> b.gen] \in allocators
          /\ b.slot \notin allocated[b.seg] \/ b \in stale}

\* The outcomes of RandomAllocationStrategy::Allocate for n slices and up to rn
\* replicas out of the free buffers F.  Calls for keys of other shards share the
\* allocators and run at the same time, so there may be fewer replicas than F
\* has room for; module AllocationStrategy has the steps.
Allocate(F, n, rn) ==
  UNION {{{MemoryReplica(A[j]) : j \in 1 .. m} : A \in Placements(F, n, m)} : m \in 1 .. rn}

\* NO_AVAILABLE_HANDLE: no unit was left for some slice.  With several slices
\* the units may be held by this call or by one that will give them back.
AllocateMayFail(F) == F = {} \/ \E m \in SliceNums : m > 1

\* PutStart finds no live replica, allocates the memory replicas M and returns
\* their descriptors.  The new entry is emplaced: if a stale entry is still
\* there it is kept, and M is destroyed.
PutStart(k, M, soft) ==
  LET new == M \cup (IF UseDisk THEN {DiskReplica} ELSE {})
  IN  /\ Unlocked(ShardOf[k])
      /\ ~Found(k)
      /\ IF k \in objects
         THEN /\ KeepObjects(With(k, {}))
              /\ UNCHANGED <<lease, softPin>>
         ELSE /\ objects' = objects \cup {k}
              /\ replicas' = With(k, new)
              /\ lease' = [lease EXCEPT ![k] = 0]
              /\ softPin' = [softPin EXCEPT ![k] = IF soft THEN 0 ELSE NoPin]
              /\ allocated' = [s \in Segment |->
                    allocated[s] \cup {b.slot : b \in {x \in Bufs(M) : x.seg = s}}]
      /\ UNCHANGED <<segmentVars, cleaner, clientVars, evictVars>>

\* PutStart fails with NO_AVAILABLE_HANDLE and asks for eviction.
PutStartNoSpace(k) ==
  /\ Unlocked(ShardOf[k])
  /\ ~Found(k)
  /\ AllocateMayFail(FreeBuffers(k))
  /\ KeepObjects(With(k, {}))
  /\ needEviction' = TRUE
  /\ UNCHANGED <<segmentVars, lease, softPin, cleaner, clientVars, evictor>>

\* PutStart fails with OBJECT_ALREADY_EXISTS; stale replicas are gone.
PutStartExists(k) ==
  /\ Unlocked(ShardOf[k])
  /\ Found(k)
  /\ KeepObjects(With(k, CleanReplicas(k)))
  /\ UNCHANGED <<segmentVars, lease, softPin, cleaner, clientVars, evictVars>>

PutEnd(k, ty) ==
  /\ Unlocked(ShardOf[k])
  /\ Found(k)
  /\ KeepObjects(With(k, MarkComplete(CleanReplicas(k), ty)))
  /\ GrantLease({k}, 0)
  /\ UNCHANGED <<segmentVars, cleaner, clientVars, evictVars>>

\* PutRevoke: INVALID_WRITE if a replica of the type is complete already.
PutRevoke(k, ty) ==
  LET R    == CleanReplicas(k)
      left == IF HasDiffRepStatus(R, "PROCESSING", ty) THEN R
                                                       ELSE EraseReplica(R, ty)
  IN  /\ Unlocked(ShardOf[k])
      /\ Found(k)
      /\ EraseObjects(With(k, left), IF left = {} THEN {k} ELSE {})
      /\ UNCHANGED <<segmentVars, cleaner, clientVars, evictVars>>

\* Mutant: a deadline that is one unit short.
LeaseOneShort(k) == lease[k] <= 1

IsLeaseExpired(k) == lease[k] = 0

IsSoftPinned(k) == softPin[k] > 0

\* Remove: OBJECT_HAS_LEASE and REPLICA_IS_NOT_READY leave the object in place.
Remove(k) ==
  LET R         == CleanReplicas(k)
      removable == IsLeaseExpired(k) /\ IsAllReplicasComplete(R)
  IN  /\ Unlocked(ShardOf[k])
      /\ Found(k)
      /\ EraseObjects(With(k, R), IF removable THEN {k} ELSE {})
      /\ UNCHANGED <<segmentVars, cleaner, clientVars, evictVars>>

-----------------------------------------------------------------------------
(* Operations that visit every shard: the body of the loop for one shard.   *)

\* GetReplicaListByRegex on shard sh; pattern is the set of keys that match.
GetReplicaListByRegex(sh, pattern) ==
  LET hit == {k \in objects \cap KeysOf(sh) \cap pattern :
                 CompleteReplicas(replicas[k]) # {}}
  IN  /\ Unlocked(sh)
      /\ hit # {}
      /\ GrantLease(hit, LeaseTTL)
      /\ UNCHANGED <<segmentVars, objects, replicas, allocated, cleaner,
                     clientVars, evictVars>>

RemoveByRegex(sh, pattern) ==
  LET gone == {k \in objects \cap KeysOf(sh) \cap pattern :
                 IsLeaseExpired(k) /\ IsAllReplicasComplete(replicas[k])}
  IN  /\ Unlocked(sh)
      /\ gone # {}
      /\ EraseObjects(replicas, gone)
      /\ UNCHANGED <<segmentVars, cleaner, clientVars, evictVars>>

\* RemoveAll on shard sh.  It compares leases with a time read before the first
\* shard, so an object whose lease ran out since then may be kept.
RemoveAll(sh, gone) ==
  /\ Unlocked(sh)
  /\ gone \subseteq {k \in objects \cap KeysOf(sh) : IsLeaseExpired(k)}
  /\ gone # {}
  /\ EraseObjects(replicas, gone)
  /\ UNCHANGED <<segmentVars, cleaner, clientVars, evictVars>>

\* What a cleaner leaves in shard sh because a call in another shard happens to
\* hold the allocator, although the registry has dropped it.
LeftIn(sh, K) ==
  {[shard |-> sh, alloc |-> AllocatorFor(b)] :
      b \in {x \in UNION {Bufs(CleanReplicas(k)) : k \in K} : ~Current(x)}}

\* ClearInvalidHandles, run by thread t, on its next shard.
ClearInvalidHandles(t) ==
  LET sh    == cleaner[t].next
      keys  == objects \cap KeysOf(sh)
      clean == [k \in Key |-> IF k \in keys THEN CleanReplicas(k) ELSE replicas[k]]
  IN  /\ cleaner[t].segs # {}
      /\ sh < NumShards
      /\ Unlocked(sh)
      /\ EraseObjects(clean, {k \in keys : clean[k] = {}})
      /\ outlived' = outlived \cup LeftIn(sh, keys)
      /\ cleaner' = [cleaner EXCEPT ![t].next = sh + 1]
      /\ UNCHANGED <<registryVars, holders, clientVars, evictVars>>

-----------------------------------------------------------------------------
(* Calls that hold an allocator.  ~AllocatedBuffer and get_descriptor lock   *)
(* the weak_ptr of a buffer and work on the allocator, while the caller has  *)
(* the shard locked; unmounting goes on meanwhile.                           *)

\* The allocators a call on shard sh can get hold of: those of the buffers stored
\* there that are still alive, and those PutStart can allocate from.
WithinReach(sh) ==
  {AllocatorFor(b) : b \in {x \in UNION {Bufs(replicas[k]) : k \in KeysOf(sh)} : Valid(x)}}
    \cup {a \in allocators : allocated[a.seg] # Slot}

HoldAllocator(sh) ==
  /\ Unlocked(sh)
  /\ Cardinality(holders) < MaxHolders
  /\ \E a \in WithinReach(sh) : holders' = holders \cup {[shard |-> sh, alloc |-> a]}
  /\ UNCHANGED <<registryVars, outlived, objectVars, cleaner, clientVars, evictVars>>

\* The temporary shared_ptr goes out of scope.
DropAllocator(sh) ==
  /\ ~Unlocked(sh)
  /\ holders' = {h \in holders : h.shard # sh}
  /\ UNCHANGED <<registryVars, outlived, objectVars, cleaner, clientVars, evictVars>>

-----------------------------------------------------------------------------
(* Mounting and unmounting segments.                                        *)

\* Mutant: a full queue is not noticed.
PushPingLossy(c) ==
  pingQueue' = IF Len(pingQueue) < QueueSize THEN Append(pingQueue, c) ELSE pingQueue

\* client_ping_queue_.push fails when it gets no memory for another element.
PushPing(c) ==
  /\ Len(pingQueue) < QueueSize
  /\ pingQueue' = Append(pingQueue, c)

\* A new allocator starts empty; no other segment is affected.
ResetUnits == allocated' = [s \in Segment |->
                  IF bufAllocator'[s] = bufAllocator[s] THEN allocated[s] ELSE {}]

\* MasterService::MountSegment.  The ping is sent before the segment is mounted.
MountSegment(s) ==
  /\ PushPing(Owner[s])
  /\ MountSegments({s}, Owner[s])
  /\ ResetUnits
  /\ UNCHANGED <<objects, replicas, lease, softPin, cleaner, okClient,
                 clientTtl, expired, evictVars>>

\* MasterService::ReMountSegment.  If a segment is still being unmounted the
\* call fails, but what it mounted until then stays mounted.
ReMountSegment(c, segs) ==
  /\ c \notin okClient
  /\ PushPing(c)
  /\ \E reached \in ReMountReaches(segs) :
        /\ MountSegments(reached, c)
        /\ okClient' = IF reached = segs THEN okClient \cup {c} ELSE okClient
  /\ ResetUnits
  /\ UNCHANGED <<objects, replicas, lease, softPin, cleaner, clientTtl, expired,
                 evictVars>>

\* Step 1 of UnmountSegment, in RPC thread t.
PrepareUnmount(t, s) ==
  /\ cleaner[t] = IdleCleaner
  /\ CanPrepareUnmount(s)
  /\ PrepareUnmountSegments({s})
  /\ ResetUnits
  /\ cleaner' = [cleaner EXCEPT ![t] = [segs |-> {s}, next |-> 0]]
  /\ UNCHANGED <<objects, replicas, lease, softPin, clientVars, evictVars>>

\* Mutant: the last shard is not visited.
CommitUnmountEarly(t) ==
  /\ cleaner[t].segs # {}
  /\ cleaner[t].next = NumShards - 1
  /\ CommitUnmountSegments(cleaner[t].segs)
  /\ cleaner' = [cleaner EXCEPT ![t] = IdleCleaner]
  /\ UNCHANGED <<objectVars, clientVars, evictVars>>

\* The last step of UnmountSegment and of the client monitor.
CommitUnmount(t) ==
  /\ cleaner[t].segs # {}
  /\ cleaner[t].next = NumShards
  /\ CommitUnmountSegments(cleaner[t].segs)
  /\ cleaner' = [cleaner EXCEPT ![t] = IdleCleaner]
  /\ UNCHANGED <<objectVars, clientVars, evictVars>>

-----------------------------------------------------------------------------
(* The client monitor thread.                                               *)

Ping(c) ==
  /\ PushPing(c)
  /\ UNCHANGED <<segmentVars, objectVars, cleaner, okClient, clientTtl, expired,
                 evictVars>>

MonitorIdle == expired = {} /\ cleaner[Monitor] = IdleCleaner

Pinged == {pingQueue[i] : i \in DOMAIN pingQueue}

\* The monitor empties the queue and collects the clients whose TTL has run out.
MonitorScan ==
  LET ttl == [c \in Client |-> IF c \in Pinged THEN ClientTTL + 1 ELSE clientTtl[c]]
  IN  /\ MonitorIdle
      /\ pingQueue' = <<>>
      /\ expired' = {c \in Client : ttl[c] = 0}
      /\ clientTtl' = [c \in Client |-> IF ttl[c] = 0 THEN NoTtl ELSE ttl[c]]
      /\ UNCHANGED <<segmentVars, objectVars, cleaner, okClient, evictVars>>

\* With client_mutex_ and segment_mutex_ held, the expired clients lose their
\* status and all their segments that nobody is unmounting yet.
MonitorExpire ==
  LET segs == {s \in UNION {GetClientSegments(c) : c \in expired} :
                  CanPrepareUnmount(s)}
  IN  /\ expired # {}
      /\ okClient' = okClient \ expired
      /\ PrepareUnmountSegments(segs)
      /\ ResetUnits
      /\ cleaner' = [cleaner EXCEPT ![Monitor] = [segs |-> segs, next |-> 0]]
      /\ expired' = {}
      /\ UNCHANGED <<objects, replicas, lease, softPin, pingQueue, clientTtl,
                     evictVars>>

-----------------------------------------------------------------------------
(* The eviction thread.  BatchEvict visits every shard once, and a second   *)
(* time if too few objects could go; how many it takes of those that may go *)
(* is the subject of module BatchEvict.                                     *)

MayEvict(pass, k) ==
  /\ IsLeaseExpired(k)
  /\ ~HasDiffRepStatus(replicas[k], "COMPLETE", "MEMORY")
  /\ HasMemReplica(replicas[k])
  /\ ~IsSoftPinned(k) \/ (pass = 2 /\ AllowSoftEvict)

\* get_global_mem_used_ratio() > eviction_high_watermark_ratio_
AboveHighWatermark ==
  LET used     == Cardinality(UNION {Bufs(replicas[k]) : k \in Key})
      capacity == Cardinality(Slot) * Cardinality({s \in Segment : status[s] # "NONE"})
  IN  capacity > 0 /\ used * 100 > HighWatermark * capacity

EvictStart ==
  /\ evictor.pass = 0
  /\ AboveHighWatermark \/ (needEviction /\ EvictionRatio > 0)
  /\ evictor' = [pass |-> 1, left |-> Shard, evicted |-> 0, seen |-> 0]
  /\ UNCHANGED <<segmentVars, objectVars, cleaner, clientVars, needEviction>>

\* The eviction of the objects gone from shard sh.
EvictShard(sh, gone) ==
  LET left == [k \in Key |-> IF k \in gone THEN EraseReplica(replicas[k], "MEMORY")
                                           ELSE replicas[k]]
  IN  /\ Unlocked(sh)
      /\ sh \in evictor.left
      /\ gone \subseteq {k \in objects \cap KeysOf(sh) : MayEvict(evictor.pass, k)}
      /\ EraseObjects(left, {k \in gone : left[k] = {}})
      /\ evictor' = [pass    |-> evictor.pass,
                     left    |-> evictor.left \ {sh},
                     evicted |-> IF gone # {} THEN 1 ELSE evictor.evicted,
                     seen    |-> IF objects \cap KeysOf(sh) # {} THEN 1 ELSE evictor.seen]
      /\ UNCHANGED <<segmentVars, cleaner, clientVars, needEviction>>

EvictSecondPass ==
  /\ evictor.pass = 1 /\ evictor.left = {}
  /\ evictor' = [pass |-> 2, left |-> Shard, evicted |-> evictor.evicted, seen |-> evictor.seen]
  /\ UNCHANGED <<segmentVars, objectVars, cleaner, clientVars, needEviction>>

\* need_eviction_ stays set if there were objects and none could be evicted.
EvictEnd ==
  /\ evictor.pass = 2 \/ (evictor.pass = 1 /\ evictor.left = {})
  /\ evictor' = SleepingEvictor
  /\ needEviction' = (needEviction /\ evictor.evicted = 0 /\ evictor.seen = 1)
  /\ UNCHANGED <<segmentVars, objectVars, cleaner, clientVars>>

-----------------------------------------------------------------------------

Elapse(t) == IF t > 0 THEN t - 1 ELSE t

\* One unit of time passes.
Tick ==
  /\ lease' = [k \in Key |-> Elapse(lease[k])]
  /\ softPin' = [k \in Key |-> Elapse(softPin[k])]
  /\ clientTtl' = [c \in Client |-> Elapse(clientTtl[c])]
  /\ UNCHANGED <<segmentVars, objects, replicas, allocated, cleaner, okClient,
                 pingQueue, expired, evictVars>>

KeyNext(k) ==
  \/ AccessorMiss(k)
  \/ ExistKey(k)
  \/ GetReplicaList(k)
  \/ \E n \in SliceNums, rn \in ReplicaNums :
        \E M \in Allocate(FreeBuffers(k), n, rn), soft \in SoftPins : PutStart(k, M, soft)
  \/ PutStartNoSpace(k)
  \/ PutStartExists(k)
  \/ \E ty \in ReplicaType : PutEnd(k, ty) \/ PutRevoke(k, ty)
  \/ Remove(k)

ShardNext(sh) ==
  \/ \E pattern \in SUBSET KeysOf(sh) :
        \/ GetReplicaListByRegex(sh, pattern)
        \/ RemoveByRegex(sh, pattern)
  \/ \E gone \in SUBSET KeysOf(sh) :
        \/ RemoveAll(sh, gone)
        \/ EvictShard(sh, gone)

HoldNext(sh) == HoldAllocator(sh) \/ DropAllocator(sh)

UnmountNext(t) == ClearInvalidHandles(t) \/ CommitUnmount(t)

ClientNext(c) ==
  \/ Ping(c)
  \/ \E segs \in SUBSET {s \in Segment : Owner[s] = c} : ReMountSegment(c, segs)

Next ==
  \/ \E k \in Key : KeyNext(k)
  \/ \E sh \in Shard : ShardNext(sh)
  \/ \E sh \in Shard : HoldNext(sh)
  \/ \E t \in Thread : UnmountNext(t)
  \/ \E s \in Segment : MountSegment(s) \/ \E t \in Worker : PrepareUnmount(t, s)
  \/ \E c \in Client : ClientNext(c)
  \/ MonitorScan \/ MonitorExpire
  \/ EvictStart \/ EvictSecondPass \/ EvictEnd
  \/ Tick

Spec == Init /\ [][Next]_vars

\* Nothing in a call of UnmountSegment or in the monitor waits for anything but
\* mutexes, whose holders come to their end and which a waiting thread gets in
\* its turn; the monitor loops forever and time goes on.
FairSpec ==
  /\ Spec
  /\ \A t \in Thread : SF_vars(UnmountNext(t))
  /\ \A sh \in Shard : WF_vars(DropAllocator(sh))
  /\ WF_vars(MonitorScan) /\ WF_vars(MonitorExpire)
  /\ WF_vars(Tick)

-----------------------------------------------------------------------------
(* Correctness.                                                             *)

\* The two allocator containers hold exactly the allocators of the segments
\* with status OK (the comment on them in segment.h), and client_segments_
\* lists each mounted segment under its owner, whatever the order in which
\* RPC threads and the monitor mount, prepare and commit.
SegmentsConsistent ==
  /\ allocators = {AllocatorOf(s) : s \in {x \in Segment : status[x] = "OK"}}
  /\ \A s \in Segment : bufAllocator[s] = IF status[s] = "OK" THEN mounts[s] ELSE 0
  /\ \A c \in Client :
        clientSegments[c] = {s \in Segment : Owner[s] = c /\ status[s] # "NONE"}

\* The capacity metric counts every mounted segment once: no unmount is
\* committed twice and none is forgotten.
CapacityExact ==
  \A s \in Segment : memCapacity[s] = IF status[s] = "NONE" THEN 0 ELSE SegSize[s]

\* A segment that is being unmounted is in the hands of exactly one thread, so
\* CommitUnmountSegment, which does not look at the status, never drops a
\* segment that was mounted again meanwhile.
UnmountExclusive ==
  /\ \A t \in Thread : \A s \in cleaner[t].segs : status[s] = "UNMOUNTING"
  /\ \A s \in Segment : status[s] = "UNMOUNTING" =>
        \E t \in Thread : s \in cleaner[t].segs
  /\ \A t1, t2 \in Thread : t1 # t2 => cleaner[t1].segs \cap cleaner[t2].segs = {}

\* A handle in the metadata belongs to the allocator in use, or to a segment that
\* is being unmounted by a thread whose ClearInvalidHandles has yet to reach the
\* shard of the object, or the cleaner of its shard found its allocator alive in
\* the hands of another call.  That is the one way in which an object can keep a
\* handle into a segment whose unmount is committed.
HandlesTracked ==
  \A k \in Key : \A b \in Bufs(replicas[k]) :
    \/ Current(b)
    \/ [shard |-> ShardOf[k], alloc |-> AllocatorFor(b)] \in outlived
    \/ /\ status[b.seg] = "UNMOUNTING"
       /\ b.gen = mounts[b.seg]
       /\ \E t \in Thread :
             b.seg \in cleaner[t].segs /\ cleaner[t].next <= ShardOf[k]

\* No unit of an allocator is held by two replicas or by two slices of one,
\* while the allocator lives or after.
BufferExclusive ==
  \A k1, k2 \in Key : \A r1 \in replicas[k1], r2 \in replicas[k2] :
    \A i1 \in DOMAIN r1.bufs, i2 \in DOMAIN r2.bufs :
      r1.bufs[i1] = r2.bufs[i2] => k1 = k2 /\ r1 = r2 /\ i1 = i2

\* The units in use in an allocator are the ones its live handles hold: nothing
\* leaks and nothing is freed while it is held, whichever of the operations,
\* the cleaners and the evictor drops the handle.
AllocatedExact ==
  \A s \in Segment :
    allocated[s] = {b.slot : b \in {x \in UNION {Bufs(replicas[k]) : k \in Key} :
                                       x.seg = s /\ Current(x)}}

\* Every client that has a usable segment, or that is in ok_client_, is being
\* timed: it is in the ping queue, in client_ttl, or about to be expired
\* (the comments in MountSegment and ReMountSegment).
Monitored ==
  \A c \in Client :
    \/ \E s \in Segment : Owner[s] = c /\ status[s] = "OK"
    \/ c \in okClient
    => c \in Pinged \/ c \in expired \/ clientTtl[c] # NoTtl

\* A complete replica of an object with a running lease stays as long as its
\* segments stay mounted: no Remove, RemoveByRegex, RemoveAll, PutRevoke or
\* eviction takes it away under a reader.
LeaseProtects ==
  [][\A k \in Key : \A r \in CompleteReplicas(replicas[k]) :
        lease[k] > 0 /\ (\A b \in BufsOf(r) : Valid(b)') => r \in replicas'[k]]_vars

\* Every unmount comes to its end, whether an RPC or the monitor began it and
\* whatever mounts, pings and other unmounts happen meanwhile; a segment never
\* stays UNMOUNTING, a status in which it can be neither used nor mounted again.
UnmountTerminates ==
  \A s \in Segment : status[s] = "UNMOUNTING" ~> status[s] = "NONE"

\* A client that is never heard of again (each of its calls begins with a push
\* to the ping queue) loses its status and all its segments for good, however
\* busy the other clients keep the ping queue and whichever allocators are held
\* meanwhile; HandlesTracked says what may then be left of what was stored there.
DeadClientExpires ==
  \A c \in Client :
    <>[][pingQueue' # Append(pingQueue, c)]_vars =>
      <>[](/\ c \notin okClient
           /\ \A s \in Segment : Owner[s] = c => status[s] = "NONE")
=============================================================================
