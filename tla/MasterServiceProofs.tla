------------------------- MODULE MasterServiceProofs -------------------------
(***************************************************************************)
(* Safety of MasterService for every set of clients, segments, keys and    *)
(* threads, in three parts: type correctness; the inductive invariant,     *)
(* built in layers (the segment registry with the threads that unmount,    *)
(* then the handles held by the metadata, then the units of the            *)
(* allocators, then the client monitor); and what the deadlines guarantee. *)
(***************************************************************************)
EXTENDS MasterService, TLAPS

(***************************************************************************)
(* Type correctness.                                                       *)
(***************************************************************************)
\* Facts about the helpers: what they keep in the type of the state.
LEMMA CleanType ==
  ASSUME ObjectTypeOK, NEW k \in Key
  PROVE  CleanReplicas(k) \in SUBSET ReplicaSet
BY DEF ObjectTypeOK, CleanReplicas

\* mark_complete keeps the type of the replicas.
LEMMA MarkType ==
  ASSUME NEW R \in SUBSET ReplicaSet, NEW ty
  PROVE  MarkComplete(R, ty) \in SUBSET ReplicaSet
BY DEF MarkComplete, ReplicaSet, ReplicaStatus

\* Erasing replicas of a type keeps the type of the rest.
LEMMA EraseReplicaType ==
  ASSUME NEW R \in SUBSET ReplicaSet, NEW ty
  PROVE  EraseReplica(R, ty) \in SUBSET ReplicaSet
BY DEF EraseReplica

\* Giving units back leaves sets of units.
LEMMA ReleaseType ==
  ASSUME ObjectTypeOK, NEW B, Release(B)
  PROVE  allocated' \in [Segment -> SUBSET Slot]
BY DEF ObjectTypeOK, Release

\* Erasing entries keeps the metadata well typed.
LEMMA EraseObjectsType ==
  ASSUME ObjectTypeOK, NEW new \in [Key -> SUBSET ReplicaSet], NEW gone,
         EraseObjects(new, gone)
  PROVE  ObjectTypeOK'
<1>1. allocated' \in [Segment -> SUBSET Slot]
  BY ReleaseType DEF EraseObjects
<1>2. /\ lease' \in [Key -> 0 .. LeaseTTL]
      /\ softPin' \in [Key -> {NoPin} \cup (0 .. SoftTTL)]
  BY TimeAssumption DEF ObjectTypeOK, EraseObjects
<1>3. /\ objects' \in SUBSET Key
      /\ replicas' \in [Key -> SUBSET ReplicaSet]
  BY DEF ObjectTypeOK, EraseObjects
<1> QED BY <1>1, <1>2, <1>3 DEF ObjectTypeOK

\* Keeping the entries with new replicas does as well.
LEMMA KeepObjectsType ==
  ASSUME ObjectTypeOK, NEW new \in [Key -> SUBSET ReplicaSet], KeepObjects(new)
  PROVE  /\ objects' \in SUBSET Key
         /\ replicas' \in [Key -> SUBSET ReplicaSet]
         /\ allocated' \in [Segment -> SUBSET Slot]
BY ReleaseType DEF ObjectTypeOK, KeepObjects

\* A granted lease or soft pin stays below its TTL.
LEMMA GrantLeaseType ==
  ASSUME ObjectTypeOK, NEW K, NEW ttl \in 0 .. LeaseTTL, GrantLease(K, ttl)
  PROVE  /\ lease' \in [Key -> 0 .. LeaseTTL]
         /\ softPin' \in [Key -> {NoPin} \cup (0 .. SoftTTL)]
BY TimeAssumption DEF ObjectTypeOK, GrantLease, Later, NoPin

\* Replacing the replicas of one key.
LEMMA WithType ==
  ASSUME ObjectTypeOK, NEW k \in Key, NEW R \in SUBSET ReplicaSet
  PROVE  With(k, R) \in [Key -> SUBSET ReplicaSet]
BY DEF ObjectTypeOK, With

\* What the allocators have free are buffers.
LEMMA FreeType ==
  ASSUME SegmentTypeOK, NEW k \in Key
  PROVE  FreeBuffers(k) \in SUBSET Buffer
BY DEF SegmentTypeOK, FreeBuffers, Allocator, Buffer

\* What Allocate returns are replicas.
LEMMA AllocateType ==
  ASSUME NEW F \in SUBSET Buffer, NEW n \in Nat \ {0}, NEW rn \in Nat \ {0},
         NEW M \in Allocate(F, n, rn)
  PROVE  M \in SUBSET ReplicaSet
<1>1. PICK m \in 1 .. rn :
         M \in {{MemoryReplica(A[j]) : j \in 1 .. m} : A \in Placements(F, n, m)}
  BY DEF Allocate
<1>2. PICK A \in [1 .. m -> [1 .. n -> F]] : M = {MemoryReplica(A[j]) : j \in 1 .. m}
  BY <1>1 DEF Placements
<1>3. \A j \in 1 .. m : A[j] \in Seq(Buffer)
  <2> SUFFICES ASSUME NEW j \in 1 .. m PROVE A[j] \in Seq(Buffer)
    OBVIOUS
  <2>1. A[j] \in [1 .. n -> Buffer]
    BY <1>2
  <2> QED BY <2>1
<1>4. \A j \in 1 .. m : MemoryReplica(A[j]) \in ReplicaSet
  BY <1>3 DEF MemoryReplica, ReplicaSet, ReplicaType, ReplicaStatus
<1> QED BY <1>2, <1>4

\* The buffers of a well-typed set of replicas.
LEMMA BufsType ==
  ASSUME NEW R \in SUBSET ReplicaSet
  PROVE  Bufs(R) \in SUBSET Buffer
<1> SUFFICES ASSUME NEW r \in R, NEW i \in DOMAIN r.bufs
             PROVE  r.bufs[i] \in Buffer
  BY DEF Bufs, BufsOf
<1>1. r.bufs \in Seq(Buffer)
  BY DEF ReplicaSet
<1> QED BY <1>1

\* The disk replica of a Put is a replica.
LEMMA DiskType == DiskReplica \in ReplicaSet
BY DEF DiskReplica, ReplicaSet, ReplicaType, ReplicaStatus

-----------------------------------------------------------------------------

\* Every operation on one key keeps the type of the metadata.
LEMMA KeyTypes ==
  ASSUME TypeOK, NEW k \in Key, KeyNext(k)
  PROVE  TypeOK'
<1> USE DEF TypeOK
<1>1. CASE AccessorMiss(k)
  <2>1. replicas \in [Key -> SUBSET ReplicaSet]
    BY DEF ObjectTypeOK
  <2>2. ObjectTypeOK'
    BY <1>1, <2>1, EraseObjectsType DEF AccessorMiss
  <2> QED
    BY <1>1, <2>2 DEF AccessorMiss, segmentVars, clientVars, evictVars,
       SegmentTypeOK, CleanerTypeOK, ClientTypeOK, EvictTypeOK
<1>2. CASE LeaseOnRead(k)
  <2>1. With(k, CleanReplicas(k)) \in [Key -> SUBSET ReplicaSet]
    BY CleanType, WithType
  <2>2. ObjectTypeOK'
    BY <1>2, <2>1, KeepObjectsType, GrantLeaseType, TimeAssumption
       DEF LeaseOnRead, ObjectTypeOK
  <2> QED
    BY <1>2, <2>2 DEF LeaseOnRead, segmentVars, clientVars, evictVars,
       SegmentTypeOK, CleanerTypeOK, ClientTypeOK, EvictTypeOK
<1>3. ASSUME PutStartNoSpace(k)
      PROVE  TypeOK'
  <2>1. With(k, {}) \in [Key -> SUBSET ReplicaSet]
    BY WithType
  <2>2. ObjectTypeOK'
    BY <1>3, <2>1, KeepObjectsType DEF PutStartNoSpace, ObjectTypeOK
  <2> QED
    BY <1>3, <2>2 DEF PutStartNoSpace, segmentVars, clientVars,
       SegmentTypeOK, CleanerTypeOK, ClientTypeOK, EvictTypeOK
<1>4. ASSUME NEW n \in SliceNums, NEW rn \in ReplicaNums,
             NEW M \in Allocate(FreeBuffers(k), n, rn), NEW soft \in SoftPins,
             PutStart(k, M, soft)
      PROVE  TypeOK'
  <2>1. M \in SUBSET ReplicaSet
    BY FreeType, AllocateType, ConfigAssumption
  <2>2. CASE k \in objects
    <3>1. With(k, {}) \in [Key -> SUBSET ReplicaSet]
      BY WithType
    <3> QED BY <1>4, <2>2, <3>1, KeepObjectsType DEF PutStart, ObjectTypeOK, segmentVars,
       clientVars, evictVars, SegmentTypeOK, CleanerTypeOK, ClientTypeOK, EvictTypeOK
  <2>3. CASE k \notin objects
    <3> DEFINE new == M \cup (IF UseDisk THEN {DiskReplica} ELSE {})
    <3>1. With(k, new) \in [Key -> SUBSET ReplicaSet]
      BY <2>1, DiskType, WithType
    <3>2. \A b \in Bufs(M) : b.slot \in Slot
      BY <2>1, BufsType DEF Buffer
    <3>3. allocated' \in [Segment -> SUBSET Slot]
      BY <1>4, <2>3, <3>2 DEF PutStart, ObjectTypeOK
    <3>4. /\ lease' \in [Key -> 0 .. LeaseTTL]
          /\ softPin' \in [Key -> {NoPin} \cup (0 .. SoftTTL)]
      BY <1>4, <2>3, TimeAssumption DEF PutStart, ObjectTypeOK
    <3>5. /\ objects' \in SUBSET Key
          /\ replicas' \in [Key -> SUBSET ReplicaSet]
      BY <1>4, <2>3, <3>1 DEF PutStart, ObjectTypeOK
    <3> QED BY <1>4, <3>3, <3>4, <3>5 DEF PutStart, ObjectTypeOK, segmentVars,
       clientVars, evictVars, SegmentTypeOK, CleanerTypeOK, ClientTypeOK, EvictTypeOK
  <2> QED BY <2>2, <2>3
<1>5. CASE PutStartExists(k)
  <2>1. With(k, CleanReplicas(k)) \in [Key -> SUBSET ReplicaSet]
    BY CleanType, WithType
  <2> QED
    BY <1>5, <2>1, KeepObjectsType DEF PutStartExists, ObjectTypeOK, segmentVars,
       clientVars, evictVars, SegmentTypeOK, CleanerTypeOK, ClientTypeOK, EvictTypeOK
<1>6. ASSUME NEW ty \in ReplicaType, PutEnd(k, ty)
      PROVE  TypeOK'
  <2>1. With(k, MarkComplete(CleanReplicas(k), ty)) \in [Key -> SUBSET ReplicaSet]
    BY CleanType, MarkType, WithType
  <2>2. ObjectTypeOK'
    BY <1>6, <2>1, KeepObjectsType, GrantLeaseType, TimeAssumption
       DEF PutEnd, ObjectTypeOK
  <2> QED
    BY <1>6, <2>2 DEF PutEnd, segmentVars, clientVars, evictVars,
       SegmentTypeOK, CleanerTypeOK, ClientTypeOK, EvictTypeOK
<1>7. ASSUME NEW ty \in ReplicaType, PutRevoke(k, ty)
      PROVE  TypeOK'
  <2> DEFINE R    == CleanReplicas(k)
             left == IF HasDiffRepStatus(R, "PROCESSING", ty) THEN R
                                                      ELSE EraseReplica(R, ty)
  <2>1. With(k, left) \in [Key -> SUBSET ReplicaSet]
    BY CleanType, EraseReplicaType, WithType
  <2>2. ObjectTypeOK'
    BY <1>7, <2>1, EraseObjectsType DEF PutRevoke
  <2> QED
    BY <1>7, <2>2 DEF PutRevoke, segmentVars, clientVars, evictVars,
       SegmentTypeOK, CleanerTypeOK, ClientTypeOK, EvictTypeOK
<1>8. CASE Remove(k)
  <2>1. With(k, CleanReplicas(k)) \in [Key -> SUBSET ReplicaSet]
    BY CleanType, WithType
  <2>2. ObjectTypeOK'
    BY <1>8, <2>1, EraseObjectsType DEF Remove
  <2> QED
    BY <1>8, <2>2 DEF Remove, segmentVars, clientVars, evictVars,
       SegmentTypeOK, CleanerTypeOK, ClientTypeOK, EvictTypeOK
<1> QED
  BY <1>1, <1>2, <1>3, <1>4, <1>5, <1>6, <1>7, <1>8
     DEF KeyNext, ExistKey, GetReplicaList

\* So does the work on one shard.
LEMMA ShardTypes ==
  ASSUME TypeOK, NEW sh \in Shard, ShardNext(sh)
  PROVE  TypeOK'
<1> USE DEF TypeOK
<1>1. ASSUME NEW pattern \in SUBSET KeysOf(sh), GetReplicaListByRegex(sh, pattern)
      PROVE  TypeOK'
  BY <1>1, GrantLeaseType, TimeAssumption DEF GetReplicaListByRegex, ObjectTypeOK,
     segmentVars, clientVars, evictVars, SegmentTypeOK, CleanerTypeOK, ClientTypeOK,
     EvictTypeOK
<1>2. replicas \in [Key -> SUBSET ReplicaSet]
  BY DEF ObjectTypeOK
<1>3. ASSUME NEW pattern \in SUBSET KeysOf(sh), RemoveByRegex(sh, pattern)
      PROVE  TypeOK'
  <2>1. ObjectTypeOK'
    BY <1>2, <1>3, EraseObjectsType DEF RemoveByRegex
  <2> QED
    BY <1>3, <2>1 DEF RemoveByRegex, segmentVars, clientVars, evictVars,
       SegmentTypeOK, CleanerTypeOK, ClientTypeOK, EvictTypeOK
<1>4. ASSUME NEW gone \in SUBSET KeysOf(sh), RemoveAll(sh, gone)
      PROVE  TypeOK'
  <2>1. ObjectTypeOK'
    BY <1>2, <1>4, EraseObjectsType DEF RemoveAll
  <2> QED
    BY <1>4, <2>1 DEF RemoveAll, segmentVars, clientVars, evictVars,
       SegmentTypeOK, CleanerTypeOK, ClientTypeOK, EvictTypeOK
<1>5. ASSUME NEW gone \in SUBSET KeysOf(sh), EvictShard(sh, gone)
      PROVE  TypeOK'
  <2> DEFINE left == [k \in Key |->
               IF k \in gone THEN EraseReplica(replicas[k], "MEMORY") ELSE replicas[k]]
  <2>1. left \in [Key -> SUBSET ReplicaSet]
    BY <1>2, EraseReplicaType
  <2> HIDE DEF left
  <2>2. EraseObjects(left, {k \in gone : left[k] = {}})
    BY <1>5 DEF EvictShard, left
  <2>3. ObjectTypeOK'
    BY <2>1, <2>2, EraseObjectsType
  <2>4. EvictTypeOK'
    BY <1>5 DEF EvictShard, EvictTypeOK
  <2> QED
    BY <1>5, <2>3, <2>4 DEF EvictShard, segmentVars, clientVars,
       SegmentTypeOK, CleanerTypeOK, ClientTypeOK
<1> QED BY <1>1, <1>3, <1>4, <1>5 DEF ShardNext

\* A change of the segment registry leaves allocated well typed.
LEMMA ResetUnitsType ==
  ASSUME ObjectTypeOK, ResetUnits
  PROVE  allocated' \in [Segment -> SUBSET Slot]
BY DEF ObjectTypeOK, ResetUnits

\* Mounting keeps the registry well typed.
LEMMA MountSegmentsType ==
  ASSUME SegmentTypeOK, NEW S \in SUBSET Segment, NEW c \in Client, MountSegments(S, c)
  PROVE  SegmentTypeOK'
BY SegSizeAssumption
   DEF SegmentTypeOK, MountSegments, MountSucceeds, SegmentStatus, Allocator

\* So does the first step of an unmount.
LEMMA PrepareType ==
  ASSUME SegmentTypeOK, NEW S \in SUBSET Segment, PrepareUnmountSegments(S)
  PROVE  SegmentTypeOK'
BY DEF SegmentTypeOK, PrepareUnmountSegments, SegmentStatus

\* And its last step.
LEMMA CommitType ==
  ASSUME SegmentTypeOK, NEW S \in SUBSET Segment, CommitUnmountSegments(S)
  PROVE  SegmentTypeOK'
BY SegSizeAssumption DEF SegmentTypeOK, CommitUnmountSegments, SegmentStatus

\* The ping queue holds clients.
LEMMA PushPingType ==
  ASSUME ClientTypeOK, NEW c \in Client, PushPing(c)
  PROVE  pingQueue' \in Seq(Client)
BY DEF ClientTypeOK, PushPing

\* What a cleaner leaves behind is a set of allocators, noted with the shard.
LEMMA MeetingType ==
  ASSUME ObjectTypeOK, NEW sh \in Nat, NEW K \in SUBSET Key
  PROVE  LeftIn(sh, K) \in SUBSET Meeting
<1> SUFFICES ASSUME NEW k \in K, NEW b \in Bufs(CleanReplicas(k))
             PROVE  [shard |-> sh, alloc |-> AllocatorFor(b)] \in Meeting
  BY DEF LeftIn
<1>1. b \in Buffer
  BY CleanType, BufsType
<1> QED BY <1>1 DEF Buffer, AllocatorFor, Meeting, Allocator

\* A call that holds an allocator, or lets it go.
LEMMA HoldTypes ==
  ASSUME TypeOK, NEW sh \in Shard, HoldNext(sh)
  PROVE  TypeOK'
<1>1. holders' \in SUBSET Meeting
  <2>1. CASE HoldAllocator(sh)
    <3>1. PICK a \in WithinReach(sh) :
             holders' = holders \cup {[shard |-> sh, alloc |-> a]}
      BY <2>1 DEF HoldAllocator
    <3>2. a \in Allocator
      <4>1. CASE a \in allocators
        BY <4>1 DEF TypeOK, SegmentTypeOK
      <4>2. ASSUME NEW k \in Key, NEW b \in Bufs(replicas[k]), a = AllocatorFor(b)
            PROVE  a \in Allocator
        <5>1. b \in Buffer
          BY <4>2, BufsType DEF TypeOK, ObjectTypeOK
        <5> QED BY <4>2, <5>1 DEF Buffer, AllocatorFor, Allocator
      <4> QED BY <4>1, <4>2 DEF WithinReach, KeysOf
    <3>3. sh \in Nat
      BY ShardAssumption DEF Shard
    <3> QED BY <3>1, <3>2, <3>3 DEF TypeOK, SegmentTypeOK, Meeting
  <2>2. CASE DropAllocator(sh)
    BY <2>2 DEF DropAllocator, TypeOK, SegmentTypeOK
  <2> QED BY <2>1, <2>2 DEF HoldNext
<1>2. UNCHANGED <<registryVars, outlived, objectVars, cleaner, clientVars, evictVars>>
  BY DEF HoldNext, HoldAllocator, DropAllocator
<1> QED
  BY <1>1, <1>2 DEF registryVars, objectVars, clientVars, evictVars, TypeOK,
     SegmentTypeOK, ObjectTypeOK, CleanerTypeOK, ClientTypeOK, EvictTypeOK

\* Mounting, unmounting and the monitor.
LEMMA SegmentTypes ==
  ASSUME TypeOK,
         \/ \E t \in Thread : UnmountNext(t)
         \/ \E s \in Segment : MountSegment(s) \/ \E t \in Worker : PrepareUnmount(t, s)
         \/ \E c \in Client : ClientNext(c)
         \/ MonitorScan
         \/ MonitorExpire
  PROVE  TypeOK'
<1> USE DEF TypeOK
<1>1. ASSUME NEW t \in Thread, ClearInvalidHandles(t)
      PROVE  TypeOK'
  <2> DEFINE keys  == objects \cap KeysOf(cleaner[t].next)
             clean == [k \in Key |-> IF k \in keys THEN CleanReplicas(k) ELSE replicas[k]]
  <2>1. clean \in [Key -> SUBSET ReplicaSet]
    BY CleanType DEF ObjectTypeOK
  <2> HIDE DEF clean
  <2>2. EraseObjects(clean, {k \in keys : clean[k] = {}})
    BY <1>1 DEF ClearInvalidHandles, clean
  <2>3. ObjectTypeOK'
    BY <2>1, <2>2, EraseObjectsType
  <2>4. CleanerTypeOK'
    BY <1>1, ShardAssumption DEF ClearInvalidHandles, CleanerTypeOK
  <2>5. LeftIn(cleaner[t].next, keys) \in SUBSET Meeting
    <3>1. cleaner[t].next \in Nat
      BY ShardAssumption DEF CleanerTypeOK
    <3>2. keys \in SUBSET Key
      BY DEF ObjectTypeOK
    <3> HIDE DEF keys
    <3> QED BY <3>1, <3>2, MeetingType
  <2>6. SegmentTypeOK'
    BY <1>1, <2>5 DEF ClearInvalidHandles, registryVars, SegmentTypeOK
  <2> QED
    BY <1>1, <2>3, <2>4, <2>6 DEF ClearInvalidHandles, clientVars, evictVars,
       ClientTypeOK, EvictTypeOK
<1>2. ASSUME NEW t \in Thread, CommitUnmount(t)
      PROVE  TypeOK'
  <2>1. SegmentTypeOK'
    BY <1>2, CommitType DEF CommitUnmount, CleanerTypeOK
  <2>2. CleanerTypeOK'
    BY <1>2, ShardAssumption DEF CommitUnmount, CleanerTypeOK, IdleCleaner
  <2> QED
    BY <1>2, <2>1, <2>2 DEF CommitUnmount, objectVars, clientVars, evictVars,
       ObjectTypeOK, ClientTypeOK, EvictTypeOK
<1>3. ASSUME NEW s \in Segment, MountSegment(s)
      PROVE  TypeOK'
  <2>1. Owner[s] \in Client
    BY OwnerAssumption
  <2>2. SegmentTypeOK'
    BY <1>3, <2>1, MountSegmentsType DEF MountSegment
  <2>3. ObjectTypeOK' /\ ClientTypeOK'
    BY <1>3, <2>1, PushPingType, ResetUnitsType DEF MountSegment, ObjectTypeOK, ClientTypeOK
  <2> QED
    BY <1>3, <2>2, <2>3 DEF MountSegment, evictVars, CleanerTypeOK, EvictTypeOK
<1>4. ASSUME NEW c \in Client, NEW segs \in SUBSET {s \in Segment : Owner[s] = c},
             ReMountSegment(c, segs)
      PROVE  TypeOK'
  <2>1. PICK reached \in ReMountReaches(segs) :
           /\ MountSegments(reached, c)
           /\ okClient' = IF reached = segs THEN okClient \cup {c} ELSE okClient
    BY <1>4 DEF ReMountSegment
  <2>2. reached \in SUBSET Segment
    BY DEF ReMountReaches
  <2>3. SegmentTypeOK'
    BY <2>1, <2>2, MountSegmentsType
  <2>4. ObjectTypeOK' /\ ClientTypeOK'
    BY <1>4, <2>1, PushPingType, ResetUnitsType
       DEF ReMountSegment, ObjectTypeOK, ClientTypeOK
  <2> QED
    BY <1>4, <2>3, <2>4 DEF ReMountSegment, evictVars, CleanerTypeOK, EvictTypeOK
<1>5. ASSUME NEW s \in Segment, NEW t \in Worker, PrepareUnmount(t, s)
      PROVE  TypeOK'
  <2>1. SegmentTypeOK'
    BY <1>5, PrepareType DEF PrepareUnmount
  <2>2. ObjectTypeOK'
    BY <1>5, ResetUnitsType DEF PrepareUnmount, ObjectTypeOK
  <2>3. CleanerTypeOK'
    BY <1>5, ShardAssumption DEF PrepareUnmount, CleanerTypeOK, Thread
  <2> QED
    BY <1>5, <2>1, <2>2, <2>3 DEF PrepareUnmount, clientVars, evictVars,
       ClientTypeOK, EvictTypeOK
<1>6. ASSUME NEW c \in Client, Ping(c)
      PROVE  TypeOK'
  BY <1>6, PushPingType DEF Ping, segmentVars, objectVars, evictVars, SegmentTypeOK,
     ObjectTypeOK, CleanerTypeOK, ClientTypeOK, EvictTypeOK
<1>7. CASE MonitorScan
  <2> DEFINE ttl == [c \in Client |-> IF c \in Pinged THEN ClientTTL + 1 ELSE clientTtl[c]]
  <2>1. ttl \in [Client -> {NoTtl} \cup (0 .. ClientTTL + 1)]
    BY TimeAssumption DEF ClientTypeOK
  <2>2. clientTtl' \in [Client -> {NoTtl} \cup (0 .. ClientTTL + 1)]
    BY <1>7, <2>1 DEF MonitorScan
  <2>3. ClientTypeOK'
    BY <1>7, <2>2 DEF MonitorScan, ClientTypeOK
  <2> QED
    BY <1>7, <2>3 DEF MonitorScan, segmentVars, objectVars, evictVars, SegmentTypeOK,
       ObjectTypeOK, CleanerTypeOK, EvictTypeOK
<1>8. CASE MonitorExpire
  <2> DEFINE segs == {s \in UNION {GetClientSegments(c) : c \in expired} :
                         CanPrepareUnmount(s)}
  <2>1. segs \in SUBSET Segment
    BY DEF GetClientSegments, SegmentTypeOK, ClientTypeOK
  <2>2. SegmentTypeOK'
    BY <1>8, <2>1, PrepareType DEF MonitorExpire
  <2>3. ObjectTypeOK'
    BY <1>8, ResetUnitsType DEF MonitorExpire, ObjectTypeOK
  <2>4. CleanerTypeOK'
    BY <1>8, <2>1, ShardAssumption DEF MonitorExpire, CleanerTypeOK, Thread
  <2> QED
    BY <1>8, <2>2, <2>3, <2>4 DEF MonitorExpire, evictVars, ClientTypeOK, EvictTypeOK
<1> QED
  BY <1>1, <1>2, <1>3, <1>4, <1>5, <1>6, <1>7, <1>8 DEF UnmountNext, ClientNext

\* The constructor establishes the types.
LEMMA TypeInit == Init => TypeOK
<1> SUFFICES ASSUME Init PROVE TypeOK
  OBVIOUS
<1> USE DEF Init
<1>1. SegmentTypeOK
  BY DEF SegmentInit, SegmentTypeOK, SegmentStatus
<1>2. ObjectTypeOK
  BY TimeAssumption DEF ObjectTypeOK
<1>3. CleanerTypeOK
  BY ShardAssumption DEF CleanerTypeOK, IdleCleaner
<1>4. ClientTypeOK
  BY DEF ClientTypeOK
<1>5. EvictTypeOK
  <2>1. SleepingEvictor \in [pass : 0 .. 2, left : SUBSET Shard,
                             evicted : {0, 1}, seen : {0, 1}]
    BY DEF SleepingEvictor
  <2> QED BY <2>1 DEF EvictTypeOK
<1> QED BY <1>1, <1>2, <1>3, <1>4, <1>5 DEF TypeOK

\* Every step of the master keeps them.
LEMMA TypeStep == TypeOK /\ [Next]_vars => TypeOK'
<1> SUFFICES ASSUME TypeOK, [Next]_vars PROVE TypeOK'
  OBVIOUS
<1>1. CASE EvictStart \/ EvictSecondPass \/ EvictEnd
  <2> SUFFICES EvictTypeOK'
    BY <1>1 DEF EvictStart, EvictSecondPass, EvictEnd, segmentVars, objectVars,
       clientVars, TypeOK, SegmentTypeOK, ObjectTypeOK, CleanerTypeOK, ClientTypeOK
  <2>1. CASE EvictStart
    BY <2>1 DEF TypeOK, EvictTypeOK, EvictStart, SleepingEvictor
  <2>2. CASE EvictSecondPass
    BY <2>2 DEF TypeOK, EvictTypeOK, EvictSecondPass
  <2>3. CASE EvictEnd
    BY <2>3 DEF TypeOK, EvictTypeOK, EvictEnd, SleepingEvictor
  <2> QED BY <1>1, <2>1, <2>2, <2>3
<1>2. CASE Tick
  <2>1. /\ lease' \in [Key -> 0 .. LeaseTTL]
        /\ softPin' \in [Key -> {NoPin} \cup (0 .. SoftTTL)]
        /\ clientTtl' \in [Client -> {NoTtl} \cup (0 .. ClientTTL + 1)]
    BY <1>2, TimeAssumption DEF Tick, Elapse, TypeOK, ObjectTypeOK, ClientTypeOK, NoPin, NoTtl
  <2> QED
    BY <1>2, <2>1 DEF Tick, segmentVars, evictVars, TypeOK, SegmentTypeOK,
       ObjectTypeOK, CleanerTypeOK, ClientTypeOK, EvictTypeOK
<1>3. CASE UNCHANGED vars
  BY <1>3 DEF vars, segmentVars, objectVars, clientVars, evictVars, TypeOK,
     SegmentTypeOK, ObjectTypeOK, CleanerTypeOK, ClientTypeOK, EvictTypeOK
<1> QED
  BY <1>1, <1>2, <1>3, KeyTypes, ShardTypes, HoldTypes, SegmentTypes DEF Next

\* Every variable of the master keeps its type in every behaviour.
THEOREM TypeCorrect == Spec => []TypeOK
  BY TypeInit, TypeStep, PTL DEF Spec

(***************************************************************************)
(* The inductive invariant.                                                *)
(***************************************************************************)
\* The monitor collects expired clients only when it is not unmounting.
MonitorQuiet == expired # {} => cleaner[Monitor] = IdleCleaner

MountsPositive == \A s \in Segment : status[s] # "NONE" => mounts[s] > 0

SegmentInv ==
  /\ TypeOK
  /\ SegmentsConsistent
  /\ CapacityExact
  /\ UnmountExclusive
  /\ MonitorQuiet
  /\ MountsPositive

\* The steps on the metadata, the evictor's and the clock's leave the segments
\* and the unmounting threads alone.
LEMMA ObjectFrame ==
  ASSUME \/ \E k \in Key : KeyNext(k)
         \/ \E sh \in Shard : ShardNext(sh)
         \/ EvictStart \/ EvictSecondPass \/ EvictEnd
         \/ Tick
  PROVE  UNCHANGED <<segmentVars, cleaner, expired, pingQueue, okClient>>
<1>1. ASSUME NEW k \in Key, KeyNext(k)
      PROVE  UNCHANGED <<segmentVars, cleaner, expired, pingQueue, okClient>>
  BY <1>1 DEF KeyNext, AccessorMiss, ExistKey, GetReplicaList, LeaseOnRead,
     PutStartNoSpace, PutStart, PutStartExists, PutEnd, PutRevoke, Remove, clientVars
<1>2. ASSUME NEW sh \in Shard, ShardNext(sh)
      PROVE  UNCHANGED <<segmentVars, cleaner, expired, pingQueue, okClient>>
  BY <1>2 DEF ShardNext, GetReplicaListByRegex, RemoveByRegex, RemoveAll, EvictShard,
     clientVars
<1>3. ASSUME EvictStart \/ EvictSecondPass \/ EvictEnd \/ Tick
      PROVE  UNCHANGED <<segmentVars, cleaner, expired, pingQueue, okClient>>
  BY <1>3 DEF EvictStart, EvictSecondPass, EvictEnd, Tick, clientVars
<1> QED BY <1>1, <1>2, <1>3

\* Nor does it matter to them who holds an allocator.
LEMMA HoldFrame ==
  ASSUME NEW sh, HoldNext(sh)
  PROVE  /\ UNCHANGED <<registryVars, outlived, cleaner, expired, pingQueue, okClient>>
         /\ UNCHANGED <<objects, replicas, lease, softPin, allocated, clientTtl>>
BY DEF HoldNext, HoldAllocator, DropAllocator, objectVars, clientVars

-----------------------------------------------------------------------------

\* Mounting a set of segments of client c.
LEMMA MountInv ==
  ASSUME SegmentInv, TypeOK', NEW c \in Client,
         NEW S \in SUBSET {s \in Segment : Owner[s] = c},
         MountSegments(S, c), UNCHANGED <<cleaner, expired>>
  PROVE  SegmentInv'
<1> DEFINE new == {s \in S : MountSucceeds(s)}
<1>0. /\ new \in SUBSET Segment
      /\ \A s \in new : status[s] = "NONE" /\ Owner[s] = c
  BY DEF MountSucceeds
<1> USE DEF SegmentInv, TypeOK, SegmentTypeOK
<1>1. /\ \A s \in new : status'[s] = "OK" /\ bufAllocator'[s] = mounts[s] + 1
                        /\ mounts'[s] = mounts[s] + 1
                        /\ memCapacity'[s] = memCapacity[s] + SegSize[s]
      /\ \A s \in Segment \ new : status'[s] = status[s] /\ bufAllocator'[s] = bufAllocator[s]
                        /\ mounts'[s] = mounts[s] /\ memCapacity'[s] = memCapacity[s]
      /\ allocators' = allocators \cup {[seg |-> s, gen |-> mounts[s] + 1] : s \in new}
      /\ clientSegments' = [clientSegments EXCEPT ![c] = @ \cup new]
  BY <1>0 DEF MountSegments
<1> HIDE DEF new
<1>2. SegmentsConsistent'
  <2>1. allocators' = {AllocatorOf(s)' : s \in {x \in Segment : status'[x] = "OK"}}
    BY <1>0, <1>1 DEF SegmentsConsistent, AllocatorOf
  <2>2. \A s \in Segment : bufAllocator'[s] = IF status'[s] = "OK" THEN mounts'[s] ELSE 0
    BY <1>0, <1>1 DEF SegmentsConsistent
  <2>3. \A d \in Client :
          clientSegments'[d] = {s \in Segment : Owner[s] = d /\ status'[s] # "NONE"}
    BY <1>0, <1>1 DEF SegmentsConsistent
  <2> QED BY <2>1, <2>2, <2>3 DEF SegmentsConsistent
<1>3. CapacityExact'
  BY <1>0, <1>1, SegSizeAssumption DEF CapacityExact
<1>4. UnmountExclusive'
  BY <1>0, <1>1 DEF UnmountExclusive, CleanerTypeOK
<1>5. MonitorQuiet' /\ MountsPositive'
  BY <1>0, <1>1 DEF MonitorQuiet, MountsPositive
<1> QED BY <1>2, <1>3, <1>4, <1>5

\* A thread t that is idle takes the OK segments S.
LEMMA PrepareInv ==
  ASSUME SegmentInv, TypeOK', NEW t \in Thread, NEW S \in SUBSET Segment,
         \A s \in S : CanPrepareUnmount(s),
         PrepareUnmountSegments(S),
         cleaner[t] = IdleCleaner,
         cleaner' = [cleaner EXCEPT ![t] = [segs |-> S, next |-> 0]]
  PROVE  SegmentsConsistent' /\ CapacityExact' /\ UnmountExclusive' /\ MountsPositive'
<1> USE DEF SegmentInv, TypeOK, SegmentTypeOK
<1>1. /\ \A s \in S : status[s] = "OK" /\ status'[s] = "UNMOUNTING" /\ bufAllocator'[s] = 0
      /\ \A s \in Segment \ S : status'[s] = status[s] /\ bufAllocator'[s] = bufAllocator[s]
      /\ mounts' = mounts /\ memCapacity' = memCapacity /\ clientSegments' = clientSegments
      /\ allocators' = allocators \ {AllocatorOf(s) : s \in S}
  BY DEF PrepareUnmountSegments, CanPrepareUnmount
<1>2. SegmentsConsistent'
  <2>1. allocators' = {AllocatorOf(s)' : s \in {x \in Segment : status'[x] = "OK"}}
    BY <1>1 DEF SegmentsConsistent, AllocatorOf
  <2>2. \A s \in Segment : bufAllocator'[s] = IF status'[s] = "OK" THEN mounts'[s] ELSE 0
    BY <1>1 DEF SegmentsConsistent
  <2>3. \A d \in Client :
          clientSegments'[d] = {s \in Segment : Owner[s] = d /\ status'[s] # "NONE"}
    BY <1>1 DEF SegmentsConsistent
  <2> QED BY <2>1, <2>2, <2>3 DEF SegmentsConsistent
<1>3. CapacityExact' /\ MountsPositive'
  BY <1>1 DEF CapacityExact, MountsPositive
<1>4. UnmountExclusive'
  <2>1. /\ cleaner'[t].segs = S
        /\ cleaner[t].segs = {}
        /\ \A u \in Thread \ {t} : cleaner'[u] = cleaner[u]
    BY DEF CleanerTypeOK, IdleCleaner
  <2>2. \A u \in Thread : \A s \in cleaner[u].segs : s \in Segment /\ s \notin S
    BY <1>1 DEF UnmountExclusive, CleanerTypeOK
  <2> QED BY <1>1, <2>1, <2>2 DEF UnmountExclusive
<1> QED BY <1>2, <1>3, <1>4

\* The commit drops only segments its thread owns, so what the others hold stays.
LEMMA CommitInv ==
  ASSUME SegmentInv, TypeOK', NEW t \in Thread, CommitUnmount(t)
  PROVE  SegmentInv'
<1> DEFINE S == cleaner[t].segs
<1> USE DEF SegmentInv, TypeOK, SegmentTypeOK
<1>1. /\ S \in SUBSET Segment
      /\ \A s \in S : status[s] = "UNMOUNTING" /\ status'[s] = "NONE" /\ bufAllocator'[s] = 0
                      /\ memCapacity'[s] = memCapacity[s] - SegSize[s]
      /\ \A s \in Segment \ S : status'[s] = status[s] /\ bufAllocator'[s] = bufAllocator[s]
                      /\ memCapacity'[s] = memCapacity[s]
      /\ mounts' = mounts /\ allocators' = allocators
      /\ clientSegments' = [c \in Client |-> clientSegments[c] \ {s \in S : Owner[s] = c}]
  BY DEF CommitUnmount, CommitUnmountSegments, UnmountExclusive, CleanerTypeOK
<1>2. SegmentsConsistent'
  <2>1. allocators' = {AllocatorOf(s)' : s \in {x \in Segment : status'[x] = "OK"}}
    BY <1>1 DEF SegmentsConsistent, AllocatorOf
  <2>2. \A s \in Segment : bufAllocator'[s] = IF status'[s] = "OK" THEN mounts'[s] ELSE 0
    BY <1>1 DEF SegmentsConsistent
  <2>3. \A d \in Client :
          clientSegments'[d] = {s \in Segment : Owner[s] = d /\ status'[s] # "NONE"}
    BY <1>1 DEF SegmentsConsistent
  <2> QED BY <2>1, <2>2, <2>3 DEF SegmentsConsistent
<1>3. CapacityExact' /\ MountsPositive'
  BY <1>1, SegSizeAssumption DEF CapacityExact, MountsPositive
<1>4. /\ cleaner'[t] = IdleCleaner
      /\ \A u \in Thread \ {t} : cleaner'[u] = cleaner[u]
  BY DEF CommitUnmount, CleanerTypeOK
<1>5. UnmountExclusive'
  <2>1. cleaner'[t].segs = {}
    BY <1>4 DEF IdleCleaner
  <2>2. \A u \in Thread \ {t} : \A s \in cleaner[u].segs : s \in Segment \ S
    BY DEF UnmountExclusive, CleanerTypeOK
  <2>3. \A u \in Thread : \A s \in cleaner'[u].segs : status'[s] = "UNMOUNTING"
    BY <1>1, <1>4, <2>1, <2>2 DEF UnmountExclusive
  <2>4. \A s \in Segment : status'[s] = "UNMOUNTING" =>
          \E u \in Thread : s \in cleaner'[u].segs
    <3> SUFFICES ASSUME NEW s \in Segment, status'[s] = "UNMOUNTING"
                 PROVE  \E u \in Thread : s \in cleaner'[u].segs
      OBVIOUS
    <3>1. s \notin S /\ status[s] = "UNMOUNTING"
      BY <1>1
    <3>2. PICK u \in Thread : s \in cleaner[u].segs
      BY <3>1 DEF UnmountExclusive
    <3> QED BY <3>1, <3>2, <1>4
  <2>5. \A t1, t2 \in Thread : t1 # t2 => cleaner'[t1].segs \cap cleaner'[t2].segs = {}
    BY <1>4, <2>1 DEF UnmountExclusive
  <2> QED BY <2>3, <2>4, <2>5 DEF UnmountExclusive
<1>6. MonitorQuiet'
  BY <1>4 DEF MonitorQuiet, CommitUnmount, clientVars, Thread
<1> QED BY <1>2, <1>3, <1>5, <1>6

\* What the registry and the unmounting threads keep, step by step.
LEMMA SegmentFrame ==
  ASSUME SegmentInv, TypeOK', UNCHANGED <<registryVars, expired>>,
         \A t \in Thread : cleaner'[t].segs = cleaner[t].segs,
         cleaner'[Monitor] = cleaner[Monitor] \/ expired = {}
  PROVE  SegmentInv'
<1> USE DEF SegmentInv, registryVars
<1>1. SegmentsConsistent' /\ CapacityExact' /\ MountsPositive'
  BY DEF SegmentsConsistent, CapacityExact, MountsPositive, AllocatorOf
<1>2. UnmountExclusive'
  BY DEF UnmountExclusive
<1>3. MonitorQuiet'
  BY DEF MonitorQuiet
<1> QED BY <1>1, <1>2, <1>3

\* Every step of the master keeps the invariant of the registry.
LEMMA SegmentStep == SegmentInv /\ [Next]_vars => SegmentInv'
<1> SUFFICES ASSUME SegmentInv, [Next]_vars PROVE SegmentInv'
  OBVIOUS
<1>0. TypeOK'
  BY TypeStep DEF SegmentInv
<1>1. CASE \/ \E k \in Key : KeyNext(k)
           \/ \E sh \in Shard : ShardNext(sh)
           \/ EvictStart \/ EvictSecondPass \/ EvictEnd
           \/ Tick
  BY <1>0, <1>1, ObjectFrame, SegmentFrame DEF segmentVars, registryVars
<1>2. ASSUME NEW t \in Thread, ClearInvalidHandles(t) PROVE SegmentInv'
  <2>1. cleaner' = [cleaner EXCEPT ![t].next = cleaner[t].next + 1]
    BY <1>2 DEF ClearInvalidHandles
  <2>2. \A u \in Thread : cleaner'[u].segs = cleaner[u].segs
    BY <2>1 DEF SegmentInv, TypeOK, CleanerTypeOK
  <2>3. cleaner'[Monitor] = cleaner[Monitor] \/ expired = {}
    BY <1>2, <2>1 DEF SegmentInv, MonitorQuiet, ClearInvalidHandles, IdleCleaner, TypeOK,
       CleanerTypeOK, Thread
  <2> QED BY <1>0, <1>2, <2>2, <2>3, SegmentFrame DEF ClearInvalidHandles, clientVars
<1>3. ASSUME NEW t \in Thread, CommitUnmount(t) PROVE SegmentInv'
  BY <1>0, <1>3, CommitInv
<1>4. ASSUME NEW s \in Segment, MountSegment(s) PROVE SegmentInv'
  <2>1. Owner[s] \in Client /\ {s} \in SUBSET {x \in Segment : Owner[x] = Owner[s]}
    BY OwnerAssumption
  <2> QED BY <1>0, <1>4, <2>1, MountInv DEF MountSegment
<1>5. ASSUME NEW c \in Client, NEW segs \in SUBSET {s \in Segment : Owner[s] = c},
             ReMountSegment(c, segs)
      PROVE  SegmentInv'
  <2>1. PICK reached \in ReMountReaches(segs) : MountSegments(reached, c)
    BY <1>5 DEF ReMountSegment
  <2>2. reached \in SUBSET {s \in Segment : Owner[s] = c}
    BY <2>1 DEF ReMountReaches
  <2> QED BY <1>0, <1>5, <2>1, <2>2, MountInv DEF ReMountSegment
<1>6. ASSUME NEW s \in Segment, NEW t \in Worker, PrepareUnmount(t, s) PROVE SegmentInv'
  <2>1. t \in Thread /\ t # Monitor
    BY WorkerAssumption DEF Thread
  <2>2. SegmentsConsistent' /\ CapacityExact' /\ UnmountExclusive' /\ MountsPositive'
    BY <1>0, <1>6, <2>1, PrepareInv DEF PrepareUnmount
  <2>3. MonitorQuiet'
    BY <1>6, <2>1 DEF PrepareUnmount, MonitorQuiet, SegmentInv, TypeOK, CleanerTypeOK,
       Thread, clientVars
  <2> QED BY <1>0, <2>2, <2>3 DEF SegmentInv
<1>7. ASSUME NEW c \in Client, Ping(c) PROVE SegmentInv'
  BY <1>0, <1>7, SegmentFrame DEF Ping, segmentVars, registryVars
<1>8. CASE MonitorScan
  <2>1. cleaner'[Monitor] = IdleCleaner /\ UNCHANGED <<segmentVars, cleaner>>
    BY <1>8 DEF MonitorScan, MonitorIdle
  <2>2. SegmentsConsistent' /\ CapacityExact' /\ MountsPositive' /\ UnmountExclusive'
    BY <2>1 DEF SegmentsConsistent, CapacityExact, MountsPositive, AllocatorOf,
       UnmountExclusive, segmentVars, SegmentInv
  <2> QED BY <1>0, <2>1, <2>2 DEF SegmentInv, MonitorQuiet
<1>9. CASE MonitorExpire
  <2> DEFINE segs == {s \in UNION {GetClientSegments(c) : c \in expired} :
                         CanPrepareUnmount(s)}
  <2>1. segs \in SUBSET Segment
    BY DEF GetClientSegments, SegmentInv, TypeOK, SegmentTypeOK, ClientTypeOK
  <2>2. cleaner[Monitor] = IdleCleaner
    BY <1>9 DEF SegmentInv, MonitorQuiet, MonitorExpire
  <2>3. Monitor \in Thread /\ \A s \in segs : CanPrepareUnmount(s)
    BY DEF Thread
  <2>4. /\ PrepareUnmountSegments(segs)
        /\ cleaner' = [cleaner EXCEPT ![Monitor] = [segs |-> segs, next |-> 0]]
        /\ expired' = {}
    BY <1>9 DEF MonitorExpire
  <2> HIDE DEF segs
  <2>5. SegmentsConsistent' /\ CapacityExact' /\ UnmountExclusive' /\ MountsPositive'
    BY <1>0, <2>1, <2>2, <2>3, <2>4, PrepareInv
  <2> QED BY <1>0, <2>4, <2>5 DEF SegmentInv, MonitorQuiet
<1>10. CASE UNCHANGED vars
  BY <1>0, <1>10, SegmentFrame DEF vars, segmentVars, registryVars, clientVars
<1>11. ASSUME NEW sh \in Shard, HoldNext(sh) PROVE SegmentInv'
  BY <1>0, <1>11, HoldFrame, SegmentFrame
<1> QED BY <1>1, <1>2, <1>3, <1>4, <1>5, <1>6, <1>7, <1>8, <1>9, <1>10, <1>11
      DEF Next, UnmountNext, ClientNext

\* A master without segments satisfies it.
LEMMA SegmentInitially == Init => SegmentInv
<1> SUFFICES ASSUME Init PROVE SegmentInv
  OBVIOUS
<1>1. TypeOK
  BY TypeInit
<1>2. SegmentsConsistent /\ CapacityExact /\ MountsPositive
  BY DEF Init, SegmentInit, SegmentsConsistent, CapacityExact, MountsPositive
<1>3. UnmountExclusive /\ MonitorQuiet
  BY DEF Init, SegmentInit, UnmountExclusive, MonitorQuiet, IdleCleaner, Thread
<1> QED BY <1>1, <1>2, <1>3 DEF SegmentInv

\* The registry of segments, the unmounting threads and the capacity metric agree
\* in every reachable state, for every number of clients, segments, keys and
\* RPC threads.
THEOREM SegmentsCorrect ==
  Spec => [](SegmentsConsistent /\ CapacityExact /\ UnmountExclusive)
<1>1. SegmentInv => SegmentsConsistent /\ CapacityExact /\ UnmountExclusive
  BY DEF SegmentInv
<1> QED BY <1>1, SegmentInitially, SegmentStep, PTL DEF Spec

\* The capacity metric is the sum over the segments that are mounted, whatever
\* UnmountSegment, ReMountSegment and the monitor do between their sections.
THEOREM CapacityCorrect == Spec => []CapacityExact
<1> QED BY SegmentsCorrect, PTL

\* A segment that is being unmounted belongs to one thread: two unmounts of it
\* are never both between PrepareUnmountSegment and CommitUnmountSegment.
THEOREM UnmountCorrect == Spec => []UnmountExclusive
<1> QED BY SegmentsCorrect, PTL

-----------------------------------------------------------------------------
(* Handles in the metadata.                                                 *)

AbsentEmpty == \A k \in Key : k \notin objects => replicas[k] = {}

\* Handles come from allocators that have been created.
GenKnown ==
  \A k \in Key : \A b \in Bufs(replicas[k]) : b.gen > 0 /\ b.gen <= mounts[b.seg]

\* The handle b of object k survived the cleaner of its shard.
Left(k, b) == [shard |-> ShardOf[k], alloc |-> AllocatorFor(b)] \in outlived

HandleInv ==
  /\ SegmentInv
  /\ AbsentEmpty
  /\ GenKnown
  /\ HandlesTracked

\* The replicas new hold no buffer that was not held before.
Narrows(new) ==
  \A k \in Key : /\ Bufs(new[k]) \subseteq Bufs(replicas[k])
                 /\ k \notin objects => new[k] = {}

\* What a step on the metadata does to the handles: it drops some, and the ones
\* it adds come from a live allocator.
HandlesStep ==
  /\ \A k \in Key : \A b \in Bufs(replicas'[k]) :
        b \in Bufs(replicas[k]) \/ (Current(b) /\ b.gen > 0)
  /\ AbsentEmpty'

\* Fewer replicas hold fewer buffers.
LEMMA BufsMonotone ==
  ASSUME NEW R, NEW Q \in SUBSET R
  PROVE  Bufs(Q) \subseteq Bufs(R)
BY DEF Bufs

\* CleanupStaleHandles leaves valid buffers of the object only.
LEMMA CleanBufs ==
  ASSUME NEW k \in Key
  PROVE  /\ CleanReplicas(k) \subseteq replicas[k]
         /\ \A b \in Bufs(CleanReplicas(k)) : Valid(b)
BY DEF CleanReplicas, HasInvalidMemHandle, Bufs

\* mark_complete does not touch the buffers.
LEMMA MarkBufs ==
  ASSUME NEW R \in SUBSET ReplicaSet, NEW ty
  PROVE  Bufs(MarkComplete(R, ty)) = Bufs(R)
<1>1. \A r \in R : [r EXCEPT !.status = "COMPLETE"].bufs = r.bufs
  BY DEF ReplicaSet
<1>2. \A r \in R : BufsOf([r EXCEPT !.status = "COMPLETE"]) = BufsOf(r)
  BY <1>1 DEF BufsOf
<1> DEFINE m(r) == IF r.type = ty THEN [r EXCEPT !.status = "COMPLETE"] ELSE r
<1>3. \A r \in R : BufsOf(m(r)) = BufsOf(r)
  <2> SUFFICES ASSUME NEW r \in R PROVE BufsOf(m(r)) = BufsOf(r)
    OBVIOUS
  <2>1. CASE r.type = ty
    BY <1>2, <2>1
  <2>2. CASE r.type # ty
    BY <2>2
  <2> QED BY <2>1, <2>2
<1>4. MarkComplete(R, ty) = {m(r) : r \in R}
  BY DEF MarkComplete
<1> HIDE DEF m
<1> QED BY <1>3, <1>4 DEF Bufs

\* Replacing the replicas of a key by some with fewer buffers adds no handle.
LEMMA WithNarrows ==
  ASSUME TypeOK, AbsentEmpty, NEW k \in Key, NEW R,
         Bufs(R) \subseteq Bufs(replicas[k]), k \in objects \/ R = {}
  PROVE  Narrows(With(k, R))
BY DEF TypeOK, ObjectTypeOK, AbsentEmpty, Narrows, With

\* Erasing entries adds no handle.
LEMMA EraseHandles ==
  ASSUME NEW new, NEW gone, Narrows(new), EraseObjects(new, gone)
  PROVE  HandlesStep
<1>1. \A k \in Key : replicas'[k] = IF k \in gone THEN {} ELSE new[k]
  BY DEF EraseObjects
<1>2. objects' = objects \ gone
  BY DEF EraseObjects
<1>3. Bufs({}) = {}
  BY DEF Bufs
<1> QED BY <1>1, <1>2, <1>3 DEF HandlesStep, Narrows, AbsentEmpty

\* Nor does keeping them with fewer buffers.
LEMMA KeepHandles ==
  ASSUME NEW new, Narrows(new), KeepObjects(new)
  PROVE  HandlesStep
BY DEF KeepObjects, HandlesStep, Narrows, AbsentEmpty

\* Allocate hands out free buffers of allocators that are in use.
LEMMA AllocateBufs ==
  ASSUME NEW F, NEW n, NEW rn, NEW M \in Allocate(F, n, rn)
  PROVE  Bufs(M) \subseteq F
<1>1. PICK m \in 1 .. rn :
         M \in {{MemoryReplica(A[j]) : j \in 1 .. m} : A \in Placements(F, n, m)}
  BY DEF Allocate
<1>2. PICK A \in [1 .. m -> [1 .. n -> F]] : M = {MemoryReplica(A[j]) : j \in 1 .. m}
  BY <1>1 DEF Placements
<1> SUFFICES ASSUME NEW j \in 1 .. m, NEW b \in BufsOf(MemoryReplica(A[j]))
             PROVE  b \in F
  BY <1>2 DEF Bufs
<1>3. MemoryReplica(A[j]).bufs = A[j]
  BY DEF MemoryReplica
<1>4. PICK i \in DOMAIN A[j] : b = A[j][i]
  BY <1>3 DEF BufsOf
<1>5. A[j] \in [1 .. n -> F]
  BY <1>2
<1> QED BY <1>4, <1>5

\* A free buffer belongs to a live allocator.
LEMMA FreeValid ==
  ASSUME SegmentInv, NEW k \in Key, NEW b \in FreeBuffers(k)
  PROVE  Current(b) /\ b.gen > 0 /\ b.seg \in Segment
<1>1. [seg |-> b.seg, gen |-> b.gen] \in allocators
  BY DEF FreeBuffers
<1>2. PICK s \in Segment : status[s] = "OK" /\ [seg |-> b.seg, gen |-> b.gen] = AllocatorOf(s)
  BY <1>1 DEF SegmentInv, SegmentsConsistent
<1>3. b.seg = s /\ b.gen = bufAllocator[s]
  BY <1>2 DEF AllocatorOf
<1> QED BY <1>2, <1>3 DEF SegmentInv, SegmentsConsistent, MountsPositive, Current

\* An operation on a key adds valid handles at most.
LEMMA KeyHandles ==
  ASSUME SegmentInv, AbsentEmpty, NEW k \in Key, KeyNext(k)
  PROVE  HandlesStep
<1>0. TypeOK /\ replicas[k] \in SUBSET ReplicaSet
  BY DEF SegmentInv, TypeOK, ObjectTypeOK
<1>a. /\ CleanReplicas(k) \in SUBSET ReplicaSet
      /\ Bufs(CleanReplicas(k)) \subseteq Bufs(replicas[k])
      /\ Bufs({}) = {}
  BY <1>0, CleanBufs, BufsMonotone DEF Bufs
<1>b. Found(k) => Narrows(With(k, CleanReplicas(k)))
  BY <1>0, <1>a, WithNarrows DEF Found
<1>c. Narrows(With(k, {}))
  BY <1>0, <1>a, WithNarrows
<1>1. CASE AccessorMiss(k)
  BY <1>1, EraseHandles DEF AccessorMiss, Narrows, AbsentEmpty
<1>2. CASE LeaseOnRead(k)
  BY <1>2, <1>b, KeepHandles DEF LeaseOnRead
<1>3. ASSUME PutStartNoSpace(k)
      PROVE  HandlesStep
  BY <1>3, <1>c, KeepHandles DEF PutStartNoSpace
<1>4. ASSUME NEW n \in SliceNums, NEW rn \in ReplicaNums,
             NEW M \in Allocate(FreeBuffers(k), n, rn), NEW soft \in SoftPins,
             PutStart(k, M, soft)
      PROVE  HandlesStep
  <2>1. CASE k \in objects
    BY <1>4, <2>1, <1>c, KeepHandles DEF PutStart
  <2>2. CASE k \notin objects
    <3> DEFINE new == M \cup (IF UseDisk THEN {DiskReplica} ELSE {})
    <3>1. replicas' = [replicas EXCEPT ![k] = new] /\ objects' = objects \cup {k}
      BY <1>4, <2>2 DEF PutStart, With
    <3>2. Bufs(new) = Bufs(M)
      <4>1. BufsOf(DiskReplica) = {}
        BY DEF BufsOf, DiskReplica
      <4> QED BY <4>1 DEF Bufs
    <3>3. \A b \in Bufs(new) : Current(b) /\ b.gen > 0
      BY <3>2, AllocateBufs, FreeValid
    <3> QED
      BY <1>0, <3>1, <3>3 DEF HandlesStep, AbsentEmpty, TypeOK, ObjectTypeOK
  <2> QED BY <2>1, <2>2
<1>5. CASE PutStartExists(k)
  BY <1>5, <1>b, KeepHandles DEF PutStartExists
<1>6. ASSUME NEW ty \in ReplicaType, PutEnd(k, ty)
      PROVE  HandlesStep
  <2>1. Narrows(With(k, MarkComplete(CleanReplicas(k), ty)))
    BY <1>0, <1>6, <1>a, MarkBufs, WithNarrows DEF PutEnd, Found
  <2> QED BY <1>6, <2>1, KeepHandles DEF PutEnd
<1>7. ASSUME NEW ty \in ReplicaType, PutRevoke(k, ty)
      PROVE  HandlesStep
  <2> DEFINE R    == CleanReplicas(k)
             left == IF HasDiffRepStatus(R, "PROCESSING", ty) THEN R
                                                      ELSE EraseReplica(R, ty)
  <2>1. Bufs(left) \subseteq Bufs(replicas[k])
    BY <1>a, BufsMonotone DEF EraseReplica
  <2>2. Narrows(With(k, left))
    BY <1>0, <1>7, <2>1, WithNarrows DEF PutRevoke, Found
  <2> QED BY <1>7, <2>2, EraseHandles DEF PutRevoke
<1>8. CASE Remove(k)
  BY <1>8, <1>b, EraseHandles DEF Remove
<1> QED
  BY <1>1, <1>2, <1>3, <1>4, <1>5, <1>6, <1>7, <1>8
     DEF KeyNext, ExistKey, GetReplicaList

\* An operation on a shard adds no handle.
LEMMA ShardHandles ==
  ASSUME SegmentInv, AbsentEmpty, NEW sh \in Shard, ShardNext(sh)
  PROVE  HandlesStep
<1>1. Narrows(replicas)
  BY DEF Narrows, AbsentEmpty
<1>2. ASSUME NEW pattern, GetReplicaListByRegex(sh, pattern) PROVE HandlesStep
  BY <1>2 DEF GetReplicaListByRegex, HandlesStep, AbsentEmpty
<1>3. ASSUME NEW pattern, RemoveByRegex(sh, pattern) PROVE HandlesStep
  BY <1>1, <1>3, EraseHandles DEF RemoveByRegex
<1>4. ASSUME NEW gone, RemoveAll(sh, gone) PROVE HandlesStep
  BY <1>1, <1>4, EraseHandles DEF RemoveAll
<1>5. ASSUME NEW gone, EvictShard(sh, gone) PROVE HandlesStep
  <2> DEFINE left == [k \in Key |-> IF k \in gone THEN EraseReplica(replicas[k], "MEMORY")
                                                  ELSE replicas[k]]
  <2>1. \A k \in Key : Bufs(EraseReplica(replicas[k], "MEMORY")) \subseteq Bufs(replicas[k])
    BY BufsMonotone DEF EraseReplica
  <2>2. \A k \in Key : k \notin objects => EraseReplica(replicas[k], "MEMORY") = {}
    BY DEF EraseReplica, AbsentEmpty
  <2>3. Narrows(left)
    BY <2>1, <2>2 DEF Narrows, AbsentEmpty
  <2> QED BY <1>5, <2>3, EraseHandles DEF EvictShard
<1> QED BY <1>2, <1>3, <1>4, <1>5 DEF ShardNext

\* A handle of an allocator in use has its number.
LEMMA CurrentGen ==
  ASSUME SegmentInv, NEW b, b.seg \in Segment, b.gen > 0, Current(b)
  PROVE  status[b.seg] = "OK" /\ b.gen = mounts[b.seg] /\ b.gen \in Nat
BY DEF SegmentInv, SegmentsConsistent, Current, TypeOK, SegmentTypeOK

\* A step on the metadata adds no handle of an allocator yet to come.
LEMMA GenStep ==
  ASSUME HandleInv, SegmentInv', HandlesStep, UNCHANGED mounts
  PROVE  GenKnown'
<1> SUFFICES ASSUME NEW k \in Key, NEW b \in Bufs(replicas'[k])
             PROVE  b.gen > 0 /\ b.gen <= mounts[b.seg]
  BY DEF GenKnown
<1>1. CASE b \in Bufs(replicas[k])
  BY <1>1 DEF HandleInv, GenKnown
<1>2. CASE Current(b) /\ b.gen > 0
  <2>1. b \in Buffer
    BY BufsType DEF SegmentInv, TypeOK, ObjectTypeOK
  <2>2. b.gen = mounts[b.seg] /\ b.gen \in Nat
    BY <1>2, <2>1, CurrentGen DEF HandleInv, Buffer
  <2> QED BY <1>2, <2>2
<1> QED BY <1>1, <1>2 DEF HandlesStep

\* Handles stay tracked when only the metadata changes.
LEMMA HandlesKept ==
  ASSUME HandleInv, SegmentInv', HandlesStep, UNCHANGED <<registryVars, outlived, cleaner>>
  PROVE  HandleInv'
<1>1. GenKnown'
  BY GenStep DEF registryVars
<1>2. HandlesTracked'
  BY DEF HandleInv, HandlesTracked, HandlesStep, Current, registryVars
<1> QED BY <1>1, <1>2 DEF HandleInv, HandlesStep

\* A valid handle is one of the current allocator of a segment that is OK.
LEMMA ValidOK ==
  ASSUME HandleInv, NEW k \in Key, NEW b \in Bufs(replicas[k])
  PROVE  /\ b.seg \in Segment /\ b.gen \in Nat \ {0}
         /\ Current(b) => status[b.seg] = "OK" /\ b.gen = mounts[b.seg]
<1>1. b \in Buffer /\ b.gen > 0
  BY BufsType DEF HandleInv, GenKnown, SegmentInv, TypeOK, ObjectTypeOK
<1> QED BY <1>1 DEF Buffer, Current, HandleInv, SegmentInv, SegmentsConsistent

\* Mounting does not touch the segments that handles refer to.
LEMMA MountHandles ==
  ASSUME HandleInv, SegmentInv', NEW c \in Client, NEW S \in SUBSET Segment,
         MountSegments(S, c), UNCHANGED <<objects, replicas, cleaner>>
  PROVE  HandleInv'
<1>1. \A s \in Segment : status[s] # "NONE" =>
        status'[s] = status[s] /\ bufAllocator'[s] = bufAllocator[s] /\ mounts'[s] = mounts[s]
  BY DEF MountSegments, MountSucceeds
<1>2. AbsentEmpty'
  BY DEF HandleInv, AbsentEmpty
<1>4. GenKnown'
  <2> SUFFICES ASSUME NEW k \in Key, NEW b \in Bufs(replicas[k])
               PROVE  b.gen > 0 /\ b.gen <= mounts'[b.seg]
    BY DEF GenKnown
  <2>1. /\ b.seg \in Segment /\ b.gen \in Nat
        /\ b.gen > 0 /\ b.gen <= mounts[b.seg]
    BY ValidOK DEF HandleInv, GenKnown
  <2>2. mounts[b.seg] \in Nat /\ (mounts'[b.seg] = mounts[b.seg] \/ mounts'[b.seg] = mounts[b.seg] + 1)
    BY <2>1 DEF MountSegments, HandleInv, SegmentInv, TypeOK, SegmentTypeOK
  <2> QED BY <2>1, <2>2
<1>3. HandlesTracked'
  <2>0. outlived' = outlived
    BY DEF MountSegments
  <2> SUFFICES ASSUME NEW k \in Key, NEW b \in Bufs(replicas[k]), ~Left(k, b)
               PROVE  \/ Current(b)'
                      \/ /\ status'[b.seg] = "UNMOUNTING"
                         /\ b.gen = mounts'[b.seg]
                         /\ \E t \in Thread :
                               b.seg \in cleaner[t].segs /\ cleaner[t].next <= ShardOf[k]
    BY <2>0 DEF HandlesTracked, Left
  <2>1. b.seg \in Segment /\ status[b.seg] # "NONE"
    BY ValidOK DEF HandleInv, HandlesTracked, Left
  <2> QED BY <1>1, <2>1 DEF HandleInv, HandlesTracked, Current, Left
<1> QED BY <1>2, <1>3, <1>4 DEF HandleInv

\* The handles of a segment that thread t starts to unmount are all ahead of it.
LEMMA PrepareHandles ==
  ASSUME HandleInv, SegmentInv', NEW t \in Thread, NEW S \in SUBSET Segment,
         PrepareUnmountSegments(S), cleaner[t] = IdleCleaner,
         cleaner' = [cleaner EXCEPT ![t] = [segs |-> S, next |-> 0]],
         UNCHANGED <<objects, replicas>>
  PROVE  HandleInv'
<1>1. AbsentEmpty' /\ GenKnown'
  BY DEF HandleInv, AbsentEmpty, GenKnown, PrepareUnmountSegments
<1>2. /\ cleaner'[t].segs = S /\ cleaner'[t].next = 0 /\ cleaner[t].segs = {}
      /\ \A u \in Thread \ {t} : cleaner'[u] = cleaner[u]
  BY DEF HandleInv, SegmentInv, TypeOK, CleanerTypeOK, IdleCleaner
<1>3. HandlesTracked'
  <2>a. outlived' = outlived
    BY DEF PrepareUnmountSegments
  <2> SUFFICES ASSUME NEW k \in Key, NEW b \in Bufs(replicas[k]), ~Left(k, b)
               PROVE  \/ Current(b)'
                      \/ /\ status'[b.seg] = "UNMOUNTING"
                         /\ b.gen = mounts'[b.seg]
                         /\ \E u \in Thread :
                               b.seg \in cleaner'[u].segs /\ cleaner'[u].next <= ShardOf[k]
    BY <2>a DEF HandlesTracked, Left
  <2>0. ShardOf[k] \in Nat
    BY ShardAssumption
  <2>1. CASE b.seg \in S /\ Current(b)
    BY <1>2, <2>0, <2>1, ValidOK DEF PrepareUnmountSegments
  <2>2. CASE b.seg \notin S /\ Current(b)
    BY <2>2, ValidOK DEF PrepareUnmountSegments, Current
  <2>3. CASE ~Current(b)
    <3>1. /\ status[b.seg] = "UNMOUNTING" /\ b.gen = mounts[b.seg] /\ b.seg \in Segment
          /\ \E u \in Thread : b.seg \in cleaner[u].segs /\ cleaner[u].next <= ShardOf[k]
      BY <2>3, ValidOK DEF HandleInv, HandlesTracked, Left
    <3>2. status'[b.seg] = "UNMOUNTING" /\ mounts'[b.seg] = mounts[b.seg]
      BY <3>1 DEF PrepareUnmountSegments
    <3>3. PICK u \in Thread : b.seg \in cleaner[u].segs /\ cleaner[u].next <= ShardOf[k]
      BY <3>1
    <3>4. u # t
      BY <1>2, <3>3
    <3> QED BY <1>2, <3>1, <3>2, <3>3, <3>4
  <2> QED BY <2>1, <2>2, <2>3
<1> QED BY <1>1, <1>3 DEF HandleInv

\* One shard of ClearInvalidHandles drops or notes every stale handle of that shard.
LEMMA ClearHandles ==
  ASSUME HandleInv, SegmentInv', NEW t \in Thread, ClearInvalidHandles(t)
  PROVE  HandleInv'
<1> DEFINE sh    == cleaner[t].next
           keys  == objects \cap KeysOf(sh)
           clean == [k \in Key |-> IF k \in keys THEN CleanReplicas(k) ELSE replicas[k]]
           gone  == {k \in keys : clean[k] = {}}
<1>1. EraseObjects(clean, gone)
  BY DEF ClearInvalidHandles
<1>2. Narrows(clean)
  <2>1. \A k \in Key : Bufs(CleanReplicas(k)) \subseteq Bufs(replicas[k])
    BY CleanBufs, BufsMonotone
  <2> QED BY <2>1 DEF Narrows, HandleInv, AbsentEmpty
<1>3. HandlesStep
  BY <1>1, <1>2, EraseHandles
<1>5. UNCHANGED registryVars /\ outlived' = outlived \cup LeftIn(sh, keys)
  BY DEF ClearInvalidHandles
<1>4. GenKnown' /\ AbsentEmpty'
  BY <1>3, <1>5, GenStep DEF HandlesStep, registryVars
<1>6. /\ sh \in Nat
      /\ \A u \in Thread : cleaner'[u].segs = cleaner[u].segs
      /\ \A u \in Thread \ {t} : cleaner'[u].next = cleaner[u].next
      /\ cleaner'[t].next = sh + 1
  <2>1. cleaner' = [cleaner EXCEPT ![t].next = sh + 1]
    BY DEF ClearInvalidHandles
  <2> QED BY <2>1, ShardAssumption DEF HandleInv, SegmentInv, TypeOK, CleanerTypeOK
<1>7. \A k \in Key : ShardOf[k] = sh =>
         \A b \in Bufs(replicas'[k]) : Current(b) \/ Left(k, b)'
  <2> SUFFICES ASSUME NEW k \in Key, ShardOf[k] = sh, NEW b \in Bufs(replicas'[k]),
                      ~Current(b)
               PROVE  Left(k, b)'
    OBVIOUS
  <2>1. replicas'[k] = IF k \in gone THEN {} ELSE clean[k]
    BY <1>1 DEF EraseObjects
  <2>2. Bufs({}) = {}
    BY DEF Bufs
  <2>3. CASE k \in objects
    <3>1. k \in keys /\ b \in Bufs(CleanReplicas(k))
      BY <2>1, <2>2, <2>3 DEF KeysOf
    <3>2. [shard |-> sh, alloc |-> AllocatorFor(b)] \in LeftIn(sh, keys)
      BY <3>1 DEF LeftIn
    <3> QED BY <1>5, <3>2 DEF Left, AllocatorFor
  <2>4. CASE k \notin objects
    BY <2>1, <2>2, <2>4 DEF HandleInv, AbsentEmpty
  <2> QED BY <2>3, <2>4
<1> HIDE DEF sh, keys, clean, gone
<1>8. HandlesTracked'
  <2> SUFFICES ASSUME NEW k \in Key, NEW b \in Bufs(replicas'[k]), ~Current(b),
                      ~Left(k, b)'
               PROVE  /\ status[b.seg] = "UNMOUNTING"
                      /\ b.gen = mounts[b.seg]
                      /\ \E u \in Thread :
                            b.seg \in cleaner'[u].segs /\ cleaner'[u].next <= ShardOf[k]
    BY <1>5 DEF HandlesTracked, Current, registryVars, Left
  <2>0. ~Left(k, b)
    BY <1>5 DEF Left, AllocatorFor
  <2>1. b \in Bufs(replicas[k]) /\ ShardOf[k] # sh /\ ShardOf[k] \in Nat
    BY <1>3, <1>7, ShardAssumption DEF HandlesStep
  <2>2. status[b.seg] = "UNMOUNTING" /\ b.gen = mounts[b.seg]
    BY <2>0, <2>1 DEF HandleInv, HandlesTracked, Left
  <2>3. PICK u \in Thread : b.seg \in cleaner[u].segs /\ cleaner[u].next <= ShardOf[k]
    BY <2>0, <2>1 DEF HandleInv, HandlesTracked, Left
  <2>4. cleaner'[u].next <= ShardOf[k]
    <3>1. CASE u = t
      BY <3>1, <1>6, <2>1, <2>3 DEF sh
    <3>2. CASE u # t
      BY <3>2, <1>6, <2>3
    <3> QED BY <3>1, <3>2
  <2> QED BY <1>6, <2>2, <2>3, <2>4
<1> QED BY <1>4, <1>8 DEF HandleInv

\* When an unmount is committed only what outlived the cleaner refers to its segments.
LEMMA CommitHandles ==
  ASSUME HandleInv, SegmentInv', NEW t \in Thread, CommitUnmount(t)
  PROVE  HandleInv'
<1>1. UNCHANGED <<objects, replicas, mounts, outlived>>
  BY DEF CommitUnmount, CommitUnmountSegments, objectVars
<1>2. AbsentEmpty' /\ GenKnown'
  BY <1>1 DEF HandleInv, AbsentEmpty, GenKnown
<1>3. HandlesTracked'
  <2> SUFFICES ASSUME NEW k \in Key, NEW b \in Bufs(replicas[k]), ~Left(k, b)
               PROVE  \/ Current(b)'
                      \/ /\ status'[b.seg] = "UNMOUNTING"
                         /\ b.gen = mounts[b.seg]
                         /\ \E u \in Thread :
                               b.seg \in cleaner'[u].segs /\ cleaner'[u].next <= ShardOf[k]
    BY <1>1 DEF HandlesTracked, Left
  <2>1. CASE Current(b)
    <3>1. b.seg \in Segment /\ status[b.seg] = "OK"
      BY <2>1, ValidOK
    <3>2. b.seg \notin cleaner[t].segs
      BY <3>1 DEF HandleInv, SegmentInv, UnmountExclusive
    <3> QED BY <2>1, <3>1, <3>2 DEF CommitUnmount, CommitUnmountSegments, Current
  <2>2. CASE ~Current(b)
    <3>1. status[b.seg] = "UNMOUNTING" /\ b.gen = mounts[b.seg] /\ b.seg \in Segment
      BY <2>2, ValidOK DEF HandleInv, HandlesTracked, Left
    <3>2. PICK u \in Thread : b.seg \in cleaner[u].segs /\ cleaner[u].next <= ShardOf[k]
      BY <2>2 DEF HandleInv, HandlesTracked, Left
    <3>3. u # t
      BY <3>2, ShardAssumption DEF CommitUnmount
    <3>4. b.seg \notin cleaner[t].segs
      BY <3>2, <3>3 DEF HandleInv, SegmentInv, UnmountExclusive
    <3>5. cleaner'[u] = cleaner[u]
      BY <3>3 DEF CommitUnmount, HandleInv, SegmentInv, TypeOK, CleanerTypeOK
    <3>6. status'[b.seg] = "UNMOUNTING"
      BY <3>1, <3>4 DEF CommitUnmount, CommitUnmountSegments
    <3> QED BY <3>1, <3>2, <3>5, <3>6
  <2> QED BY <2>1, <2>2
<1> QED BY <1>2, <1>3 DEF HandleInv

\* Every step of the master keeps the invariant of the handles.
LEMMA HandleStep == HandleInv /\ [Next]_vars => HandleInv'
<1> SUFFICES ASSUME HandleInv, [Next]_vars PROVE HandleInv'
  OBVIOUS
<1>0. SegmentInv' /\ SegmentInv /\ AbsentEmpty
  BY SegmentStep DEF HandleInv
<1>1. ASSUME NEW k \in Key, KeyNext(k) PROVE HandleInv'
  BY <1>0, <1>1, KeyHandles, HandlesKept, ObjectFrame DEF segmentVars, registryVars
<1>2. ASSUME NEW sh \in Shard, ShardNext(sh) PROVE HandleInv'
  BY <1>0, <1>2, ShardHandles, HandlesKept, ObjectFrame DEF segmentVars, registryVars
<1>3. CASE \/ EvictStart \/ EvictSecondPass \/ EvictEnd \/ Tick
           \/ (\E c \in Client : Ping(c)) \/ MonitorScan \/ UNCHANGED vars
           \/ (\E sh \in Shard : HoldNext(sh))
  <2>1. UNCHANGED <<registryVars, outlived, objects, replicas, cleaner>>
    BY <1>3, HoldFrame DEF EvictStart, EvictSecondPass, EvictEnd, Tick, Ping, MonitorScan,
       vars, objectVars, segmentVars, registryVars
  <2>2. HandlesStep
    BY <1>0, <2>1 DEF HandlesStep, AbsentEmpty
  <2> QED BY <1>0, <2>1, <2>2, HandlesKept
<1>4. ASSUME NEW t \in Thread, ClearInvalidHandles(t) PROVE HandleInv'
  BY <1>0, <1>4, ClearHandles
<1>5. ASSUME NEW t \in Thread, CommitUnmount(t) PROVE HandleInv'
  BY <1>0, <1>5, CommitHandles
<1>6. ASSUME NEW s \in Segment, MountSegment(s) PROVE HandleInv'
  BY <1>0, <1>6, OwnerAssumption, MountHandles DEF MountSegment
<1>7. ASSUME NEW c \in Client, NEW segs \in SUBSET {s \in Segment : Owner[s] = c},
             ReMountSegment(c, segs)
      PROVE  HandleInv'
  <2>1. PICK reached \in ReMountReaches(segs) : MountSegments(reached, c)
    BY <1>7 DEF ReMountSegment
  <2>2. reached \in SUBSET Segment
    BY <2>1 DEF ReMountReaches
  <2> QED BY <1>0, <1>7, <2>1, <2>2, MountHandles DEF ReMountSegment
<1>8. ASSUME NEW s \in Segment, NEW t \in Worker, PrepareUnmount(t, s) PROVE HandleInv'
  BY <1>0, <1>8, PrepareHandles DEF PrepareUnmount, Thread
<1>9. CASE MonitorExpire
  <2> DEFINE segs == {s \in UNION {GetClientSegments(c) : c \in expired} :
                         CanPrepareUnmount(s)}
  <2>1. segs \in SUBSET Segment
    BY <1>0 DEF GetClientSegments, SegmentInv, TypeOK, SegmentTypeOK, ClientTypeOK
  <2>2. cleaner[Monitor] = IdleCleaner /\ Monitor \in Thread
    BY <1>0, <1>9 DEF SegmentInv, MonitorQuiet, MonitorExpire, Thread
  <2>3. /\ PrepareUnmountSegments(segs)
        /\ cleaner' = [cleaner EXCEPT ![Monitor] = [segs |-> segs, next |-> 0]]
        /\ UNCHANGED <<objects, replicas>>
    BY <1>9 DEF MonitorExpire
  <2> HIDE DEF segs
  <2> QED BY <1>0, <2>1, <2>2, <2>3, PrepareHandles
<1> QED BY <1>1, <1>2, <1>3, <1>4, <1>5, <1>6, <1>7, <1>8, <1>9
      DEF Next, UnmountNext, ClientNext

\* A master without objects satisfies it.
LEMMA HandleInitially == Init => HandleInv
<1> SUFFICES ASSUME Init PROVE HandleInv
  OBVIOUS
<1>1. \A k \in Key : replicas[k] = {}
  BY DEF Init
<1>2. Bufs({}) = {}
  BY DEF Bufs
<1> QED
  BY <1>1, <1>2, SegmentInitially DEF HandleInv, AbsentEmpty, GenKnown, HandlesTracked

\* A committed unmount leaves no handle behind but those of an allocator that a
\* call in another shard held when the cleaner came by, whichever operations, holds,
\* mounts and other unmounts ran between its three steps.
THEOREM HandlesCorrect == Spec => []HandlesTracked
<1>1. HandleInv => HandlesTracked
  BY DEF HandleInv
<1> QED BY <1>1, HandleInitially, HandleStep, PTL DEF Spec

-----------------------------------------------------------------------------
(* The units of the allocators and the handles that hold them.              *)

UnitInv == HandleInv /\ AllocatedExact /\ BufferExclusive

\* Key k holds unit u of the live allocator of segment s.
Holds(k, s, u) == \E b \in Bufs(replicas[k]) : b.seg = s /\ b.slot = u /\ Current(b)

ByUnit ==
  \A s \in Segment : \A u : u \in allocated[s] <=> \E k \in Key : Holds(k, s, u)

\* AllocatedExact, unit by unit.
LEMMA AllocatedByUnit == AllocatedExact <=> ByUnit
<1>1. \A s \in Segment : \A u :
        u \in {b.slot : b \in {x \in UNION {Bufs(replicas[k]) : k \in Key} :
                                   x.seg = s /\ Current(x)}}
          <=> \E k \in Key : Holds(k, s, u)
  BY DEF Holds
<1>2. AllocatedExact => ByUnit
  BY <1>1 DEF AllocatedExact, ByUnit
<1>3. ASSUME ByUnit
      PROVE  AllocatedExact
  <2> SUFFICES ASSUME NEW s \in Segment
               PROVE  allocated[s] =
                        {b.slot : b \in {x \in UNION {Bufs(replicas[k]) : k \in Key} :
                                            x.seg = s /\ Current(x)}}
    BY DEF AllocatedExact
  <2> DEFINE U == {b.slot : b \in {x \in UNION {Bufs(replicas[k]) : k \in Key} :
                                            x.seg = s /\ Current(x)}}
  <2>1. \A u : u \in allocated[s] <=> u \in U
    BY <1>1, <1>3 DEF ByUnit
  <2> HIDE DEF U
  <2>2. allocated[s] = U
    BY <2>1
  <2> QED BY <2>2 DEF U
<1> QED BY <1>2, <1>3

\* Two valid handles of one unit are the same handle.
LEMMA SameHandle ==
  ASSUME HandleInv, NEW k1 \in Key, NEW k2 \in Key,
         NEW b1 \in Bufs(replicas[k1]), NEW b2 \in Bufs(replicas[k2]),
         Current(b1), Current(b2), b1.seg = b2.seg, b1.slot = b2.slot
  PROVE  b1 = b2
<1>1. b1 \in Buffer /\ b2 \in Buffer
  BY BufsType DEF HandleInv, SegmentInv, TypeOK, ObjectTypeOK
<1>2. b1.gen = b2.gen
  BY DEF Current
<1> QED BY <1>1, <1>2 DEF Buffer

\* A handle is held by one object.
LEMMA OneHolder ==
  ASSUME BufferExclusive, NEW k1 \in Key, NEW k2 \in Key,
         NEW b, b \in Bufs(replicas[k1]), b \in Bufs(replicas[k2])
  PROVE  k1 = k2
<1>1. PICK r1 \in replicas[k1] : b \in BufsOf(r1)
  BY DEF Bufs
<1>2. PICK r2 \in replicas[k2] : b \in BufsOf(r2)
  BY DEF Bufs
<1>3. PICK i1 \in DOMAIN r1.bufs : b = r1.bufs[i1]
  BY <1>1 DEF BufsOf
<1>4. PICK i2 \in DOMAIN r2.bufs : b = r2.bufs[i2]
  BY <1>2 DEF BufsOf
<1>5. r1.bufs[i1] = r2.bufs[i2]
  BY <1>3, <1>4
<1> QED BY <1>5 DEF BufferExclusive

\* Fewer replicas stay exclusive.
LEMMA SubsetExclusive ==
  ASSUME BufferExclusive, \A k \in Key : replicas'[k] \subseteq replicas[k]
  PROVE  BufferExclusive'
<1> SUFFICES ASSUME NEW k1 \in Key, NEW k2 \in Key,
                    NEW r1 \in replicas'[k1], NEW r2 \in replicas'[k2],
                    NEW i1 \in DOMAIN r1.bufs, NEW i2 \in DOMAIN r2.bufs,
                    r1.bufs[i1] = r2.bufs[i2]
             PROVE  k1 = k2 /\ r1 = r2 /\ i1 = i2
  BY DEF BufferExclusive
<1>1. r1 \in replicas[k1] /\ r2 \in replicas[k2]
  OBVIOUS
<1> QED BY <1>1 DEF BufferExclusive

\* Giving back the dropped handles leaves in use what the others hold.
LEMMA ReleaseExact ==
  ASSUME UnitInv, NEW new, \A k \in Key : replicas'[k] = new[k],
         \A k \in Key : Bufs(new[k]) \subseteq Bufs(replicas[k]),
         Release(Dropped(new)), UNCHANGED registryVars
  PROVE  AllocatedExact'
<1>1. ByUnit
  BY AllocatedByUnit DEF UnitInv
<1>2. \A b : Current(b)' = Current(b)
  BY DEF Current, registryVars
<1>3. ASSUME NEW s \in Segment, NEW u
      PROVE  u \in allocated'[s] <=> \E k \in Key : Holds(k, s, u)'
  <2>1. allocated'[s] = allocated[s] \ {b.slot : b \in {x \in Dropped(new) : x.seg = s /\ Current(x)}}
    BY DEF Release
  <2>2. ASSUME u \in allocated'[s]
        PROVE  \E k \in Key : Holds(k, s, u)'
    <3>1. PICK k \in Key : Holds(k, s, u)
      BY <1>1, <2>1, <2>2 DEF ByUnit
    <3>2. PICK b \in Bufs(replicas[k]) : b.seg = s /\ b.slot = u /\ Current(b)
      BY <3>1 DEF Holds
    <3>3. b \in Bufs(new[k])
      BY <2>1, <2>2, <3>2 DEF Dropped
    <3> QED BY <1>2, <3>2, <3>3 DEF Holds
  <2>3. ASSUME NEW k \in Key, Holds(k, s, u)'
        PROVE  u \in allocated'[s]
    <3>1. PICK b \in Bufs(new[k]) : b.seg = s /\ b.slot = u /\ Current(b)
      BY <1>2, <2>3 DEF Holds
    <3>2. b \in Bufs(replicas[k]) /\ u \in allocated[s]
      BY <1>1, <3>1 DEF Holds, ByUnit
    <3>3. ASSUME NEW x \in Dropped(new), x.seg = s, Current(x), x.slot = u
          PROVE  FALSE
      <4>1. PICK h \in Key : x \in Bufs(replicas[h]) \ Bufs(new[h])
        BY <3>3 DEF Dropped
      <4>2. x = b
        BY <3>1, <3>2, <3>3, <4>1, SameHandle DEF UnitInv
      <4>3. h = k
        BY <3>2, <3>3, <4>1, <4>2, OneHolder DEF UnitInv
      <4> QED BY <3>1, <4>1, <4>2, <4>3
    <3> QED BY <2>1, <3>2, <3>3
  <2> QED BY <2>2, <2>3
<1>4. ByUnit'
  BY <1>3 DEF ByUnit
<1> QED BY <1>4, AllocatedByUnit, PTL

\* Erasing entries keeps the units exact.
LEMMA EraseExact ==
  ASSUME UnitInv, NEW new, NEW gone, EraseObjects(new, gone), Narrows(new),
         UNCHANGED registryVars
  PROVE  AllocatedExact'
<1> DEFINE left == [k \in Key |-> IF k \in gone THEN {} ELSE new[k]]
<1>1. replicas' = left /\ Release(Dropped(left))
  BY DEF EraseObjects
<1>2. Bufs({}) = {}
  BY DEF Bufs
<1>3. \A k \in Key : Bufs(left[k]) \subseteq Bufs(replicas[k])
  BY <1>2 DEF Narrows
<1> HIDE DEF left
<1> QED BY <1>1, <1>3, ReleaseExact

\* Keeping entries with fewer handles does as well.
LEMMA KeepExact ==
  ASSUME UnitInv, NEW new, KeepObjects(new), Narrows(new), UNCHANGED registryVars
  PROVE  AllocatedExact'
<1>1. replicas' = new /\ Release(Dropped(new))
  BY DEF KeepObjects
<1> QED BY <1>1, ReleaseExact DEF Narrows

\* What erasing and keeping do to the replicas, when those kept are old ones.
LEMMA EraseExclusive ==
  ASSUME BufferExclusive, NEW new, NEW gone, EraseObjects(new, gone),
         \A k \in Key : new[k] \subseteq replicas[k]
  PROVE  BufferExclusive'
<1>1. \A k \in Key : replicas'[k] \subseteq replicas[k]
  BY DEF EraseObjects
<1> QED BY <1>1, SubsetExclusive

\* The same for keeping.
LEMMA KeepExclusive ==
  ASSUME BufferExclusive, NEW new, KeepObjects(new),
         \A k \in Key : new[k] \subseteq replicas[k]
  PROVE  BufferExclusive'
<1>1. \A k \in Key : replicas'[k] \subseteq replicas[k]
  BY DEF KeepObjects
<1> QED BY <1>1, SubsetExclusive

\* Steps that leave the metadata, the units and the allocators alone.
LEMMA UnitsFrame ==
  ASSUME UnitInv, UNCHANGED <<replicas, allocated, bufAllocator>>
  PROVE  AllocatedExact' /\ BufferExclusive'
BY DEF UnitInv, AllocatedExact, BufferExclusive, Current

\* Replacing the replicas of a key by some of them.
LEMMA WithSubset ==
  ASSUME TypeOK, NEW k \in Key, NEW R \in SUBSET replicas[k]
  PROVE  \A h \in Key : With(k, R)[h] \subseteq replicas[h]
BY DEF TypeOK, ObjectTypeOK, With

\* Allocate places no two slices in one buffer.
LEMMA AllocateExclusive ==
  ASSUME NEW F, NEW n, NEW rn, NEW M \in Allocate(F, n, rn),
         NEW r1 \in M, NEW r2 \in M, NEW i1 \in DOMAIN r1.bufs, NEW i2 \in DOMAIN r2.bufs,
         r1.bufs[i1] = r2.bufs[i2]
  PROVE  r1 = r2 /\ i1 = i2
<1>1. PICK m \in 1 .. rn :
         M \in {{MemoryReplica(A[j]) : j \in 1 .. m} : A \in Placements(F, n, m)}
  BY DEF Allocate
<1>2. PICK A \in Placements(F, n, m) : M = {MemoryReplica(A[j]) : j \in 1 .. m}
  BY <1>1
<1>3. PICK j1 \in 1 .. m : r1 = MemoryReplica(A[j1])
  BY <1>2
<1>4. PICK j2 \in 1 .. m : r2 = MemoryReplica(A[j2])
  BY <1>2
<1>5. r1.bufs = A[j1] /\ r2.bufs = A[j2]
  BY <1>3, <1>4 DEF MemoryReplica
<1>6. A \in [1 .. m -> [1 .. n -> F]] /\ IsPlacement(A, m, n)
  BY <1>2 DEF Placements
<1>7. i1 \in 1 .. n /\ i2 \in 1 .. n
  BY <1>5, <1>6
<1>8. j1 = j2 /\ i1 = i2
  BY <1>5, <1>6, <1>7 DEF IsPlacement
<1> QED BY <1>3, <1>4, <1>8

\* PutStart of a new entry takes units that no handle holds.
LEMMA PutUnits ==
  ASSUME UnitInv, NEW k \in Key, k \notin objects, NEW n \in SliceNums, NEW rn \in ReplicaNums,
         NEW M \in Allocate(FreeBuffers(k), n, rn), NEW soft, PutStart(k, M, soft)
  PROVE  AllocatedExact' /\ BufferExclusive'
<1> DEFINE new == M \cup (IF UseDisk THEN {DiskReplica} ELSE {})
<1>0. HandleInv /\ BufferExclusive /\ ByUnit /\ replicas[k] = {}
  BY AllocatedByUnit DEF UnitInv, HandleInv, AbsentEmpty
<1>1. /\ replicas' = [replicas EXCEPT ![k] = new]
      /\ allocated' = [s \in Segment |->
            allocated[s] \cup {b.slot : b \in {x \in Bufs(M) : x.seg = s}}]
      /\ UNCHANGED segmentVars
  BY DEF PutStart, With
<1>2. \A b : Current(b)' = Current(b)
  BY <1>1 DEF Current, segmentVars
<1>3. /\ \A h \in Key : replicas'[h] = IF h = k THEN new ELSE replicas[h]
      /\ \A h \in Key \ {k} : Bufs(replicas'[h]) = Bufs(replicas[h])
  BY <1>1 DEF UnitInv, HandleInv, SegmentInv, TypeOK, ObjectTypeOK
<1>4. BufsOf(DiskReplica) = {} /\ DOMAIN DiskReplica.bufs = {}
  BY DEF BufsOf, DiskReplica
<1>5. Bufs(new) = Bufs(M)
  BY <1>4 DEF Bufs
<1>6. \A b \in Bufs(M) : Current(b) /\ b.seg \in Segment /\ b.slot \notin allocated[b.seg]
  <2> SUFFICES ASSUME NEW b \in Bufs(M)
               PROVE  Current(b) /\ b.seg \in Segment /\ b.slot \notin allocated[b.seg]
    OBVIOUS
  <2>1. b \in FreeBuffers(k)
    BY AllocateBufs
  <2>2. Current(b) /\ b.seg \in Segment
    BY <1>0, <2>1, FreeValid DEF HandleInv
  <2>3. Bufs(replicas[k] \ CleanReplicas(k)) = {}
    BY <1>0 DEF Bufs
  <2> QED BY <2>1, <2>2, <2>3 DEF FreeBuffers
<1>7. AllocatedExact'
  <2>1. ASSUME NEW s \in Segment, NEW u
        PROVE  u \in allocated'[s] <=> \E h \in Key : Holds(h, s, u)'
    <3>1. Holds(k, s, u)' <=> \E b \in Bufs(M) : b.seg = s /\ b.slot = u
      BY <1>2, <1>3, <1>5, <1>6 DEF Holds
    <3>2. \A h \in Key \ {k} : Holds(h, s, u)' <=> Holds(h, s, u)
      BY <1>2, <1>3 DEF Holds
    <3>3. ~Holds(k, s, u)
      BY <1>0 DEF Holds, Bufs
    <3>4. u \in allocated'[s] <=> u \in allocated[s] \/ \E b \in Bufs(M) : b.seg = s /\ b.slot = u
      BY <1>1
    <3> QED BY <1>0, <3>1, <3>2, <3>3, <3>4 DEF ByUnit
  <2>2. ByUnit'
    BY <2>1 DEF ByUnit
  <2> QED BY <2>2, AllocatedByUnit, PTL
<1> HIDE DEF new
<1>8. BufferExclusive'
  <2> SUFFICES ASSUME NEW k1 \in Key, NEW k2 \in Key,
                      NEW r1 \in replicas'[k1], NEW r2 \in replicas'[k2],
                      NEW i1 \in DOMAIN r1.bufs, NEW i2 \in DOMAIN r2.bufs,
                      r1.bufs[i1] = r2.bufs[i2]
               PROVE  k1 = k2 /\ r1 = r2 /\ i1 = i2
    BY DEF BufferExclusive
  <2>0. \A r \in new : DOMAIN r.bufs # {} => r \in M
    BY <1>4 DEF new
  <2>1. CASE k1 = k /\ k2 = k
    <3>1. r1 \in M /\ r2 \in M
      BY <1>3, <2>0, <2>1
    <3> QED BY <2>1, <3>1, AllocateExclusive
  <2>2. CASE k1 # k /\ k2 # k
    BY <1>0, <1>3, <2>2 DEF BufferExclusive
  <2>3. ASSUME NEW h \in Key \ {k}, NEW r \in replicas[h], NEW i \in DOMAIN r.bufs,
               NEW q \in new, NEW j \in DOMAIN q.bufs, q.bufs[j] = r.bufs[i]
        PROVE  FALSE
    <3>1. r.bufs[i] \in Bufs(replicas[h])
      BY <2>3 DEF Bufs, BufsOf
    <3>2. q.bufs[j] \in Bufs(M)
      BY <2>0, <2>3 DEF Bufs, BufsOf
    <3>3. r.bufs[i].slot \in allocated[r.bufs[i].seg]
      BY <1>0, <1>6, <2>3, <3>1, <3>2 DEF ByUnit, Holds
    <3> QED BY <1>6, <2>3, <3>2, <3>3
  <2> QED BY <1>3, <2>1, <2>2, <2>3
<1> QED BY <1>7, <1>8

\* mark_complete moves no handle from one replica to another.
LEMMA MarkExclusive ==
  ASSUME BufferExclusive, TypeOK, NEW k \in Key, NEW ty,
         KeepObjects(With(k, MarkComplete(CleanReplicas(k), ty)))
  PROVE  BufferExclusive'
<1> DEFINE m(r) == IF r.type = ty THEN [r EXCEPT !.status = "COMPLETE"] ELSE r
<1>1. \A h \in Key : replicas'[h] = IF h = k THEN {m(r) : r \in CleanReplicas(k)} ELSE replicas[h]
  BY DEF KeepObjects, With, MarkComplete, TypeOK, ObjectTypeOK
<1>2. \A r \in CleanReplicas(k) : r \in replicas[k] /\ m(r).bufs = r.bufs
  BY DEF TypeOK, ObjectTypeOK, CleanReplicas, ReplicaSet
<1> HIDE DEF m
<1>3. ASSUME NEW h \in Key, NEW q \in replicas'[h]
      PROVE  \E r \in replicas[h] : r.bufs = q.bufs /\ q = IF h = k THEN m(r) ELSE r
  BY <1>1, <1>2, <1>3
<1> SUFFICES ASSUME NEW k1 \in Key, NEW k2 \in Key,
                    NEW q1 \in replicas'[k1], NEW q2 \in replicas'[k2],
                    NEW i1 \in DOMAIN q1.bufs, NEW i2 \in DOMAIN q2.bufs,
                    q1.bufs[i1] = q2.bufs[i2]
             PROVE  k1 = k2 /\ q1 = q2 /\ i1 = i2
  BY DEF BufferExclusive
<1>4. PICK r1 \in replicas[k1] : r1.bufs = q1.bufs /\ q1 = IF k1 = k THEN m(r1) ELSE r1
  BY <1>3
<1>5. PICK r2 \in replicas[k2] : r2.bufs = q2.bufs /\ q2 = IF k2 = k THEN m(r2) ELSE r2
  BY <1>3
<1>6. k1 = k2 /\ r1 = r2 /\ i1 = i2
  BY <1>4, <1>5 DEF BufferExclusive
<1> QED BY <1>4, <1>5, <1>6

\* An operation on a key keeps the units exact and exclusive.
LEMMA KeyUnits ==
  ASSUME UnitInv, NEW k \in Key, KeyNext(k)
  PROVE  AllocatedExact' /\ BufferExclusive'
<1>0. /\ HandleInv /\ BufferExclusive /\ AllocatedExact /\ AbsentEmpty
      /\ TypeOK /\ replicas[k] \in SUBSET ReplicaSet
  BY DEF UnitInv, HandleInv, SegmentInv, TypeOK, ObjectTypeOK
<1>a. UNCHANGED registryVars
  BY ObjectFrame DEF segmentVars, registryVars
<1>b. \A R \in SUBSET replicas[k] : Bufs(R) \subseteq Bufs(replicas[k])
  BY BufsMonotone
<1>c. ASSUME NEW R \in SUBSET replicas[k]
      PROVE  /\ Narrows(With(k, R))
             /\ \A h \in Key : With(k, R)[h] \subseteq replicas[h]
  <2>1. k \notin objects => R = {}
    BY <1>0 DEF AbsentEmpty
  <2> QED BY <1>0, <1>b, <2>1, WithNarrows, WithSubset
<1>d. ASSUME NEW R \in SUBSET replicas[k], KeepObjects(With(k, R))
      PROVE  AllocatedExact' /\ BufferExclusive'
  BY <1>0, <1>a, <1>c, <1>d, KeepExact, KeepExclusive
<1>e. ASSUME NEW R \in SUBSET replicas[k], NEW gone, EraseObjects(With(k, R), gone)
      PROVE  AllocatedExact' /\ BufferExclusive'
  BY <1>0, <1>a, <1>c, <1>e, EraseExact, EraseExclusive
<1>f. CleanReplicas(k) \in SUBSET replicas[k]
  BY CleanBufs
<1>1. CASE AccessorMiss(k)
  <2>1. Narrows(replicas)
    BY <1>0 DEF Narrows, AbsentEmpty
  <2> QED BY <1>0, <1>1, <1>a, <2>1, EraseExact, EraseExclusive DEF AccessorMiss
<1>2. CASE LeaseOnRead(k)
  BY <1>2, <1>d, <1>f DEF LeaseOnRead
<1>3. CASE PutStartNoSpace(k)
  BY <1>3, <1>d DEF PutStartNoSpace
<1>4. ASSUME NEW n \in SliceNums, NEW rn \in ReplicaNums,
             NEW M \in Allocate(FreeBuffers(k), n, rn), NEW soft \in SoftPins,
             PutStart(k, M, soft)
      PROVE  AllocatedExact' /\ BufferExclusive'
  <2>1. CASE k \in objects
    BY <1>4, <1>d, <2>1 DEF PutStart
  <2>2. CASE k \notin objects
    BY <1>4, <2>2, PutUnits
  <2> QED BY <2>1, <2>2
<1>5. CASE PutStartExists(k)
  BY <1>5, <1>d, <1>f DEF PutStartExists
<1>6. ASSUME NEW ty \in ReplicaType, PutEnd(k, ty)
      PROVE  AllocatedExact' /\ BufferExclusive'
  <2> DEFINE R == MarkComplete(CleanReplicas(k), ty)
  <2>1. KeepObjects(With(k, R)) /\ k \in objects
    BY <1>6 DEF PutEnd, Found
  <2>2. Bufs(R) \subseteq Bufs(replicas[k])
    BY <1>0, <1>b, <1>f, MarkBufs
  <2>3. Narrows(With(k, R))
    BY <1>0, <2>1, <2>2, WithNarrows
  <2>4. AllocatedExact'
    BY <1>a, <2>1, <2>3, KeepExact
  <2>5. BufferExclusive'
    BY <1>0, <1>a, <2>1, MarkExclusive
  <2> QED BY <2>4, <2>5
<1>7. ASSUME NEW ty \in ReplicaType, PutRevoke(k, ty)
      PROVE  AllocatedExact' /\ BufferExclusive'
  <2> DEFINE R    == CleanReplicas(k)
             left == IF HasDiffRepStatus(R, "PROCESSING", ty) THEN R
                                                      ELSE EraseReplica(R, ty)
  <2>1. left \in SUBSET replicas[k]
    BY <1>f DEF EraseReplica
  <2>2. EraseObjects(With(k, left), IF left = {} THEN {k} ELSE {})
    BY <1>7 DEF PutRevoke
  <2> HIDE DEF left
  <2> QED BY <1>e, <2>1, <2>2
<1>8. CASE Remove(k)
  BY <1>8, <1>e, <1>f DEF Remove
<1> QED
  BY <1>1, <1>2, <1>3, <1>4, <1>5, <1>6, <1>7, <1>8
     DEF KeyNext, ExistKey, GetReplicaList

\* So does an operation on a shard.
LEMMA ShardUnits ==
  ASSUME UnitInv, NEW sh \in Shard, ShardNext(sh)
  PROVE  AllocatedExact' /\ BufferExclusive'
<1>0. HandleInv /\ BufferExclusive /\ AllocatedExact /\ AbsentEmpty
  BY DEF UnitInv, HandleInv
<1>a. UNCHANGED registryVars
  BY ObjectFrame DEF segmentVars, registryVars
<1>1. Narrows(replicas)
  BY <1>0 DEF Narrows, AbsentEmpty
<1>2. ASSUME NEW pattern, GetReplicaListByRegex(sh, pattern)
      PROVE  AllocatedExact' /\ BufferExclusive'
  BY <1>2, UnitsFrame DEF GetReplicaListByRegex, segmentVars
<1>3. ASSUME NEW gone, EraseObjects(replicas, gone)
      PROVE  AllocatedExact' /\ BufferExclusive'
  BY <1>0, <1>1, <1>3, <1>a, EraseExact, EraseExclusive
<1>4. ASSUME NEW gone, EvictShard(sh, gone)
      PROVE  AllocatedExact' /\ BufferExclusive'
  <2> DEFINE left == [k \in Key |-> IF k \in gone THEN EraseReplica(replicas[k], "MEMORY")
                                                  ELSE replicas[k]]
  <2>1. \A k \in Key : left[k] \subseteq replicas[k]
    BY DEF EraseReplica
  <2>2. Narrows(left)
    BY <1>0, <2>1, BufsMonotone DEF Narrows, AbsentEmpty
  <2>3. EraseObjects(left, {k \in gone : left[k] = {}})
    BY <1>4 DEF EvictShard
  <2> HIDE DEF left
  <2> QED BY <1>0, <1>a, <2>1, <2>2, <2>3, EraseExact, EraseExclusive
<1> QED BY <1>2, <1>3, <1>4 DEF ShardNext, RemoveByRegex, RemoveAll

\* ... and one shard of ClearInvalidHandles.
LEMMA ClearUnits ==
  ASSUME UnitInv, NEW t \in Thread, ClearInvalidHandles(t)
  PROVE  AllocatedExact' /\ BufferExclusive'
<1> DEFINE keys  == objects \cap KeysOf(cleaner[t].next)
           clean == [k \in Key |-> IF k \in keys THEN CleanReplicas(k) ELSE replicas[k]]
<1>1. EraseObjects(clean, {k \in keys : clean[k] = {}}) /\ UNCHANGED registryVars
  BY DEF ClearInvalidHandles
<1>2. \A k \in Key : clean[k] \subseteq replicas[k]
  BY CleanBufs
<1>3. Narrows(clean)
  BY <1>2, BufsMonotone DEF Narrows, UnitInv, HandleInv, AbsentEmpty
<1> HIDE DEF clean
<1> QED BY <1>1, <1>2, <1>3, EraseExact, EraseExclusive DEF UnitInv

\* A change of allocators that leaves the segments of all valid handles alone, or
\* invalidates them, gives up exactly the units of the replaced allocators.
LEMMA AllocatorsUnits ==
  ASSUME UnitInv, UNCHANGED replicas, ResetUnits,
         \A k \in Key : \A b \in Bufs(replicas[k]) :
            Current(b)' <=> Current(b) /\ bufAllocator'[b.seg] = bufAllocator[b.seg]
  PROVE  AllocatedExact' /\ BufferExclusive'
<1>1. BufferExclusive'
  BY SubsetExclusive DEF UnitInv
<1>2. ASSUME NEW s \in Segment, NEW u
      PROVE  u \in allocated'[s] <=> \E k \in Key : Holds(k, s, u)'
  <2>1. u \in allocated[s] <=> \E k \in Key : Holds(k, s, u)
    BY AllocatedByUnit DEF UnitInv, ByUnit
  <2>2. allocated'[s] = IF bufAllocator'[s] = bufAllocator[s] THEN allocated[s] ELSE {}
    BY DEF ResetUnits
  <2>3. ASSUME NEW k \in Key
        PROVE  Holds(k, s, u)' <=> Holds(k, s, u) /\ bufAllocator'[s] = bufAllocator[s]
    BY DEF Holds
  <2> QED BY <2>1, <2>2, <2>3
<1>3. ByUnit'
  BY <1>2 DEF ByUnit
<1> QED BY <1>1, <1>3, AllocatedByUnit, PTL

\* Mounting and the first step of an unmount are such changes.
LEMMA MountUnits ==
  ASSUME UnitInv, NEW c \in Client, NEW S \in SUBSET Segment,
         MountSegments(S, c), ResetUnits, UNCHANGED replicas
  PROVE  AllocatedExact' /\ BufferExclusive'
<1>1. \A s \in Segment : bufAllocator'[s] = bufAllocator[s] \/ bufAllocator'[s] = mounts[s] + 1
  BY DEF MountSegments
<1>2. \A s \in Segment : bufAllocator[s] \in Nat /\ mounts[s] \in Nat /\ bufAllocator[s] <= mounts[s]
  BY DEF UnitInv, HandleInv, SegmentInv, SegmentsConsistent, TypeOK, SegmentTypeOK
<1>3. \A k \in Key : \A b \in Bufs(replicas[k]) :
        b.seg \in Segment /\ b.gen \in Nat /\ b.gen <= mounts[b.seg]
  BY BufsType DEF UnitInv, HandleInv, GenKnown, SegmentInv, TypeOK, ObjectTypeOK, Buffer
<1>4. ASSUME NEW k \in Key, NEW b \in Bufs(replicas[k])
      PROVE  Current(b)' <=> Current(b) /\ bufAllocator'[b.seg] = bufAllocator[b.seg]
  BY <1>1, <1>2, <1>3 DEF Current
<1> QED BY <1>4, AllocatorsUnits

\* The first step of an unmount.
LEMMA PrepareUnits ==
  ASSUME UnitInv, NEW S \in SUBSET Segment, PrepareUnmountSegments(S), ResetUnits,
         UNCHANGED replicas
  PROVE  AllocatedExact' /\ BufferExclusive'
<1>1. \A s \in Segment : bufAllocator'[s] = IF s \in S THEN 0 ELSE bufAllocator[s]
  BY DEF PrepareUnmountSegments
<1>2. \A k \in Key : \A b \in Bufs(replicas[k]) : b.seg \in Segment /\ b.gen \in Nat \ {0}
  BY ValidOK DEF UnitInv
<1> QED BY <1>1, <1>2, AllocatorsUnits DEF Current

\* Every step of the master keeps the units exact and exclusive.
LEMMA UnitStep == UnitInv /\ [Next]_vars => UnitInv'
<1> SUFFICES ASSUME UnitInv, [Next]_vars PROVE AllocatedExact' /\ BufferExclusive'
  BY HandleStep DEF UnitInv
<1>0. HandleInv /\ SegmentInv
  BY DEF UnitInv, HandleInv
<1>1. ASSUME NEW k \in Key, KeyNext(k) PROVE AllocatedExact' /\ BufferExclusive'
  BY <1>1, KeyUnits
<1>2. ASSUME NEW sh \in Shard, ShardNext(sh) PROVE AllocatedExact' /\ BufferExclusive'
  BY <1>2, ShardUnits
<1>3. CASE \/ EvictStart \/ EvictSecondPass \/ EvictEnd \/ Tick
           \/ (\E c \in Client : Ping(c)) \/ MonitorScan
           \/ (\E sh \in Shard : HoldNext(sh)) \/ UNCHANGED vars
  <2>1. UNCHANGED <<replicas, allocated, bufAllocator>>
    BY <1>3 DEF HoldNext, HoldAllocator, DropAllocator, registryVars, EvictStart, EvictSecondPass, EvictEnd, Tick, Ping, MonitorScan, vars,
       objectVars, segmentVars
  <2> QED BY <2>1, UnitsFrame
<1>4. ASSUME NEW t \in Thread, ClearInvalidHandles(t) PROVE AllocatedExact' /\ BufferExclusive'
  BY <1>4, ClearUnits
<1>5. ASSUME NEW t \in Thread, CommitUnmount(t) PROVE AllocatedExact' /\ BufferExclusive'
  <2>1. \A s \in cleaner[t].segs : bufAllocator[s] = 0
    BY <1>0 DEF SegmentInv, UnmountExclusive, SegmentsConsistent, TypeOK, CleanerTypeOK
  <2>2. UNCHANGED <<replicas, allocated, bufAllocator>>
    BY <1>0, <1>5, <2>1 DEF CommitUnmount, CommitUnmountSegments, objectVars, SegmentInv,
       TypeOK, SegmentTypeOK
  <2> QED BY <2>2, UnitsFrame
<1>6. ASSUME NEW s \in Segment, MountSegment(s) PROVE AllocatedExact' /\ BufferExclusive'
  BY <1>6, OwnerAssumption, MountUnits DEF MountSegment
<1>7. ASSUME NEW c \in Client, NEW segs \in SUBSET {s \in Segment : Owner[s] = c},
             ReMountSegment(c, segs)
      PROVE  AllocatedExact' /\ BufferExclusive'
  <2>1. PICK reached \in ReMountReaches(segs) : MountSegments(reached, c)
    BY <1>7 DEF ReMountSegment
  <2>2. reached \in SUBSET Segment
    BY <2>1 DEF ReMountReaches
  <2> QED BY <1>7, <2>1, <2>2, MountUnits DEF ReMountSegment
<1>8. ASSUME NEW s \in Segment, NEW t \in Worker, PrepareUnmount(t, s)
      PROVE  AllocatedExact' /\ BufferExclusive'
  BY <1>8, PrepareUnits DEF PrepareUnmount
<1>9. CASE MonitorExpire
  <2> DEFINE segs == {s \in UNION {GetClientSegments(c) : c \in expired} :
                         CanPrepareUnmount(s)}
  <2>1. segs \in SUBSET Segment
    BY <1>0 DEF GetClientSegments, SegmentInv, TypeOK, SegmentTypeOK, ClientTypeOK
  <2>2. PrepareUnmountSegments(segs) /\ ResetUnits /\ UNCHANGED replicas
    BY <1>9 DEF MonitorExpire
  <2> HIDE DEF segs
  <2> QED BY <2>1, <2>2, PrepareUnits
<1> QED BY <1>1, <1>2, <1>3, <1>4, <1>5, <1>6, <1>7, <1>8, <1>9
      DEF Next, UnmountNext, ClientNext

\* A master without objects has no unit in use.
LEMMA UnitInitially == Init => UnitInv
<1> SUFFICES ASSUME Init PROVE UnitInv
  OBVIOUS
<1>1. /\ \A k \in Key : replicas[k] = {}
      /\ \A s \in Segment : allocated[s] = {}
  BY DEF Init
<1>2. Bufs({}) = {}
  BY DEF Bufs
<1>3. ByUnit /\ BufferExclusive
  BY <1>1, <1>2 DEF ByUnit, Holds, BufferExclusive
<1> QED BY <1>3, HandleInitially, AllocatedByUnit DEF UnitInv

\* The allocators never leak a unit and never give one away that is held: what is
\* in use is what the live handles hold, whichever of the operations, the
\* cleaners and the evictor dropped the others.
THEOREM UnitsExact == Spec => []AllocatedExact
<1>1. UnitInv => AllocatedExact
  BY DEF UnitInv
<1> QED BY <1>1, UnitInitially, UnitStep, PTL DEF Spec

\* No unit of an allocator ever belongs to two slices.
THEOREM UnitsExclusive == Spec => []BufferExclusive
<1>1. UnitInv => BufferExclusive
  BY DEF UnitInv
<1> QED BY <1>1, UnitInitially, UnitStep, PTL DEF Spec

(***************************************************************************)
(* What the deadlines of the master guarantee: a lease keeps a complete    *)
(* replica in place, and no client with usable segments escapes the client *)
(* monitor.                                                                *)
(***************************************************************************)
\* The complete replicas of objects under lease, none of whose handles is stale,
\* are among the replicas new.
Shields(new) ==
  \A k \in Key : \A r \in CompleteReplicas(replicas[k]) :
    lease[k] > 0 /\ (\A b \in BufsOf(r) : Valid(b)) => r \in new[k]

\* The same for the step as a whole: this is the body of LeaseProtects.
ShieldStep ==
  \A k \in Key : \A r \in CompleteReplicas(replicas[k]) :
    lease[k] > 0 /\ (\A b \in BufsOf(r) : Valid(b)') => r \in replicas'[k]

\* A step that leaves the replicas alone shields them.
LEMMA UnchangedShields ==
  ASSUME UNCHANGED replicas
  PROVE  ShieldStep
BY DEF ShieldStep, CompleteReplicas

\* Erasing shields if leased objects are not erased and keep their complete replicas.
LEMMA EraseShields ==
  ASSUME NEW new, NEW gone, UNCHANGED <<bufAllocator, holders>>, Shields(new),
         \A k \in gone : lease[k] = 0 \/ new[k] = {},
         EraseObjects(new, gone)
  PROVE  ShieldStep
<1>1. \A k \in Key : replicas'[k] = IF k \in gone THEN {} ELSE new[k]
  BY DEF EraseObjects
<1> QED BY <1>1 DEF Shields, ShieldStep, Valid, Alive, AllocatorFor

\* Keeping the entries shields if the complete replicas are among the new ones.
LEMMA KeepShields ==
  ASSUME NEW new, UNCHANGED <<bufAllocator, holders>>, Shields(new), KeepObjects(new)
  PROVE  ShieldStep
BY DEF KeepObjects, Shields, ShieldStep, Valid, Alive, AllocatorFor

\* CleanupStaleHandles keeps the replicas that a lease protects.
LEMMA CleanShields ==
  ASSUME NEW k \in Key, NEW r \in replicas[k], \A b \in BufsOf(r) : Valid(b)
  PROVE  r \in CleanReplicas(k)
BY DEF CleanReplicas, HasInvalidMemHandle

\* The same for an operation that replaces the replicas of one key.
LEMMA WithShields ==
  ASSUME TypeOK, NEW k \in Key, NEW R,
         \A r \in CompleteReplicas(CleanReplicas(k)) : r \in R
  PROVE  Shields(With(k, R))
<1> SUFFICES ASSUME NEW j \in Key, NEW r \in CompleteReplicas(replicas[j]),
                    \A b \in BufsOf(r) : Valid(b)
             PROVE  r \in With(k, R)[j]
  BY DEF Shields
<1>1. r \in replicas[j] /\ r.status = "COMPLETE"
  BY DEF CompleteReplicas
<1>2. CASE j = k
  <2>1. r \in CleanReplicas(k)
    BY <1>1, <1>2, CleanShields
  <2>2. r \in CompleteReplicas(CleanReplicas(k))
    BY <1>1, <2>1 DEF CompleteReplicas
  <2> QED BY <1>2, <2>2 DEF With, TypeOK, ObjectTypeOK
<1>3. CASE j # k
  BY <1>1, <1>3 DEF With, TypeOK, ObjectTypeOK
<1> QED BY <1>2, <1>3

\* mark_complete keeps complete replicas as they are.
LEMMA MarkShields ==
  ASSUME NEW R \in SUBSET ReplicaSet, NEW ty, NEW r \in CompleteReplicas(R)
  PROVE  r \in MarkComplete(R, ty)
<1>1. r \in ReplicaSet /\ r \in R /\ r.status = "COMPLETE"
  BY DEF CompleteReplicas
<1>2. [r EXCEPT !.status = "COMPLETE"] = r
  BY <1>1 DEF ReplicaSet
<1> QED BY <1>1, <1>2 DEF MarkComplete

\* The operations on one key shield.
LEMMA KeyShields ==
  ASSUME SegmentInv, AbsentEmpty, NEW k \in Key, KeyNext(k)
  PROVE  ShieldStep
<1>0. TypeOK /\ UNCHANGED <<bufAllocator, holders>>
  BY ObjectFrame DEF SegmentInv, segmentVars
<1>a. Shields(With(k, CleanReplicas(k)))
  BY <1>0, WithShields DEF CompleteReplicas
<1>b. ~Found(k) => Shields(With(k, {}))
  <2>1. ~Found(k) => CleanReplicas(k) = {}
    BY DEF Found, AbsentEmpty, CleanReplicas
  <2> QED BY <1>0, <2>1, WithShields DEF CompleteReplicas
<1>1. CASE AccessorMiss(k)
  <2>1. \A j \in Key \ {k} : replicas'[j] = replicas[j]
    BY <1>1 DEF AccessorMiss, EraseObjects
  <2>2. CleanReplicas(k) = {}
    BY <1>1 DEF AccessorMiss, Found
  <2> QED BY <1>0, <2>1, <2>2, CleanShields DEF ShieldStep, CompleteReplicas, Valid, Alive, AllocatorFor
<1>2. CASE LeaseOnRead(k)
  BY <1>0, <1>2, <1>a, KeepShields DEF LeaseOnRead
<1>3. CASE PutStartExists(k)
  BY <1>0, <1>3, <1>a, KeepShields DEF PutStartExists
<1>4. ASSUME NEW ty \in ReplicaType, PutEnd(k, ty) PROVE ShieldStep
  <2>1. CleanReplicas(k) \in SUBSET ReplicaSet
    BY <1>0, CleanType DEF TypeOK
  <2>2. Shields(With(k, MarkComplete(CleanReplicas(k), ty)))
    BY <1>0, <2>1, MarkShields, WithShields
  <2> QED BY <1>0, <1>4, <2>2, KeepShields DEF PutEnd
<1>5. ASSUME NEW ty \in ReplicaType, PutRevoke(k, ty) PROVE ShieldStep
  <2> DEFINE R    == CleanReplicas(k)
             left == IF HasDiffRepStatus(R, "PROCESSING", ty) THEN R
                                                      ELSE EraseReplica(R, ty)
  <2>1. \A r \in CompleteReplicas(R) : r \in left
    BY DEF CompleteReplicas, HasDiffRepStatus, EraseReplica
  <2>2. Shields(With(k, left))
    BY <1>0, <2>1, WithShields
  <2>3. With(k, left)[k] = left
    BY <1>0 DEF With, TypeOK, ObjectTypeOK
  <2> QED BY <1>0, <1>5, <2>2, <2>3, EraseShields DEF PutRevoke
<1>6. CASE Remove(k)
  BY <1>0, <1>6, <1>a, EraseShields DEF Remove, IsLeaseExpired
<1>7. ASSUME PutStartNoSpace(k)
      PROVE  ShieldStep
  BY <1>0, <1>7, <1>b, KeepShields DEF PutStartNoSpace
<1>8. ASSUME NEW M, NEW soft, PutStart(k, M, soft) PROVE ShieldStep
  <2>1. CASE k \in objects
    BY <1>0, <1>8, <1>b, <2>1, KeepShields DEF PutStart
  <2>2. CASE k \notin objects
    <3>1. replicas[k] = {} /\ \A j \in Key \ {k} : replicas'[j] = replicas[j]
      BY <1>0, <1>8, <2>2 DEF AbsentEmpty, PutStart, With, TypeOK, ObjectTypeOK
    <3> QED BY <3>1 DEF ShieldStep, CompleteReplicas
  <2> QED BY <2>1, <2>2
<1> QED
  BY <1>1, <1>2, <1>3, <1>4, <1>5, <1>6, <1>7, <1>8
     DEF KeyNext, ExistKey, GetReplicaList

\* So do those on one shard, the evictor included.
LEMMA ShardShields ==
  ASSUME SegmentInv, NEW sh \in Shard, ShardNext(sh)
  PROVE  ShieldStep
<1>0. UNCHANGED <<bufAllocator, holders>>
  BY ObjectFrame DEF segmentVars
<1>1. Shields(replicas)
  BY DEF Shields, CompleteReplicas
<1>2. ASSUME NEW pattern, GetReplicaListByRegex(sh, pattern) PROVE ShieldStep
  BY <1>2, UnchangedShields DEF GetReplicaListByRegex
<1>3. ASSUME NEW pattern, RemoveByRegex(sh, pattern) PROVE ShieldStep
  BY <1>0, <1>1, <1>3, EraseShields DEF RemoveByRegex, IsLeaseExpired
<1>4. ASSUME NEW gone, RemoveAll(sh, gone) PROVE ShieldStep
  BY <1>0, <1>1, <1>4, EraseShields DEF RemoveAll, IsLeaseExpired
<1>5. ASSUME NEW gone, EvictShard(sh, gone) PROVE ShieldStep
  <2> DEFINE left == [k \in Key |-> IF k \in gone THEN EraseReplica(replicas[k], "MEMORY")
                                                  ELSE replicas[k]]
  <2>1. \A k \in gone : lease[k] = 0
    BY <1>5 DEF EvictShard, MayEvict, IsLeaseExpired
  <2>2. Shields(left)
    BY <2>1 DEF Shields, CompleteReplicas
  <2>3. EraseObjects(left, {k \in gone : left[k] = {}})
    BY <1>5 DEF EvictShard
  <2> HIDE DEF left
  <2> QED BY <1>0, <2>1, <2>2, <2>3, EraseShields
<1> QED BY <1>2, <1>3, <1>4, <1>5 DEF ShardNext

\* ClearInvalidHandles drops only replicas whose segments are gone.
LEMMA ClearShields ==
  ASSUME NEW t \in Thread, ClearInvalidHandles(t)
  PROVE  ShieldStep
<1> DEFINE keys  == objects \cap KeysOf(cleaner[t].next)
           clean == [k \in Key |-> IF k \in keys THEN CleanReplicas(k) ELSE replicas[k]]
<1>1. /\ EraseObjects(clean, {k \in keys : clean[k] = {}})
      /\ UNCHANGED <<bufAllocator, holders>>
  BY DEF ClearInvalidHandles, registryVars
<1>2. Shields(clean)
  BY CleanShields DEF Shields, CompleteReplicas
<1> HIDE DEF clean
<1> QED BY <1>1, <1>2, EraseShields

\* A lease protects every complete replica whose segments stay mounted from every
\* step of the master: calls on the key or on all keys, cleaners, eviction.
THEOREM LeaseCorrect == Spec => LeaseProtects
<1>1. HandleInv /\ [Next]_vars => [ShieldStep]_vars
  <2> SUFFICES ASSUME HandleInv, Next PROVE ShieldStep
    OBVIOUS
  <2>0. SegmentInv /\ AbsentEmpty
    BY DEF HandleInv
  <2>1. ASSUME NEW k \in Key, KeyNext(k) PROVE ShieldStep
    BY <2>0, <2>1, KeyShields
  <2>2. ASSUME NEW sh \in Shard, ShardNext(sh) PROVE ShieldStep
    BY <2>0, <2>2, ShardShields
  <2>3. ASSUME NEW t \in Thread, UnmountNext(t) PROVE ShieldStep
    BY <2>3, ClearShields, UnchangedShields DEF UnmountNext, CommitUnmount, objectVars
  <2>4. ASSUME NEW s \in Segment, MountSegment(s) \/ \E t \in Worker : PrepareUnmount(t, s)
        PROVE  ShieldStep
    BY <2>4, UnchangedShields DEF MountSegment, PrepareUnmount
  <2>5. ASSUME NEW c \in Client, ClientNext(c) PROVE ShieldStep
    BY <2>5, UnchangedShields DEF ClientNext, Ping, ReMountSegment, objectVars
  <2>6. CASE MonitorScan \/ MonitorExpire \/ EvictStart \/ EvictSecondPass \/ EvictEnd \/ Tick
    BY <2>6, UnchangedShields DEF MonitorScan, MonitorExpire, EvictStart, EvictSecondPass,
       EvictEnd, Tick, objectVars
  <2>7. ASSUME NEW sh \in Shard, HoldNext(sh) PROVE ShieldStep
    BY <2>7, UnchangedShields DEF HoldNext, HoldAllocator, DropAllocator, objectVars
  <2> QED BY <2>1, <2>2, <2>3, <2>4, <2>5, <2>6, <2>7 DEF Next
<1> QED BY <1>1, HandleInitially, HandleStep, PTL DEF Spec, LeaseProtects, ShieldStep

-----------------------------------------------------------------------------

MonitorInv == SegmentInv /\ Monitored

\* Every step keeps the clients that must be timed in the queue, in client_ttl or among
\* the expired ones.
LEMMA MonitorStep == MonitorInv /\ [Next]_vars => MonitorInv'
<1> SUFFICES ASSUME MonitorInv, [Next]_vars PROVE Monitored'
  BY SegmentStep DEF MonitorInv
<1>0. TypeOK /\ SegmentInv /\ Monitored
  BY DEF MonitorInv, SegmentInv
<1> USE DEF TypeOK, ClientTypeOK, NoTtl
<1>a. ASSUME NEW c \in Client, PushPing(c)
      PROVE  Pinged' = Pinged \cup {c}
  <2>1. /\ pingQueue' = Append(pingQueue, c) /\ pingQueue \in Seq(Client)
        /\ Len(pingQueue') = Len(pingQueue) + 1
    BY <1>0, <1>a DEF PushPing
  <2> QED BY <2>1 DEF Pinged
<1>1. CASE \/ \E k \in Key : KeyNext(k)
           \/ \E sh \in Shard : ShardNext(sh)
           \/ EvictStart \/ EvictSecondPass \/ EvictEnd
           \/ Tick
  <2>1. UNCHANGED <<segmentVars, expired, pingQueue, okClient>>
    BY <1>1, ObjectFrame
  <2>2. \A c \in Client : clientTtl[c] # NoTtl => clientTtl'[c] # NoTtl
    <3>1. CASE Tick
      BY <1>0, <3>1, TimeAssumption DEF Tick, Elapse
    <3>2. CASE \/ \E k \in Key : KeyNext(k)
               \/ \E sh \in Shard : ShardNext(sh)
               \/ EvictStart \/ EvictSecondPass \/ EvictEnd
      BY <3>2 DEF KeyNext, AccessorMiss, ExistKey, GetReplicaList, LeaseOnRead,
         PutStartNoSpace, PutStart, PutStartExists, PutEnd, PutRevoke, Remove, ShardNext,
         GetReplicaListByRegex, RemoveByRegex, RemoveAll, EvictShard, EvictStart,
         EvictSecondPass, EvictEnd, clientVars
    <3> QED BY <1>1, <3>1, <3>2
  <2> QED BY <1>0, <2>1, <2>2 DEF Monitored, Pinged, segmentVars
<1>2. ASSUME NEW t \in Thread, UnmountNext(t) PROVE Monitored'
  <2>1. \A s \in Segment : status'[s] = "OK" => status[s] = "OK"
    BY <1>2 DEF UnmountNext, ClearInvalidHandles, CommitUnmount, CommitUnmountSegments,
       registryVars
  <2>2. UNCHANGED clientVars
    BY <1>2 DEF UnmountNext, ClearInvalidHandles, CommitUnmount
  <2> QED BY <1>0, <2>1, <2>2 DEF Monitored, Pinged, clientVars
<1>3. ASSUME NEW s \in Segment, MountSegment(s) PROVE Monitored'
  <2>1. Owner[s] \in Client /\ Pinged' = Pinged \cup {Owner[s]}
    BY <1>3, <1>a, OwnerAssumption DEF MountSegment
  <2>2. \A x \in Segment \ {s} : status'[x] = status[x]
    BY <1>3 DEF MountSegment, MountSegments
  <2>3. UNCHANGED <<okClient, clientTtl, expired>>
    BY <1>3 DEF MountSegment
  <2> QED BY <1>0, <2>1, <2>2, <2>3 DEF Monitored
<1>4. ASSUME NEW s \in Segment, NEW t \in Worker, PrepareUnmount(t, s) PROVE Monitored'
  <2>1. \A x \in Segment : status'[x] = "OK" => status[x] = "OK"
    BY <1>4 DEF PrepareUnmount, PrepareUnmountSegments
  <2> QED BY <1>0, <1>4, <2>1 DEF Monitored, Pinged, PrepareUnmount, clientVars
<1>5. ASSUME NEW c \in Client, Ping(c) PROVE Monitored'
  BY <1>0, <1>5, <1>a DEF Monitored, Ping, segmentVars
<1>6. ASSUME NEW c \in Client, NEW segs \in SUBSET {s \in Segment : Owner[s] = c},
             ReMountSegment(c, segs)
      PROVE  Monitored'
  <2>1. Pinged' = Pinged \cup {c} /\ UNCHANGED <<clientTtl, expired>>
    BY <1>6, <1>a DEF ReMountSegment
  <2>2. PICK reached \in ReMountReaches(segs) : MountSegments(reached, c)
    BY <1>6 DEF ReMountSegment
  <2>3. \A x \in Segment : Owner[x] # c => status'[x] = status[x]
    BY <2>2 DEF ReMountReaches, MountSegments
  <2>4. okClient' \subseteq okClient \cup {c}
    BY <1>6 DEF ReMountSegment
  <2> QED BY <1>0, <2>1, <2>3, <2>4 DEF Monitored
<1>7. CASE MonitorScan
  <2> DEFINE ttl == [c \in Client |-> IF c \in Pinged THEN ClientTTL + 1 ELSE clientTtl[c]]
  <2>1. /\ expired = {}
        /\ expired' = {c \in Client : ttl[c] = 0}
        /\ clientTtl' = [c \in Client |-> IF ttl[c] = 0 THEN NoTtl ELSE ttl[c]]
        /\ UNCHANGED <<segmentVars, okClient>>
    BY <1>7 DEF MonitorScan, MonitorIdle
  <2>2. \A c \in Client : c \in Pinged \/ clientTtl[c] # NoTtl => ttl[c] # NoTtl
    BY <1>0, TimeAssumption
  <2> HIDE DEF ttl
  <2> QED BY <1>0, <2>1, <2>2 DEF Monitored, segmentVars
<1>8. CASE MonitorExpire
  <2>1. \A s \in Segment : status'[s] = "OK" => status[s] = "OK" /\ Owner[s] \notin expired
    BY <1>0, <1>8 DEF MonitorExpire, PrepareUnmountSegments, GetClientSegments,
       CanPrepareUnmount, SegmentInv, SegmentsConsistent
  <2>2. okClient' = okClient \ expired /\ UNCHANGED <<pingQueue, clientTtl>>
    BY <1>8 DEF MonitorExpire
  <2> QED BY <1>0, <2>1, <2>2 DEF Monitored, Pinged
<1>9. CASE UNCHANGED vars
  BY <1>0, <1>9 DEF vars, clientVars, segmentVars, Monitored, Pinged
<1>10. ASSUME NEW sh \in Shard, HoldNext(sh) PROVE Monitored'
  BY <1>0, <1>10 DEF HoldNext, HoldAllocator, DropAllocator, registryVars, clientVars, Monitored,
     Pinged
<1> QED BY <1>1, <1>2, <1>3, <1>4, <1>5, <1>6, <1>7, <1>8, <1>9, <1>10 DEF Next, ClientNext

\* Every client with a usable segment or in ok_client_ is timed by the monitor,
\* so a client that stops pinging is always found.
THEOREM MonitorCorrect == Spec => []Monitored
<1>1. Init => MonitorInv
  BY SegmentInitially DEF MonitorInv, Monitored, Init, SegmentInit
<1>2. MonitorInv => Monitored
  BY DEF MonitorInv
<1> QED BY <1>1, <1>2, MonitorStep, PTL DEF Spec
=============================================================================
