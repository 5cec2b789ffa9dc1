--------------------------- MODULE SegmentManager ---------------------------
(***************************************************************************)
(* The registry of memory segments kept by the master (segment.h,          *)
(* segment.cpp).  Every operator below is the body of one method of        *)
(* ScopedSegmentAccess; the object exists only while segment_mutex_ is     *)
(* held, so each body is one atomic step.                                  *)
(*                                                                         *)
(* An allocator object is identified by its segment and a serial number:   *)
(* remounting a segment creates a new allocator.  The registry keeps one   *)
(* with a shared_ptr; a buffer has a weak_ptr to it, and a call that works *)
(* on a buffer turns it into a shared_ptr for a moment, which keeps an     *)
(* allocator alive that the registry has dropped meanwhile.                *)
(***************************************************************************)
EXTENDS Integers, FiniteSets

CONSTANTS
  Client,      \* client processes (UUIDs)
  Segment,     \* segment UUIDs
  Owner,       \* the client whose memory each segment is
  SegSize,     \* size of each segment; 0 makes its parameters invalid
  MaxMounts,   \* bound on the allocators created for one segment
  MaxHolders   \* bound on the calls that hold an allocator at a time

ASSUME OwnerAssumption == Owner \in [Segment -> Client]
ASSUME SegSizeAssumption == SegSize \in [Segment -> Nat]
ASSUME MaxMountsAssumption == MaxMounts \in Nat
ASSUME MaxHoldersAssumption == MaxHolders \in Nat

VARIABLES
  status,          \* mounted_segments_[s].status, "NONE" if s is not a key
  bufAllocator,    \* mounted_segments_[s].buf_allocator, 0 for null
  allocators,      \* allocators_ and allocators_by_name_
  clientSegments,  \* client_segments_
  mounts,          \* allocators created so far for each segment
  memCapacity,     \* what each segment adds to the total_mem_capacity metric
  holders,         \* the temporary shared_ptrs that calls have to allocators
  outlived         \* history: what cleaners found alive though it was dropped

registryVars ==
  <<status, bufAllocator, allocators, clientSegments, mounts, memCapacity>>

segmentVars ==
  <<status, bufAllocator, allocators, clientSegments, mounts, memCapacity,
    holders, outlived>>

SegmentStatus == {"NONE", "OK", "UNMOUNTING"}

Allocator == [seg : Segment, gen : Nat]

\* An allocator as met by a thread that has shard locked.
Meeting == [shard : Nat, alloc : Allocator]

\* The allocator object that mounted_segments_[s] holds.
AllocatorOf(s) == [seg |-> s, gen |-> bufAllocator[s]]

SegmentTypeOK ==
  /\ status \in [Segment -> SegmentStatus]
  /\ bufAllocator \in [Segment -> Nat]
  /\ allocators \in SUBSET Allocator
  /\ clientSegments \in [Client -> SUBSET Segment]
  /\ mounts \in [Segment -> Nat]
  /\ memCapacity \in [Segment -> Int]
  /\ holders \in SUBSET Meeting
  /\ outlived \in SUBSET Meeting

SegmentInit ==
  /\ status = [s \in Segment |-> "NONE"]
  /\ bufAllocator = [s \in Segment |-> 0]
  /\ allocators = {}
  /\ clientSegments = [c \in Client |-> {}]
  /\ mounts = [s \in Segment |-> 0]
  /\ memCapacity = [s \in Segment |-> 0]
  /\ holders = {}
  /\ outlived = {}

\* An allocator object exists as long as somebody has a shared_ptr to it.
Alive(a) == a.gen = bufAllocator[a.seg] \/ \E h \in holders : h.alloc = a

-----------------------------------------------------------------------------
(* The outcomes of ScopedSegmentAccess::MountSegment.  With invalid         *)
(* parameters, or when the segment is already OK, nothing changes.          *)

MountUnavailable(s) == SegSize[s] > 0 /\ status[s] = "UNMOUNTING"

MountSucceeds(s) == SegSize[s] > 0 /\ status[s] = "NONE"

\* MountSegment called by client c for each segment of S in turn.
MountSegments(S, c) ==
  LET new == {s \in S : MountSucceeds(s)}
  IN  /\ \A s \in new : mounts[s] < MaxMounts
      /\ mounts' = [s \in Segment |-> IF s \in new THEN mounts[s] + 1
                                                   ELSE mounts[s]]
      /\ status' = [s \in Segment |-> IF s \in new THEN "OK" ELSE status[s]]
      /\ bufAllocator' = [s \in Segment |->
            IF s \in new THEN mounts[s] + 1 ELSE bufAllocator[s]]
      /\ allocators' = allocators \cup {[seg |-> s, gen |-> mounts[s] + 1] : s \in new}
      /\ clientSegments' = [clientSegments EXCEPT ![c] = @ \cup new]
      /\ memCapacity' = [s \in Segment |->
            IF s \in new THEN memCapacity[s] + SegSize[s] ELSE memCapacity[s]]
      /\ UNCHANGED <<holders, outlived>>

\* The segments that one call of ReMountSegment(segs, c) reaches: the loop stops
\* at the first one that is being unmounted.  The list comes from an
\* unordered_map of the client, so its order is arbitrary.
ReMountReaches(segs) ==
  LET blocked == {s \in segs : MountUnavailable(s)}
  IN  IF blocked = {} THEN {segs} ELSE SUBSET (segs \ blocked)

-----------------------------------------------------------------------------

\* Mutant: a second unmount is let through.
CanPrepareMounted(s) == status[s] # "NONE"

\* PrepareUnmountSegment succeeds only for a segment that is mounted and OK.
CanPrepareUnmount(s) == status[s] = "OK"

\* Mutant: the allocator stays in the containers.
PrepareKeepsAllocator(S) ==
  /\ bufAllocator' = [s \in Segment |-> IF s \in S THEN 0 ELSE bufAllocator[s]]
  /\ status' = [s \in Segment |-> IF s \in S THEN "UNMOUNTING" ELSE status[s]]
  /\ UNCHANGED <<allocators, clientSegments, mounts, memCapacity, holders, outlived>>

\* PrepareUnmountSegment for each segment of S: the allocator leaves both
\* containers and the registry drops it.  It is destroyed, and the handles
\* allocated from it expire, when no call holds it any more.
PrepareUnmountSegments(S) ==
  /\ allocators' = allocators \ {AllocatorOf(s) : s \in S}
  /\ bufAllocator' = [s \in Segment |-> IF s \in S THEN 0 ELSE bufAllocator[s]]
  /\ status' = [s \in Segment |-> IF s \in S THEN "UNMOUNTING" ELSE status[s]]
  /\ UNCHANGED <<clientSegments, mounts, memCapacity, holders, outlived>>

\* Mutants: the metric, or the entry of the segment, is left as it is.
CommitKeepsCapacity(S) ==
  /\ clientSegments' = [c \in Client |-> clientSegments[c] \ {s \in S : Owner[s] = c}]
  /\ status' = [s \in Segment |-> IF s \in S THEN "NONE" ELSE status[s]]
  /\ UNCHANGED <<bufAllocator, memCapacity, allocators, mounts, holders, outlived>>

CommitKeepsEntry(S) == UNCHANGED segmentVars

\* CommitUnmountSegment for each segment of S, with the client that mounted it.
\* The status of the segment is not looked at.
CommitUnmountSegments(S) ==
  /\ clientSegments' = [c \in Client |->
        clientSegments[c] \ {s \in S : Owner[s] = c}]
  /\ status' = [s \in Segment |-> IF s \in S THEN "NONE" ELSE status[s]]
  /\ bufAllocator' = [s \in Segment |-> IF s \in S THEN 0 ELSE bufAllocator[s]]
  /\ memCapacity' = [s \in Segment |->
        IF s \in S THEN memCapacity[s] - SegSize[s] ELSE memCapacity[s]]
  /\ UNCHANGED <<allocators, mounts, holders, outlived>>

\* The segments GetClientSegments returns.
GetClientSegments(c) == {s \in clientSegments[c] : status[s] # "NONE"}
=============================================================================
