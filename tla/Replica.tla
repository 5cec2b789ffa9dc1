------------------------------- MODULE Replica -------------------------------
(***************************************************************************)
(* Replicas and the tests that ObjectMetadata makes on the replicas of an  *)
(* object (replica.h, master_service.h).  A memory replica holds one       *)
(* buffer per slice; a disk replica holds none.  Two replicas of an object *)
(* never hold the same buffers, so the vector of replicas is a set here.   *)
(***************************************************************************)
EXTENDS Naturals, Sequences

CONSTANTS
  Segment,     \* segments buffers are allocated from
  Slot         \* the allocation units of a segment

\* A buffer remembers the allocator object it came from (segment, serial number).
Buffer == [seg : Segment, gen : Nat, slot : Slot]

ReplicaType == {"MEMORY", "DISK"}

ReplicaStatus == {"PROCESSING", "COMPLETE"}

ReplicaSet ==
  [type : ReplicaType, status : ReplicaStatus, bufs : Seq(Buffer)]

MemoryReplica(bufs) ==
  [type |-> "MEMORY", status |-> "PROCESSING", bufs |-> bufs]

DiskReplica == [type |-> "DISK", status |-> "PROCESSING", bufs |-> <<>>]

\* The buffers of one replica, and of a set of replicas.
BufsOf(r) == {r.bufs[i] : i \in DOMAIN r.bufs}

Bufs(R) == UNION {BufsOf(r) : r \in R}

-----------------------------------------------------------------------------

\* Some replica of type ty has a status other than st.
HasDiffRepStatus(R, st, ty) == \E r \in R : r.type = ty /\ r.status # st

EraseReplica(R, ty) == {r \in R : r.type # ty}

HasMemReplica(R) == \E r \in R : r.type = "MEMORY"

CompleteReplicas(R) == {r \in R : r.status = "COMPLETE"}

\* Mutant: unfinished replicas do not count.
SomeReplicaComplete(R) == TRUE

IsAllReplicasComplete(R) == \A r \in R : r.status = "COMPLETE"

\* mark_complete on every replica of type ty.
MarkComplete(R, ty) ==
  {IF r.type = ty THEN [r EXCEPT !.status = "COMPLETE"] ELSE r : r \in R}

-----------------------------------------------------------------------------

\* A[j][i] is the buffer of slice i in replica j: no buffer is used twice, and no
\* two replicas put the same slice in one segment.
IsPlacement(A, m, n) ==
  /\ \A j1, j2 \in 1 .. m : \A i1, i2 \in 1 .. n :
        A[j1][i1] = A[j2][i2] => j1 = j2 /\ i1 = i2
  /\ \A j1, j2 \in 1 .. m : \A i \in 1 .. n :
        j1 # j2 => A[j1][i].seg # A[j2][i].seg

\* The ways to place m replicas of n slices in the buffers F.
Placements(F, n, m) == {A \in [1 .. m -> [1 .. n -> F]] : IsPlacement(A, m, n)}
==============================================================================
