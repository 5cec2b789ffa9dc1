------------------------- MODULE AllocationStrategy -------------------------
(***************************************************************************)
(* RandomAllocationStrategy::Allocate (allocation_strategy.h), step by     *)
(* step, over the offset allocators of the segments.  PutStart holds       *)
(* segment_mutex_ shared, so calls for keys of different shards run at the *)
(* same time on the same allocators; only allocate() and deallocate() of   *)
(* one allocator are atomic.                                               *)
(***************************************************************************)
EXTENDS OffsetAllocator

CONSTANTS
  Segment,      \* segments, each with an OffsetBufferAllocator
  NameOf,       \* their names; several segments can share one
  Caller,       \* threads that run PutStart
  Slices,       \* the slice_sizes of the calls
  ReplicaNums,  \* values of ReplicateConfig::replica_num
  PrefNames,    \* values of preferred_segment
  RetryLimit,   \* kMaxRetryLimit
  MaxCalls      \* calls of Allocate in a behaviour

ASSUME RetryAssumption == RetryLimit \in Nat \ {0} /\ MaxCalls \in Nat

\* What validateInput lets through.
ASSUME InputAssumption ==
  /\ \A sl \in Slices : sl \in Seq(Nat \ {0}) /\ sl # <<>>
  /\ ReplicaNums \subseteq Nat \ {0}

VARIABLES
  alloc,        \* the offset allocator of each segment
  curSize,      \* cur_size_ of each OffsetBufferAllocator
  call,         \* the call each thread has under way
  calls         \* how many calls there were

vars == <<alloc, curSize, call, calls>>

\* AllocatedBuffer with its OffsetAllocationHandle.
Buffer == [seg : Segment, node : Node, offset : 0 .. StorageSize, size : 1 .. StorageSize]

\* The call of a thread: it needs slices in count replicas (at most rn);
\* bufs[j] holds the buffers of replica j so far and got those of the current
\* slice; tried, eligible and tries belong to the search for the next buffer.
\* drop holds the buffers that are being destroyed, one after the other; the
\* language does not fix the order for the elements of a vector.
Idle == [pc |-> "idle", slices |-> <<>>, rn |-> 0, pref |-> "none", count |-> 0,
         bufs |-> <<>>, got |-> <<>>, tried |-> {}, eligible |-> {}, tries |-> 0, drop |-> {}]

Active(t) == call[t].pc \in {"pick", "try", "slice"}

\* The buffers of the replicas R.
BufsOf(bufs, R) == UNION {Elems(bufs[j]) : j \in R}

HeldBy(c) == c.drop \cup Elems(c.got) \cup BufsOf(c.bufs, DOMAIN c.bufs)

\* Types of the allocators and calls; the number of replicas a call still aims at
\* is never more than it was asked for and never 0.
AllocTypeOK ==
  /\ curSize \in [Segment -> Nat]
  /\ \A s \in Segment :
        /\ alloc[s].usedBins \subseteq Bin
        /\ alloc[s].freeStorage \in 0 .. StorageSize
        /\ alloc[s].capacity \in InitCapacity .. MaxCapacity
  /\ \A t \in Caller :
        /\ call[t].pc \in {"idle", "pick", "try", "slice", "done", "failed"}
        /\ HeldBy(call[t]) \subseteq Buffer
        /\ Active(t) => call[t].count \in 1 .. call[t].rn

Init ==
  /\ alloc = [s \in Segment |-> NewAllocator]
  /\ curSize = [s \in Segment |-> 0]
  /\ call = [t \in Caller |-> Idle]
  /\ calls = 0

-----------------------------------------------------------------------------

Become(t, c) == call' = [call EXCEPT ![t] = c]

\* The size of the slice that t is working on.
SliceSize(c) == c.slices[Len(c.bufs[1]) + 1]

\* OffsetBufferAllocator::allocate for the current slice of t succeeds.
TakeBuffer(t, s) ==
  LET c == call[t]
      size == SliceSize(c)
      i == NodeFor(alloc[s], size)
      b == [seg |-> s, node |-> i, offset |-> alloc[s].nodes[i].offset, size |-> size]
  IN  /\ CanAllocate(alloc[s], size)
      /\ alloc' = [alloc EXCEPT ![s] = allocate(@, size)]
      /\ curSize' = [curSize EXCEPT ![s] = @ + size]
      /\ Become(t, [c EXCEPT !.got = Append(@, b), !.pc = "pick",
                             !.tried = {}, !.eligible = {}, !.tries = 0])
      /\ UNCHANGED calls

\* Mutant: a dropped buffer is lost.
DeallocateNothing(t) ==
  \E b \in call[t].drop :
     /\ Become(t, [call[t] EXCEPT !.drop = @ \ {b}])
     /\ UNCHANGED <<alloc, curSize, calls>>

\* The destructor of a dropped buffer: OffsetBufferAllocator::deallocate.
Deallocate(t) ==
  \E b \in call[t].drop :
     /\ alloc' = [alloc EXCEPT ![b.seg] = free(@, b.node)]
     /\ curSize' = [curSize EXCEPT ![b.seg] = @ - b.size]
     /\ Become(t, [call[t] EXCEPT !.drop = @ \ {b}])
     /\ UNCHANGED calls

\* Mutant: used_segments is never filled.
UsedNothing(c) == {}

\* used_segments: the names already used for the current slice.
UsedNames(c) == {NameOf[b.seg] : b \in Elems(c.got)}

Start(t) ==
  /\ call[t] = Idle /\ calls < MaxCalls
  /\ \E sl \in Slices, rn \in ReplicaNums, pref \in PrefNames :
        Become(t, [pc |-> "pick", slices |-> sl, rn |-> rn, pref |-> pref,
                   count |-> rn, bufs |-> [j \in 1 .. rn |-> <<>>], got |-> <<>>,
                   tried |-> {}, eligible |-> {}, tries |-> 0, drop |-> {}])
  /\ calls' = calls + 1
  /\ UNCHANGED <<alloc, curSize>>

\* allocateSingleBuffer: for the next replica of the slice, the segments with
\* the preferred name come first, unless the slice has used it.
WantsMore(c) == c.pc = "pick" /\ c.drop = {} /\ Len(c.got) < c.count

Preferred(c) ==
  {s \in Segment \ c.tried : NameOf[s] = c.pref /\ c.pref \notin UsedNames(c)}

\* They are tried one after the other.
AllocatePreferred(t) ==
  /\ WantsMore(call[t])
  /\ \E s \in Preferred(call[t]) :
        \/ TakeBuffer(t, s)
        \/ /\ ~CanAllocate(alloc[s], SliceSize(call[t]))
           /\ alloc' = [alloc EXCEPT ![s] = Grown(@)]
           /\ Become(t, [call[t] EXCEPT !.tried = @ \cup {s}])
           /\ UNCHANGED <<curSize, calls>>

\* tryRandomAllocate collects the allocators whose largest free region is
\* large enough.
CollectEligible(t) ==
  LET c == call[t]
      E == {s \in Segment : NameOf[s] \notin UsedNames(c)
                            /\ LargestFreeRegion(alloc[s]) >= SliceSize(c)}
  IN  /\ WantsMore(c) /\ Preferred(c) = {}
      /\ Become(t, [c EXCEPT !.pc = IF E = {} THEN "slice" ELSE "try",
                             !.tried = {}, !.eligible = E])
      /\ UNCHANGED <<alloc, curSize, calls>>

\* It tries them in random order; another thread may have taken the room.
TryRandomAllocate(t) ==
  LET c == call[t]
  IN  /\ c.pc = "try"
      /\ \E s \in c.eligible :
            \/ TakeBuffer(t, s)
            \/ /\ ~CanAllocate(alloc[s], SliceSize(c))
               /\ LET E == c.eligible \ {s}
                      over == E = {} \/ c.tries + 1 = RetryLimit
                  IN  Become(t, [c EXCEPT !.pc = IF over THEN "slice" ELSE "try",
                                          !.eligible = IF over THEN {} ELSE E,
                                          !.tries = IF over THEN 0 ELSE @ + 1])
               /\ alloc' = [alloc EXCEPT ![s] = Grown(@)]
               /\ UNCHANGED <<curSize, calls>>

SliceEnds(c) ==
  c.drop = {} /\ (c.pc = "slice" \/ (c.pc = "pick" /\ Len(c.got) = c.count))

\* A slice got no buffer at all: NO_AVAILABLE_HANDLE, everything is given back.
SliceFails(t) ==
  LET c == call[t]
  IN  /\ SliceEnds(c) /\ c.got = <<>>
      /\ Become(t, [Idle EXCEPT !.pc = "failed", !.drop = BufsOf(c.bufs, DOMAIN c.bufs)])
      /\ UNCHANGED <<alloc, curSize, calls>>

\* The replicas that got no buffer for this slice are dropped.
SliceDone(t) ==
  LET c    == call[t]
      m    == Len(c.got)
      bufs == [j \in 1 .. m |-> Append(c.bufs[j], c.got[j])]
  IN  /\ SliceEnds(c) /\ c.got # <<>>
      /\ Become(t, [c EXCEPT !.count = m, !.bufs = bufs, !.got = <<>>,
                             !.drop = BufsOf(c.bufs, m + 1 .. c.count),
                             !.pc = IF Len(bufs[1]) = Len(c.slices) THEN "done" ELSE "pick"])
      /\ UNCHANGED <<alloc, curSize, calls>>

\* The object is removed, or the failure reported; the thread is free again.
Finish(t) ==
  LET c == call[t]
  IN  /\ c.pc \in {"done", "failed"} /\ c.drop = {}
      /\ Become(t, [Idle EXCEPT !.drop = BufsOf(c.bufs, DOMAIN c.bufs)])
      /\ UNCHANGED <<alloc, curSize, calls>>

Next ==
  \E t \in Caller :
    \/ Start(t) \/ AllocatePreferred(t) \/ CollectEligible(t)
    \/ TryRandomAllocate(t) \/ SliceFails(t) \/ SliceDone(t) \/ Deallocate(t) \/ Finish(t)

Spec == Init /\ [][Next]_vars

-----------------------------------------------------------------------------

Held(s) == {b \in UNION {HeldBy(call[t]) : t \in Caller} : b.seg = s}

\* The buffers of all calls lie in their segment without overlap, and the used
\* nodes of a segment's allocator are those of the buffers: nothing is handed
\* out twice by calls that run at the same time, and a dropped replica, a
\* failure and a removal give everything back.
BuffersExclusive ==
  \A s \in Segment :
    LET held == Held(s)
    IN  /\ \A b \in held : b.offset + b.size <= StorageSize
        /\ \A b, c \in held :
              b # c => b.offset + b.size <= c.offset \/ c.offset + c.size <= b.offset
        /\ {i \in Live(alloc[s]) : alloc[s].nodes[i].used} = {b.node : b \in held}

\* After any sequence of allocate() and free() the regions tile the storage,
\* free neighbours are merged, the bins and their masks list the free regions
\* (the two ASSERTs on neighbours in free() hold), m_freeStorage is the number
\* of units that are free and cur_size_ the number that buffers occupy.
AllocatorSound ==
  \A s \in Segment :
    /\ Sound(alloc[s])
    /\ curSize[s] = Cardinality(UNION {b.offset .. b.offset + b.size - 1 : b \in Held(s)})

\* getLargestFreeRegion() is exact for the choice of eligible allocators: an
\* allocation of some size succeeds if and only if it is reported to fit,
\* whatever the rounding to bins and the number of nodes that are left.
ReportExact ==
  \A s \in Segment :
    LET largest == LargestFreeRegion(alloc[s])
    IN  \A n \in 1 .. StorageSize : CanAllocate(alloc[s], n) <=> largest >= n

\* Every replica handed out has all slices, and for each slice the replicas are
\* in segments of different names, whatever was dropped on the way; the state of
\* calls and allocators keeps its types until then.
ReplicasSound ==
  /\ AllocTypeOK
  /\ \A t \in Caller : call[t].pc = "done" =>
       LET c == call[t]
       IN  /\ c.count \in 1 .. c.rn /\ DOMAIN c.bufs = 1 .. c.count
           /\ \A j \in 1 .. c.count :
                 /\ Len(c.bufs[j]) = Len(c.slices)
                 /\ \A i \in DOMAIN c.slices : c.bufs[j][i].size = c.slices[i]
           /\ \A i \in DOMAIN c.slices : \A j, k \in 1 .. c.count :
                 j # k => NameOf[c.bufs[j][i].seg] # NameOf[c.bufs[k][i].seg]
=============================================================================
