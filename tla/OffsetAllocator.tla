--------------------------- MODULE OffsetAllocator ---------------------------
(***************************************************************************)
(* The offset allocator (offset_allocator.cpp) as operators on the state   *)
(* of one __Allocator: regions are nodes, linked to their neighbours in    *)
(* memory; free nodes are also in the list of the bin of their size.  Bin  *)
(* sizes are small floats of MantissaBits bits.  Sizes and offsets are in  *)
(* units of 2^m_multiplier_bits, and one unit is the smallest request.     *)
(***************************************************************************)
EXTENDS Integers, Sequences, FiniteSets

CONSTANTS
  MantissaBits,   \* MANTISSA_BITS and TOP_BINS_INDEX_SHIFT
  StorageSize,    \* m_size
  InitCapacity,   \* nodes at first
  MaxCapacity     \* m_max_capacity

ASSUME AllocatorAssumption ==
  /\ MantissaBits \in Nat \ {0}
  /\ StorageSize \in Nat \ {0}
  /\ InitCapacity \in Nat \ {0}
  /\ MaxCapacity \in Nat /\ MaxCapacity >= InitCapacity

Pow2[n \in Nat] == IF n = 0 THEN 1 ELSE 2 * Pow2[n - 1]

Mantissa == Pow2[MantissaBits]

-----------------------------------------------------------------------------
(* SmallFloat.                                                             *)

HighestSetBit(n) == CHOOSE h \in 0 .. n : Pow2[h] <= n /\ n < 2 * Pow2[h]

\* Weight of the lowest mantissa bit of n.
Grain(n) == IF n < Mantissa THEN 1 ELSE Pow2[HighestSetBit(n) - MantissaBits]

uintToFloatRoundDown(n) ==
  LET h == HighestSetBit(n)
  IN  IF n < Mantissa THEN n
      ELSE (h - MantissaBits + 1) * Mantissa + ((n \div Pow2[h - MantissaBits]) % Mantissa)

uintToFloatRoundUp(n) ==
  uintToFloatRoundDown(n) + (IF n % Grain(n) # 0 THEN 1 ELSE 0)

floatToUint(f) ==
  LET e == f \div Mantissa
      m == f % Mantissa
  IN  IF e = 0 THEN m ELSE (m + Mantissa) * Pow2[e - 1]

-----------------------------------------------------------------------------
(* The state of an allocator.  freeList is the part of m_freeNodes that    *)
(* is in use; a node on it has no content.                                 *)

Node == 0 .. MaxCapacity - 1
None == -1
Bin == 0 .. uintToFloatRoundDown(StorageSize)
TopOf(b) == b \div Mantissa

NewNode(offset, size) ==
  [offset |-> offset, size |-> size, used |-> FALSE,
   binNext |-> None, binPrev |-> None, next |-> None, prev |-> None]

NoNode == NewNode(0, 0)

Elems(s) == {s[k] : k \in DOMAIN s}

\* Node i comes right before node j, in memory or in the list of a bin; one of
\* them may be None.
Neighbours(nodes, i, j) ==
  [k \in Node |-> [nodes[k] EXCEPT !.next = IF k = i THEN j ELSE @,
                                   !.prev = IF k = j THEN i ELSE @]]

BinNeighbours(nodes, i, j) ==
  [k \in Node |-> [nodes[k] EXCEPT !.binNext = IF k = i THEN j ELSE @,
                                   !.binPrev = IF k = j THEN i ELSE @]]

insertNodeIntoBin(a, size, offset) ==
  LET b == uintToFloatRoundDown(size)
      i == Head(a.freeList)
  IN  [a EXCEPT !.nodes = BinNeighbours([@ EXCEPT ![i] = NewNode(offset, size)], i, a.bins[b]),
                !.bins[b] = i,
                !.usedBins = @ \cup {b},
                !.usedTops = @ \cup {TopOf(b)},
                !.freeList = Tail(@),
                !.freeStorage = @ + size]

\* The first node of bin b leaves it; clears the bits of bins without nodes.
PopBin(a, b) ==
  LET n == a.nodes[a.bins[b]].binNext
      usedBins == IF n = None THEN a.usedBins \ {b} ELSE a.usedBins
  IN  [a EXCEPT !.nodes = BinNeighbours(@, None, n),
                !.bins[b] = n,
                !.usedBins = usedBins,
                !.usedTops = IF \E c \in usedBins : TopOf(c) = TopOf(b)
                               THEN @ ELSE @ \ {TopOf(b)},
                !.freeStorage = @ - a.nodes[a.bins[b]].size]

\* Node i leaves its bin and goes to the free list.
removeNodeFromBin(a, i) ==
  LET n == a.nodes[i]
      unlinked ==
        IF n.binPrev = None THEN PopBin(a, uintToFloatRoundDown(n.size))
        ELSE [a EXCEPT !.nodes = BinNeighbours(@, n.binPrev, n.binNext),
                       !.freeStorage = @ - n.size]
  IN  [unlinked EXCEPT !.freeList = <<i>> \o @, !.nodes[i] = NoNode]

\* __Allocator::reset.
NewAllocator ==
  insertNodeIntoBin(
    [nodes |-> [i \in Node |-> NoNode], bins |-> [b \in Bin |-> None],
     usedBins |-> {}, usedTops |-> {}, capacity |-> InitCapacity,
     freeList |-> [i \in 1 .. InitCapacity |-> i - 1], freeStorage |-> 0],
    StorageSize, 0)

-----------------------------------------------------------------------------
(* allocate, free and storageReport.                                       *)

\* m_freeOffset == m_max_capacity
OutOfNodes(a) == a.capacity = MaxCapacity /\ a.freeList = <<>>

Lowest(S) == CHOOSE x \in S : \A y \in S : x <= y
Highest(S) == CHOOSE x \in S : \A y \in S : y <= x

\* The bin to allocate from: in the top bin of the size, else the lowest bin
\* of the next top bin in use; None if there is no space.
FindBin(a, size) ==
  LET min    == uintToFloatRoundUp(size)
      leaves == {b \in a.usedBins : TopOf(b) = TopOf(min) /\ b >= min}
      tops   == {t \in a.usedTops : t > TopOf(min)}
  IN  IF TopOf(min) \in a.usedTops /\ leaves # {} THEN Lowest(leaves)
      ELSE IF tops # {} THEN Lowest({b \in a.usedBins : TopOf(b) = Lowest(tops)})
      ELSE None

CanAllocate(a, size) == ~OutOfNodes(a) /\ FindBin(a, size) # None

\* Node i, which has left its bin, keeps size units; the rest becomes a node
\* behind it.
Split(a, i, size) ==
  LET n    == a.nodes[i]
      rest == n.size - size
      b    == [a EXCEPT !.nodes[i] = [@ EXCEPT !.size = size, !.used = TRUE, !.binNext = None]]
      new  == Head(a.freeList)
      c    == insertNodeIntoBin(b, rest, n.offset + size)
  IN  IF rest = 0 THEN b
      ELSE [c EXCEPT !.nodes = Neighbours(Neighbours(@, i, new), new, n.next)]

\* allocate() adds a node when none is free and the limit allows it, also when
\* it then finds no space.
Grown(a) == IF a.freeList # <<>> \/ OutOfNodes(a) THEN a
            ELSE [a EXCEPT !.freeList = <<a.capacity>>, !.capacity = @ + 1]

\* The node allocate() returns, and the state it leaves when it succeeds.
NodeFor(a, size) == a.bins[FindBin(a, size)]

allocate(a, size) ==
  Split(PopBin(Grown(a), FindBin(a, size)), NodeFor(a, size),
        floatToUint(uintToFloatRoundUp(size)))

\* Mutant: a region is merged with the one before it only.
FreeForward(a, i) ==
  LET n == a.nodes[i]
      merge == n.prev # None /\ ~a.nodes[n.prev].used
      p == IF merge THEN a.nodes[n.prev] ELSE n
      b == IF merge THEN removeNodeFromBin(a, n.prev) ELSE a
      c == insertNodeIntoBin([b EXCEPT !.freeList = <<i>> \o @],
             n.size + (IF merge THEN p.size ELSE 0), p.offset)
  IN  [c EXCEPT !.nodes = Neighbours(Neighbours(@, p.prev, i), i, n.next)]

\* Frees node i and merges it with its free neighbours.
free(a, i) ==
  LET n == a.nodes[i]
      IsFree(j) == j # None /\ ~a.nodes[j].used
      before == IF IsFree(n.prev) THEN a.nodes[n.prev]
                ELSE [offset |-> n.offset, size |-> 0, prev |-> n.prev]
      behind == IF IsFree(n.next) THEN a.nodes[n.next]
                ELSE [size |-> 0, next |-> n.next]
      b == IF IsFree(n.prev) THEN removeNodeFromBin(a, n.prev) ELSE a
      c == IF IsFree(n.next) THEN removeNodeFromBin(b, n.next) ELSE b
      d == insertNodeIntoBin([c EXCEPT !.freeList = <<i>> \o @],
             before.size + n.size + behind.size, before.offset)
  IN  [d EXCEPT !.nodes = Neighbours(Neighbours(@, before.prev, i), i, behind.next)]

\* Mutant: the report does not look at the nodes that are left.
LargestOfBins(a) ==
  IF a.usedTops = {} THEN 0
  ELSE floatToUint(Highest({b \in a.usedBins : TopOf(b) = Highest(a.usedTops)}))

\* storageReport().largestFreeRegion
LargestFreeRegion(a) ==
  IF OutOfNodes(a) \/ a.usedTops = {} THEN 0
  ELSE floatToUint(Highest({b \in a.usedBins : TopOf(b) = Highest(a.usedTops)}))

-----------------------------------------------------------------------------
(* What makes the state of an allocator sound.                             *)

Live(a) == (0 .. a.capacity - 1) \ Elems(a.freeList)
FreeNodes(a) == {i \in Live(a) : ~a.nodes[i].used}
EndOf(a, i) == a.nodes[i].offset + a.nodes[i].size

\* The units of the regions of the nodes S.
Units(a, S) == UNION {a.nodes[i].offset .. EndOf(a, i) - 1 : i \in S}

\* The live nodes cut the storage into regions, none of which is lost, and are
\* linked in the order of their offsets.
Tiled(a) ==
  LET live == Live(a)
  IN  /\ Units(a, live) = 0 .. StorageSize - 1
      /\ \A i, j \in live :
           i # j => EndOf(a, i) <= a.nodes[j].offset \/ EndOf(a, j) <= a.nodes[i].offset
      /\ \A i \in live :
           LET n == a.nodes[i]
           IN  /\ n.size > 0
               /\ IF n.prev = None THEN n.offset = 0
                  ELSE n.prev \in live /\ a.nodes[n.prev].next = i
               /\ IF n.next = None THEN EndOf(a, i) = StorageSize
                  ELSE /\ n.next \in live
                       /\ a.nodes[n.next].prev = i
                       /\ EndOf(a, i) = a.nodes[n.next].offset

\* Two free regions are never next to each other.
Coalesced(a) ==
  \A i \in FreeNodes(a) : a.nodes[i].next # None => a.nodes[a.nodes[i].next].used

\* The bins hold the free nodes, each in the bin of its size; the masks say
\* which bins hold any.
Binned(a) ==
  LET unused == FreeNodes(a)
  IN  /\ a.usedBins = {b \in Bin : a.bins[b] # None}
      /\ a.usedTops = {TopOf(b) : b \in a.usedBins}
      /\ \A b \in a.usedBins : /\ a.bins[b] \in unused
                               /\ a.nodes[a.bins[b]].binPrev = None
                               /\ uintToFloatRoundDown(a.nodes[a.bins[b]].size) = b
      /\ \A i \in unused :
           LET n == a.nodes[i]
               b == uintToFloatRoundDown(n.size)
           IN  /\ IF n.binPrev = None THEN a.bins[b] = i
                  ELSE n.binPrev \in unused /\ a.nodes[n.binPrev].binNext = i
               /\ n.binNext # None =>
                    /\ n.binNext \in unused
                    /\ a.nodes[n.binNext].binPrev = i
                    /\ uintToFloatRoundDown(a.nodes[n.binNext].size) = b

\* m_freeStorage counts the units of the free regions.
Sound(a) ==
  /\ Tiled(a) /\ Coalesced(a) /\ Binned(a)
  /\ a.freeStorage = Cardinality(Units(a, FreeNodes(a)))
=============================================================================
