----------------------------- MODULE BatchEvict -----------------------------
(***************************************************************************)
(* MasterService::BatchEvict, the two-pass approximate LRU, with the calls *)
(* that run between its visits to the shards.  MasterService lets the      *)
(* evictor take any objects that may go; here is which ones it takes.      *)
(*                                                                         *)
(* Deadlines are absolute.  steady_clock is fine enough that two calls do  *)
(* not read the same time: every call takes two units and LeaseTTL is odd, *)
(* so no two objects have the same lease_timeout.  Ratios are percentages. *)
(***************************************************************************)
EXTENDS Naturals, FiniteSets

CONSTANTS
  Key,             \* object keys
  NumShards,       \* kNumShards
  ShardOf,         \* getShardIndex
  LeaseTTL,        \* default_kv_lease_ttl_
  SoftTTL,         \* default_kv_soft_pin_ttl_
  Ages,            \* when the objects that exist at the beginning were put
  AllowSoftEvict,  \* allow_evict_soft_pinned_objects_
  EvictRatio,      \* eviction_ratio_
  HighWatermark,   \* eviction_high_watermark_ratio_
  UsedRatios,      \* values of get_global_mem_used_ratio()
  MaxCalls         \* bound on the calls that interfere

\* Even ratios, so that half of one is a whole number.
ASSUME RatioAssumption ==
  \A r \in UsedRatios \cup {EvictRatio, HighWatermark} : r \in Nat /\ r % 2 = 0
ASSUME EvictKeyAssumption ==
  /\ IsFiniteSet(Key)
  /\ NumShards \in Nat \ {0} /\ ShardOf \in [Key -> 0 .. NumShards - 1]
ASSUME EvictTimeAssumption ==
  /\ LeaseTTL \in Nat /\ LeaseTTL % 2 = 1 /\ SoftTTL \in Nat
  /\ Ages \subseteq {2 * i : i \in 1 .. Cardinality(Key)}
ASSUME EvictSwitchAssumption == AllowSoftEvict \in BOOLEAN /\ MaxCalls \in Nat

VARIABLES
  obj,       \* the metadata of each object, Absent if there is none
  clock,     \* steady_clock
  calls,     \* calls that have interfered
  ev         \* local variables of BatchEvict

vars == <<obj, clock, calls, ev>>

Absent == [mem |-> "NONE", disk |-> FALSE, lease |-> 0, soft |-> 0]

\* mem is the status of the memory replica.  soft is soft_pin_timeout: 0 if it
\* is not set, Unset if it has not been granted yet.
Unset == 1

Object(mem, disk, lease, soft) ==
  [mem |-> mem, disk |-> disk, lease |-> lease, soft |-> soft]

Objects == {k \in Key : obj[k] # Absent}

KeysOf(sh) == {k \in Objects : ShardOf[k] = sh}

Max2(a, b) == IF a >= b THEN a ELSE b
Min2(a, b) == IF a <= b THEN a ELSE b

\* The objects at the beginning were put at different times; an object whose
\* memory replica was evicted before lives on on disk.
Init ==
  /\ clock = 2 * Cardinality(Key)
  /\ calls = 0
  /\ \E age \in [Key -> Ages], pinned \in SUBSET Key, disk \in SUBSET Key :
        /\ \A k1, k2 \in Key : k1 # k2 => age[k1] # age[k2]
        /\ Cardinality(disk) <= 1
        /\ obj = [k \in Key |->
              Object(IF k \in disk THEN "NONE" ELSE "COMPLETE", k \in disk, age[k],
                     IF k \in pinned THEN age[k] + SoftTTL ELSE 0)]
  /\ ev = [pc |-> "sleep"]

-----------------------------------------------------------------------------
(* The tests of BatchEvict, with the time now that it read when it began.   *)

IsLeaseExpired(k, now) == now >= obj[k].lease
IsSoftPinned(k, now) == obj[k].soft > now
HasIncompleteMem(k) == obj[k].mem = "PROCESSING"
HasMemReplica(k) == obj[k].mem # "NONE"

CeilPercent(n, pct) == (n * pct + 99) \div 100

\* The n-th smallest lease_timeout of a set of <<key, lease_timeout>> pairs.
NthLease(C, n) ==
  CHOOSE v \in {c[2] : c \in C} :
    /\ Cardinality({c \in C : c[2] < v}) < n
    /\ Cardinality({c \in C : c[2] <= v}) >= n

Entry(K) == {<<k, obj[k].lease>> : k \in K}

\* EraseReplica(MEMORY), and the entry goes if nothing is left.
Evict(G) ==
  obj' = [k \in Key |-> IF k \notin G THEN obj[k]
                        ELSE IF obj[k].disk THEN [obj[k] EXCEPT !.mem = "NONE"] ELSE Absent]

\* What a BatchEvict that begins now could evict.
Evictable(now) ==
  {k \in Objects : /\ IsLeaseExpired(k, now) /\ obj[k].mem = "COMPLETE"
                   /\ AllowSoftEvict \/ ~IsSoftPinned(k, now)}

\* EvictionThreadFunc: the ratios follow from the used ratio.
EvictStart ==
  /\ ev.pc = "sleep"
  /\ \E used \in UsedRatios, start \in 0 .. NumShards - 1 :
        LET over   == IF used > HighWatermark THEN used - HighWatermark ELSE 0
            target == over + EvictRatio
        IN  ev' = [pc |-> "pass1", i |-> 0, start |-> start, now |-> clock,
                   target |-> target, lower |-> Max2(target \div 2, over),
                   count |-> 0, evicted |-> 0, noPin |-> {}, softPin |-> {},
                   left |-> 0, limit |-> 0, pinnedGone |-> FALSE,
                   hopes |-> IF \A k \in Objects : HasMemReplica(k)
                             THEN Cardinality(Evictable(clock)) ELSE 0]
  /\ UNCHANGED <<obj, clock, calls>>

\* The condition of the loops over the shards, and the shard they are at.
ShardsLeft == ev.i < NumShards

Shard == (ev.start + ev.i) % NumShards

\* The objects of a shard without lease and without unfinished Put, and those
\* among them that are not soft-pinned.
Expired(sh) == {k \in KeysOf(sh) : IsLeaseExpired(k, ev.now) /\ ~HasIncompleteMem(k)}
Unpinned(sh) == {k \in Expired(sh) : ~IsSoftPinned(k, ev.now)}

\* One shard of the first pass.  An object without memory replica is counted as
\* a candidate but not evicted.
Pass1 ==
  LET sh     == Shard
      count  == ev.count + Cardinality(KeysOf(sh))
      quota  == CeilPercent(count, ev.target)
      ideal  == IF quota > ev.evicted THEN quota - ev.evicted ELSE 0
      cand   == Entry(Unpinned(sh))
      limit  == NthLease(cand, Min2(ideal, Cardinality(cand)))
      inMem  == {k \in Unpinned(sh) : HasMemReplica(k)}
      gone   == IF ideal > 0 /\ cand # {} THEN {k \in inMem : obj[k].lease <= limit} ELSE {}
      kept   == IF ideal > 0 THEN inMem \ gone ELSE Unpinned(sh)
      pinned == IF AllowSoftEvict THEN Expired(sh) \ Unpinned(sh) ELSE {}
  IN  /\ ev.pc = "pass1" /\ ShardsLeft
      /\ Evict(gone)
      /\ ev' = [ev EXCEPT !.i = @ + 1, !.count = count,
                          !.evicted = @ + Cardinality(gone),
                          !.noPin = @ \cup Entry(kept), !.softPin = @ \cup Entry(pinned)]
      /\ UNCHANGED <<clock, calls>>

\* Mutant: the quota is rounded down.
MissingRoundedDown ==
  LET quota == (ev.count * ev.lower) \div 100
  IN  Min2(IF quota > ev.evicted THEN quota - ev.evicted ELSE 0,
           Cardinality(ev.noPin) + Cardinality(ev.softPin))

\* Mutant: what the first pass evicted is not subtracted.
MissingAnew ==
  Min2(CeilPercent(ev.count, ev.lower), Cardinality(ev.noPin) + Cardinality(ev.softPin))

\* target_evict_num: what is missing to the lower bound, if there are candidates.
Missing ==
  LET quota == CeilPercent(ev.count, ev.lower)
      short == IF quota > ev.evicted THEN quota - ev.evicted ELSE 0
  IN  Min2(short, Cardinality(ev.noPin) + Cardinality(ev.softPin))

\* How many soft-pinned objects second pass B has to take.
SoftPinEvictNum(n) == n - Cardinality(ev.noPin)

\* Between the passes: second pass A, second pass B, or none.
ChoosePass2 ==
  LET n == Missing
      Second(pass, limit) == [ev EXCEPT !.pc = pass, !.i = 0, !.left = n, !.limit = limit]
  IN  /\ ev.pc = "pass1" /\ ~ShardsLeft
      /\ ev' = IF n = 0 THEN [ev EXCEPT !.pc = "done"]
               ELSE IF n <= Cardinality(ev.noPin) THEN Second("pass2A", NthLease(ev.noPin, n))
               ELSE IF ev.softPin # {}
                    THEN Second("pass2B", NthLease(ev.softPin, SoftPinEvictNum(n)))
               ELSE [ev EXCEPT !.pc = "error"]
      /\ UNCHANGED <<obj, clock, calls>>

\* Mutants: unfinished objects are not skipped in A, unpinned ones not preferred
\* in B.
TakenUnfinished(sh) ==
  {k \in KeysOf(sh) : obj[k].lease <= ev.limit /\ ~IsSoftPinned(k, ev.now) /\ HasMemReplica(k)}

TakenOldest(sh) ==
  {k \in KeysOf(sh) : /\ obj[k].lease <= ev.limit
                      /\ ~HasIncompleteMem(k) /\ HasMemReplica(k)}

\* What second pass A takes; it relies on the limit and not on IsLeaseExpired.
TakenByA(sh) ==
  {k \in KeysOf(sh) : /\ obj[k].lease <= ev.limit
                      /\ ~IsSoftPinned(k, ev.now)
                      /\ ~HasIncompleteMem(k)
                      /\ HasMemReplica(k)}

TakenByB(sh) ==
  {k \in KeysOf(sh) : /\ IsLeaseExpired(k, ev.now)
                      /\ ~HasIncompleteMem(k)
                      /\ HasMemReplica(k)
                      /\ ~IsSoftPinned(k, ev.now) \/ obj[k].lease <= ev.limit}

\* One shard of the second pass: the map is walked in no particular order until
\* enough objects are gone.
Pass2 ==
  LET may == IF ev.pc = "pass2A" THEN TakenByA(Shard) ELSE TakenByB(Shard)
  IN  /\ ev.pc \in {"pass2A", "pass2B"}
      /\ ShardsLeft /\ ev.left > 0
      /\ \E gone \in SUBSET may :
            /\ Cardinality(gone) = Min2(ev.left, Cardinality(may))
            /\ Evict(gone)
            /\ ev' = [ev EXCEPT !.i = @ + 1, !.left = @ - Cardinality(gone),
                                !.evicted = @ + Cardinality(gone),
                                !.pinnedGone = @ \/ \E k \in gone : IsSoftPinned(k, ev.now)]
      /\ UNCHANGED <<clock, calls>>

Pass2End ==
  /\ ev.pc \in {"pass2A", "pass2B"}
  /\ ~ShardsLeft \/ ev.left = 0
  /\ ev' = [ev EXCEPT !.pc = "done"]
  /\ UNCHANGED <<obj, clock, calls>>

\* The error branch of second pass B only logs.
Sleep ==
  /\ ev.pc \in {"done", "error"}
  /\ ev' = [pc |-> "sleep"]
  /\ UNCHANGED <<obj, clock, calls>>

-----------------------------------------------------------------------------
(* The calls of clients, each under the lock of one shard.                  *)

\* A call on k that leaves the metadata o.  An undisturbed BatchEvict has hopes.
Call(k, o) ==
  /\ calls < MaxCalls
  /\ calls' = calls + 1
  /\ clock' = clock + 2
  /\ obj' = [obj EXCEPT ![k] = o]
  /\ ev' = IF ev.pc = "sleep" THEN ev ELSE [ev EXCEPT !.hopes = 0]

\* GrantLease at the time of the call.
GrantLease(o, mem, ttl) ==
  Object(mem, o.disk, Max2(o.lease, clock + 2 + ttl),
         IF o.soft = 0 THEN 0 ELSE Max2(o.soft, clock + 2 + SoftTTL))

\* ExistKey or GetReplicaList.
Access(k) ==
  /\ obj[k].mem = "COMPLETE" \/ obj[k].disk
  /\ Call(k, GrantLease(obj[k], obj[k].mem, LeaseTTL))

PutStart(k, soft) ==
  /\ obj[k] = Absent
  /\ Call(k, Object("PROCESSING", FALSE, 0, IF soft THEN Unset ELSE 0))

PutEnd(k) ==
  /\ obj[k].mem = "PROCESSING"
  /\ Call(k, GrantLease(obj[k], "COMPLETE", 0))

Remove(k) ==
  /\ obj[k] # Absent /\ ~HasIncompleteMem(k)
  /\ IsLeaseExpired(k, clock + 2)
  /\ Call(k, Absent)

Next ==
  \/ EvictStart \/ Pass1 \/ ChoosePass2 \/ Pass2 \/ Pass2End \/ Sleep
  \/ \E k \in Key : Access(k) \/ PutEnd(k) \/ Remove(k) \/ \E soft \in BOOLEAN : PutStart(k, soft)

Spec == Init /\ [][Next]_vars

-----------------------------------------------------------------------------

\* The counters stay in range, the two lists of candidates hold different objects
\* and the branch of pass 2 that the code marks with "This should not happen" is
\* never reached.
EvictTypeOK ==
  /\ \A k \in Key : obj[k].mem \in {"NONE", "PROCESSING", "COMPLETE"}
  /\ calls \in 0 .. MaxCalls
  /\ ev.pc \in {"sleep", "pass1", "pass2A", "pass2B", "done"}
  /\ ev.pc # "sleep" =>
        /\ ev.i \in 0 .. NumShards /\ ev.now <= clock
        /\ ev.evicted \in 0 .. ev.count
        /\ {c[1] : c \in ev.noPin} \cap {c[1] : c \in ev.softPin} = {}

\* Only objects that may go are evicted, judged by the clock and not by the stale
\* time BatchEvict works with: the lease is over, no Put is under way, and a soft
\* pin is broken only in second pass B.  This is what MasterService assumes.
EvictAllowed ==
  [][\A k \in Key : calls' = calls /\ obj'[k] # obj[k] =>
        /\ IsLeaseExpired(k, clock)
        /\ obj[k].mem = "COMPLETE"
        /\ IsSoftPinned(k, clock) => AllowSoftEvict /\ ev.pc = "pass2B"]_vars

\* "Soft pinned objects are only evicted when [...] no other objects are eligible
\* for eviction" (design document): none is left at the end of such a run.
SoftPinLast ==
  ev.pc = "done" /\ ev.pinnedGone =>
    \A k \in Objects : obj[k].mem = "COMPLETE" /\ IsLeaseExpired(k, ev.now)
                         => IsSoftPinned(k, ev.now)

\* No more than the target ratio is evicted, over both passes and all shards, and
\* no loop leaves its shards (with the types of the evictor's state).
EvictBounded ==
  /\ EvictTypeOK
  /\ ev.pc = "done" => ev.evicted <= CeilPercent(ev.count, ev.target)

\* If nobody interferes and every object is in memory, the lower bound is reached
\* or everything that may go is gone.
EvictsEnough ==
  ev.pc = "done" => ev.evicted >= Min2(CeilPercent(ev.count, ev.lower), ev.hopes)
=============================================================================
