--------------------------- MODULE BatchEvictProofs ---------------------------
(***************************************************************************)
(* Proofs about BatchEvict, for any number of objects, shards and calls    *)
(* between the shards: only what may go is evicted (EvictAllowed), never   *)
(* more than the target (EvictBounded), soft-pinned objects last           *)
(* (SoftPinLast), and undisturbed enough (EvictsEnough).                   *)
(*                                                                         *)
(* The argument counts.  A candidate is an object whose Put has ended and  *)
(* whose lease was over when BatchEvict began; other calls can only take   *)
(* candidates away, since the leases they grant end later.  So the two     *)
(* lists of the first pass and the limits derived from them bound what the *)
(* second pass finds.                                                      *)
(***************************************************************************)
EXTENDS BatchEvict, FiniteSetTheorems, WellFoundedInduction, TLAPS

ObjRecord == [mem : {"NONE", "PROCESSING", "COMPLETE"}, disk : BOOLEAN, lease : Nat, soft : Nat]
EvRecord == [pc : {"pass1", "pass2A", "pass2B", "done"}, i : 0 .. NumShards,
             start : 0 .. NumShards - 1, now : Nat, target : Nat, lower : Nat,
             count : Nat, evicted : Nat, noPin : SUBSET (Key \X Nat),
             softPin : SUBSET (Key \X Nat), left : Nat, limit : Nat,
             pinnedGone : BOOLEAN, hopes : Nat]
Sleeping == [pc |-> "sleep"]

Types ==
  /\ obj \in [Key -> ObjRecord] /\ clock \in Nat /\ calls \in 0 .. MaxCalls
  /\ ev = Sleeping \/ (ev \in EvRecord /\ ev.now <= clock /\ ev.lower <= ev.target)

\* An object whose Put has ended.
Held(k) == obj[k] # Absent /\ obj[k].mem # "PROCESSING"

\* No two objects have the same lease_timeout.
Times ==
  /\ clock % 2 = 0
  /\ \A k \in Key : /\ obj[k].mem = "PROCESSING" => obj[k].lease = 0
                    /\ obj[k].mem # "NONE" => ~obj[k].disk
                    /\ Held(k) => \/ obj[k].lease % 2 = 0 /\ obj[k].lease <= clock
                                  \/ obj[k].lease % 2 = 1 /\ obj[k].lease <= clock + LeaseTTL
  /\ \A j, k \in Key : Held(j) /\ Held(k) /\ obj[j].lease = obj[k].lease => j = k

\* The candidates: other calls can only take objects away from them.
Cand(k) == obj[k].mem = "COMPLETE" /\ obj[k].lease <= ev.now
Pinned(k) == IsSoftPinned(k, ev.now)
\* A loop over the shards that began at s has passed the shard of k.
Reached(k, s, i) == \E j \in 0 .. i - 1 : ShardOf[k] = (s + j) % NumShards
Visited(k) == Reached(k, ev.start, ev.i)
Listed == ev.noPin \cup ev.softPin

\* The lists of the first pass.
Lists ==
  ev.pc # "sleep" =>
    /\ IsFiniteSet(ev.noPin) /\ IsFiniteSet(ev.softPin)
    /\ {c[1] : c \in ev.noPin} \cap {c[1] : c \in ev.softPin} = {}
    /\ ev.softPin # {} => AllowSoftEvict
    /\ \A c \in Listed : c[2] <= ev.now

Pass1Lists ==
  ev.pc = "pass1" =>
    /\ \A c \in Listed : /\ Visited(c[1])
                         /\ \A k \in Key : Held(k) /\ obj[k].lease = c[2] => k = c[1]
    /\ \A c, d \in Listed : c[2] = d[2] => c = d
    /\ \A k \in Key : Cand(k) /\ Visited(k) =>
          IF Pinned(k) THEN AllowSoftEvict => <<k, obj[k].lease>> \in ev.softPin
          ELSE <<k, obj[k].lease>> \in ev.noPin

\* What is evicted, with what still has to be.
Budget ==
  ev.pc # "sleep" =>
    /\ ev.evicted + ev.left <= ev.count
    /\ ev.evicted + ev.left <= CeilPercent(ev.count, ev.target)
    /\ ev.pc = "pass1" =>
          /\ ev.left = 0
          /\ ev.evicted + Cardinality(ev.noPin) + Cardinality(ev.softPin) <= ev.count

\* What the second pass will still come across and may take.
May(k) == /\ Cand(k)
          /\ IF ev.pc = "pass2A" THEN ~Pinned(k) /\ obj[k].lease <= ev.limit
             ELSE ~Pinned(k) \/ obj[k].lease <= ev.limit
Todo == {k \in Key : May(k) /\ ~Visited(k)}

Second ==
  /\ ev.pc = "pass2A" => ev.limit <= ev.now
  /\ ev.pc \in {"pass1", "pass2A"} => ~ev.pinnedGone
  /\ ev.pc = "pass2B" => /\ AllowSoftEvict /\ Cardinality(Todo) <= ev.left
                         /\ \A k \in Key : Cand(k) /\ Visited(k) => Pinned(k)
  /\ ev.pc = "done" /\ ev.pinnedGone => \A k \in Key : Cand(k) => Pinned(k)

\* Without calls in between nothing is missed.
Unseen == {k \in Key : Cand(k) /\ ~Visited(k) /\ (AllowSoftEvict \/ ~Pinned(k))}
Enough == Min2(CeilPercent(ev.count, ev.lower), ev.hopes)
Hope ==
  ev.pc # "sleep" /\ ev.hopes # 0 =>
    /\ \A k \in Key : obj[k] # Absent => obj[k].mem # "NONE"
    /\ ev.pc = "pass1" =>
          /\ \A c \in Listed : Cand(c[1]) /\ obj[c[1]].lease = c[2]
          /\ \A c \in ev.noPin : ~Pinned(c[1])
          /\ \A c \in ev.softPin : Pinned(c[1])
          /\ ev.hopes <= ev.evicted + Cardinality(ev.noPin) + Cardinality(ev.softPin)
                           + Cardinality(Unseen)
    /\ ev.pc \in {"pass2A", "pass2B"} =>
          ev.left <= Cardinality(Todo) /\ Enough <= ev.evicted + ev.left
    /\ ev.pc = "done" => Enough <= ev.evicted

EvictInv == Types /\ Times /\ Lists /\ Pass1Lists /\ Budget /\ Second /\ Hope

(***************************************************************************)
(* Facts about the operators.                                              *)
(***************************************************************************)
LEMMA KeyFinite == ASSUME NEW K \in SUBSET Key
                   PROVE  IsFiniteSet(K) /\ Cardinality(K) \in Nat
  <1>1. IsFiniteSet(Key)  BY EvictKeyAssumption
  <1>2. IsFiniteSet(K)  BY <1>1, FS_Subset
  <1> QED  BY <1>2, FS_CardinalityType

LEMMA KeyAdd == ASSUME NEW S \in SUBSET Key, NEW T \in SUBSET Key, S \cap T = {}
                PROVE  Cardinality(S \cup T) = Cardinality(S) + Cardinality(T)
  <1>1. IsFiniteSet(S) /\ IsFiniteSet(T) /\ Cardinality(S) \in Nat /\ Cardinality(T) \in Nat
    BY KeyFinite
  <1>2. Cardinality(S \cup T) = Cardinality(S) + Cardinality(T) - Cardinality(S \cap T)
    BY <1>1, FS_Union
  <1>3. Cardinality(S \cap T) = 0  BY FS_EmptySet
  <1> QED  BY <1>1, <1>2, <1>3

LEMMA KeyLess == ASSUME NEW S \in SUBSET Key, NEW T \in SUBSET S
                 PROVE  Cardinality(T) <= Cardinality(S)
  <1>1. IsFiniteSet(S)  BY KeyFinite
  <1> QED  BY <1>1, FS_Subset

\* A part of a set of keys that is as large as the set is all of it.
LEMMA KeySame == ASSUME NEW S \in SUBSET Key, NEW T \in SUBSET S, Cardinality(T) = Cardinality(S)
                 PROVE  T = S
  <1>1. S \ T \in SUBSET Key /\ T \in SUBSET Key /\ (S \ T) \cap T = {}  OBVIOUS
  <1>2. Cardinality((S \ T) \cup T) = Cardinality(S \ T) + Cardinality(T)  BY <1>1, KeyAdd
  <1>3. (S \ T) \cup T = S  OBVIOUS
  <1>4. Cardinality(S \ T) \in Nat /\ Cardinality(S) \in Nat  BY <1>1, KeyFinite
  <1>5. Cardinality(S) = Cardinality(S \ T) + Cardinality(T)  BY <1>2, <1>3, Zenon
  <1>6. Cardinality(S \ T) = 0  BY <1>4, <1>5
  <1>7. S \ T = {}  BY <1>1, <1>6, KeyFinite, FS_EmptySet
  <1> QED  BY <1>7

\* A list has as many entries as the objects it was made from.
LEMMA EntryCount == ASSUME NEW K \in SUBSET Key
                    PROVE  /\ IsFiniteSet(Entry(K)) /\ Cardinality(Entry(K)) = Cardinality(K)
                           /\ Cardinality(Entry(K)) \in Nat
  <1> DEFINE f == [k \in K |-> <<k, obj[k].lease>>]
  <1>1. f \in Bijection(K, Entry(K))
    <2>1. f \in [K -> Entry(K)]  BY DEF Entry
    <2>2. \A a, b \in K : f[a] = f[b] => a = b  OBVIOUS
    <2>3. \A t \in Entry(K) : \E s \in K : f[s] = t  BY DEF Entry
    <2> HIDE DEF f
    <2>4. f \in Injection(K, Entry(K))  BY <2>1, <2>2 DEF Injection, IsInjective
    <2>5. f \in Surjection(K, Entry(K))  BY <2>1, <2>3 DEF Surjection
    <2> QED  BY <2>4, <2>5 DEF Bijection
  <1>2. ExistsBijection(K, Entry(K))  BY <1>1 DEF ExistsBijection
  <1>3. IsFiniteSet(K) /\ Cardinality(K) \in Nat  BY KeyFinite
  <1>4. IsFiniteSet(Entry(K)) /\ Cardinality(Entry(K)) = Cardinality(K)  BY <1>2, <1>3, FS_Bijection
  <1> QED  BY <1>3, <1>4

\* Every non-empty set of numbers has a least one.
LEMMA Least == ASSUME NEW T \in SUBSET Nat, T # {} PROVE \E m \in T : \A y \in T : m <= y
  <1> DEFINE R == OpToRel(<, Nat)
  <1>1. IsWellFoundedOn(R, Nat)  BY NatLessThanWellFounded, Zenon
  <1>2. \A y, m \in Nat : y < m => <<y, m>> \in R  BY DEF OpToRel
  <1> HIDE DEF R
  <1>3. PICK m \in T : \A y \in T : ~(<<y, m>> \in R)  BY <1>1, WFMin
  <1>4. ASSUME NEW y \in T PROVE m <= y
    <2>1. ~(y < m)  BY <1>2, <1>3
    <2> QED  BY <2>1
  <1> QED  BY <1>4

\* nth_element: there is an n-th smallest lease_timeout.
LEMMA NthLeaseExists ==
  ASSUME NEW C \in SUBSET (Key \X Nat), IsFiniteSet(C), NEW b \in Nat, \A c \in C : c[2] <= b,
         NEW n \in 1 .. Cardinality(C)
  PROVE  /\ NthLease(C, n) \in Nat /\ NthLease(C, n) <= b
         /\ Cardinality({c \in C : c[2] < NthLease(C, n)}) < n
         /\ Cardinality({c \in C : c[2] <= NthLease(C, n)}) >= n
  <1> DEFINE Below(m) == {c \in C : c[2] <= m}
             T == {m \in Nat : Cardinality(Below(m)) >= n}
             Is(v) == /\ Cardinality({c \in C : c[2] < v}) < n
                      /\ Cardinality({c \in C : c[2] <= v}) >= n
  <1>0. Cardinality(C) \in Nat  BY FS_CardinalityType
  <1>1. \A m : Cardinality(Below(m)) \in Nat
    <2>1. ASSUME NEW m PROVE Cardinality(Below(m)) \in Nat
      <3>1. Below(m) \subseteq C  OBVIOUS
      <3>2. IsFiniteSet(Below(m))  BY <3>1, FS_Subset
      <3> QED  BY <3>2, FS_CardinalityType
    <2> QED  BY <2>1
  <1>2. b \in T
    <2>1. Below(b) = C  OBVIOUS
    <2> QED  BY <1>0, <2>1
  <1>3. PICK m \in T : \A y \in T : m <= y
    <2>1. T \in SUBSET Nat /\ T # {}  BY <1>2
    <2> HIDE DEF T
    <2> QED  BY <2>1, Least
  <1>4. Cardinality({c \in C : c[2] < m}) < n
    <2>1. CASE m = 0
      <3>1. {c \in C : c[2] < m} = {}  BY <2>1
      <3>2. Cardinality({c \in C : c[2] < m}) = 0  BY <3>1, FS_EmptySet
      <3> QED  BY <3>2
    <2>2. CASE m # 0
      <3>1. m - 1 \in Nat /\ m - 1 \notin T  BY <1>3, <2>2
      <3>2. {c \in C : c[2] < m} = Below(m - 1)  BY <1>3
      <3>3. ~(Cardinality(Below(m - 1)) >= n)  BY <3>1
      <3>4. Cardinality(Below(m - 1)) \in Nat  BY <1>1
      <3>5. Cardinality(Below(m - 1)) < n  BY <3>3, <3>4
      <3> HIDE DEF Below
      <3> QED  BY <3>2, <3>5, Zenon
    <2> QED  BY <2>1, <2>2
  <1>5. Is(m)  BY <1>3, <1>4
  <1>6. m \in {c[2] : c \in C}
    <2>1. {c \in C : c[2] < m} # Below(m)
      <3>1. Cardinality(Below(m)) >= n /\ Cardinality(Below(m)) \in Nat  BY <1>1, <1>3
      <3> HIDE DEF Below
      <3>2. CASE {c \in C : c[2] < m} = Below(m)
        <4>1. Cardinality(Below(m)) < n  BY <1>4, <3>2, Zenon
        <4> QED  BY <3>1, <4>1
      <3> QED  BY <3>2
    <2>2. PICK c \in C : c[2] <= m /\ ~(c[2] < m)  BY <2>1
    <2>3. c[2] = m  BY <1>3, <2>2
    <2> QED  BY <2>3
  <1>7. NthLease(C, n) = CHOOSE v \in {c[2] : c \in C} : Is(v)  BY DEF NthLease
  <1> DEFINE L == {c[2] : c \in C}
  <1>8. \A v \in L : v \in Nat /\ v <= b  OBVIOUS
  <1> HIDE DEF Is, L
  <1>9. NthLease(C, n) \in L /\ Is(NthLease(C, n))
    <2>1. NthLease(C, n) = CHOOSE v \in L : Is(v)  BY <1>7 DEF L
    <2>2. m \in L  BY <1>6 DEF L
    <2> QED  BY <1>5, <2>1, <2>2
  <1> QED  BY <1>8, <1>9 DEF Is

\* ... and if no two are equal, n of them are not later.
LEMMA NthLeaseExact ==
  ASSUME NEW C \in SUBSET (Key \X Nat), IsFiniteSet(C), NEW b \in Nat, \A c \in C : c[2] <= b,
         NEW n \in 1 .. Cardinality(C), \A c, d \in C : c[2] = d[2] => c = d
  PROVE  Cardinality({c \in C : c[2] <= NthLease(C, n)}) <= n
  <1> DEFINE v == NthLease(C, n)
             A == {c \in C : c[2] < v}
             D == {c \in C : c[2] = v}
             B == {c \in C : c[2] <= v}
  <1>1. v \in Nat /\ Cardinality(A) < n  BY NthLeaseExists
  <1>2. B = A \cup D  BY <1>1
  <1>3. IsFiniteSet(A) /\ IsFiniteSet(D)
    <2>1. A \subseteq C /\ D \subseteq C  OBVIOUS
    <2> QED  BY <2>1, FS_Subset
  <1>4. Cardinality(D) <= 1
    <2>1. CASE D = {}
      <3>1. Cardinality(D) = 0  BY ONLY <2>1, FS_EmptySet
      <3> QED  BY ONLY <3>1
    <2>2. CASE D # {}
      <3>1. PICK d \in D : TRUE  BY <2>2
      <3>2. D = {d}  BY <3>1
      <3> QED  BY <3>2, FS_Singleton
    <2> QED  BY <2>1, <2>2
  <1> HIDE DEF v, A, D, B
  <1>5. /\ Cardinality(A \cup D) = Cardinality(A) + Cardinality(D) - Cardinality(A \cap D)
        /\ Cardinality(A) \in Nat /\ Cardinality(D) \in Nat /\ Cardinality(A \cap D) \in Nat
    <2>1. IsFiniteSet(A \cap D)  BY <1>3, FS_Intersection
    <2> QED  BY <1>3, <2>1, FS_Union, FS_CardinalityType
  <1>6. Cardinality(A \cup D) <= n  BY <1>1, <1>4, <1>5
  <1> QED  BY <1>2, <1>6 DEF B, v

\* The quota grows with the number of objects and with the ratio.
LEMMA QuotaMonotone ==
  ASSUME NEW n \in Nat, NEW m \in Nat, NEW p \in Nat, NEW q \in Nat, n <= m, p <= q
  PROVE  /\ CeilPercent(n, p) \in Nat /\ CeilPercent(m, q) \in Nat
         /\ CeilPercent(n, p) <= CeilPercent(m, q)
  <1>1. n * p \in Nat /\ m * p \in Nat /\ m * q \in Nat  OBVIOUS
  <1>2. n * p <= m * p  OBVIOUS
  <1>3. m * p <= m * q  OBVIOUS
  <1> DEFINE a == n * p
             c == m * q
  <1>4. a \in Nat /\ c \in Nat /\ a <= c  BY <1>1, <1>2, <1>3
  <1> HIDE DEF a, c
  <1>5. (a + 99) \div 100 \in Nat /\ (c + 99) \div 100 \in Nat
        /\ (a + 99) \div 100 <= (c + 99) \div 100
    BY <1>4
  <1> QED  BY <1>5 DEF CeilPercent, a, c

(***************************************************************************)
(* The calls of clients.                                                   *)
(***************************************************************************)
\* What a call does: the object it changes is no candidate of a BatchEvict
\* that began before.
CallOf(k) ==
  /\ clock' = clock + 2 /\ calls' = calls + 1 /\ calls < MaxCalls
  /\ ev' = IF ev.pc = "sleep" THEN ev ELSE [ev EXCEPT !.hopes = 0]
  /\ obj' \in [Key -> ObjRecord]
  /\ \A j \in Key \ {k} : obj'[j] = obj[j]
  /\ obj'[k].mem = "PROCESSING" => obj'[k].lease = 0
  /\ obj'[k].mem # "NONE" => ~obj'[k].disk
  /\ Held(k)' => obj'[k].lease = clock + 2 \/ obj'[k].lease = clock + 2 + LeaseTTL

LEMMA CallEffect ==
  ASSUME Types, Times, NEW k \in Key,
         Access(k) \/ PutEnd(k) \/ Remove(k) \/ \E soft \in BOOLEAN : PutStart(k, soft)
  PROVE  CallOf(k)
  <1>0. /\ LeaseTTL \in Nat /\ SoftTTL \in Nat /\ clock \in Nat /\ obj[k] \in ObjRecord
        /\ obj \in [Key -> ObjRecord]
        /\ obj[k].lease <= clock + LeaseTTL \/ ~Held(k)
    <2>1. LeaseTTL \in Nat /\ SoftTTL \in Nat  BY EvictTimeAssumption
    <2>2. clock \in Nat /\ obj \in [Key -> ObjRecord]  BY DEF Types
    <2>3. obj[k] \in ObjRecord  BY ONLY <2>2, k \in Key
    <2>4. obj[k].lease \in Nat  BY ONLY <2>3 DEF ObjRecord
    <2>5. Held(k) => obj[k].lease <= clock \/ obj[k].lease <= clock + LeaseTTL  BY Zenon DEF Times
    <2>6. obj[k].lease <= clock + LeaseTTL \/ ~Held(k)  BY ONLY <2>1, <2>2, <2>4, <2>5
    <2> QED  BY ONLY <2>1, <2>2, <2>3, <2>6
  <1>1. ASSUME NEW o \in ObjRecord, Call(k, o),
               o.mem = "PROCESSING" => o.lease = 0, o.mem # "NONE" => ~o.disk,
               \/ o = Absent \/ o.mem = "PROCESSING"
               \/ o.lease = clock + 2 \/ o.lease = clock + 2 + LeaseTTL
        PROVE  CallOf(k)
    <2>1. obj' = [obj EXCEPT ![k] = o]  BY <1>1 DEF Call
    <2>2. obj' \in [Key -> ObjRecord] /\ obj'[k] = o /\ \A j \in Key \ {k} : obj'[j] = obj[j]
      BY <1>0, <1>1, <2>1
    <2>3. Held(k)' => o # Absent /\ o.mem # "PROCESSING"  BY <2>2 DEF Held
    <2> QED  BY <1>1, <2>2, <2>3 DEF Call, CallOf
  <1>2. CASE Access(k)
    <2> DEFINE o == GrantLease(obj[k], obj[k].mem, LeaseTTL)
    <2>1. obj[k].mem = "COMPLETE" \/ obj[k].disk  BY <1>2 DEF Access
    <2>2. obj[k].mem # "PROCESSING" /\ obj[k] # Absent  BY <2>1 DEF Times, Absent
    <2>3. obj[k].lease <= clock + 2 + LeaseTTL  BY <1>0, <2>2 DEF Held, ObjRecord
    <2>4. /\ o \in ObjRecord /\ o.lease = clock + 2 + LeaseTTL /\ o.mem = obj[k].mem
          /\ o.disk = obj[k].disk
      BY <1>0, <2>3 DEF GrantLease, Object, Max2, ObjRecord
    <2>5. Call(k, o)  BY <1>2 DEF Access
    <2> HIDE DEF o
    <2> QED  BY <1>1, <2>2, <2>4, <2>5 DEF Times
  <1>3. CASE PutEnd(k)
    <2> DEFINE o == GrantLease(obj[k], "COMPLETE", 0)
    <2>1. obj[k].mem = "PROCESSING"  BY <1>3 DEF PutEnd
    <2>2. obj[k].lease = 0 /\ ~obj[k].disk  BY <2>1 DEF Times
    <2>3. /\ o \in ObjRecord /\ o.lease = clock + 2 /\ o.mem = "COMPLETE" /\ o.disk = obj[k].disk
      BY <1>0, <2>2 DEF GrantLease, Object, Max2, ObjRecord
    <2>4. Call(k, o)  BY <1>3 DEF PutEnd
    <2> HIDE DEF o
    <2> QED  BY <1>1, <2>2, <2>3, <2>4
  <1>4. CASE Remove(k)
    <2>1. Call(k, Absent)  BY <1>4 DEF Remove
    <2>2. Absent \in ObjRecord /\ Absent.mem = "NONE"  BY DEF Absent, ObjRecord
    <2> QED  BY <1>1, <2>1, <2>2
  <1>5. ASSUME NEW soft \in BOOLEAN, PutStart(k, soft) PROVE CallOf(k)
    <2> DEFINE o == Object("PROCESSING", FALSE, 0, IF soft THEN Unset ELSE 0)
    <2>1. Call(k, o)  BY <1>5 DEF PutStart
    <2>2. o \in ObjRecord /\ o.mem = "PROCESSING" /\ o.lease = 0 /\ ~o.disk
      BY DEF Object, Unset, ObjRecord
    <2> HIDE DEF o
    <2> QED  BY <1>1, <2>1, <2>2
  <1> QED  BY <1>2, <1>3, <1>4, <1>5

(***************************************************************************)
(* The record of BatchEvict's variables.                                   *)
(***************************************************************************)
LEMMA DoneRecord ==
  ASSUME ev \in EvRecord, ev' = [ev EXCEPT !.pc = "done"]
  PROVE  /\ ev' \in EvRecord
         /\ ev'.pc = "done" /\ ev'.hopes = ev.hopes
         /\ ev'.i = ev.i /\ ev'.left = ev.left /\ ev'.limit = ev.limit
         /\ ev'.start = ev.start /\ ev'.now = ev.now /\ ev'.target = ev.target
         /\ ev'.lower = ev.lower /\ ev'.count = ev.count /\ ev'.noPin = ev.noPin
         /\ ev'.softPin = ev.softPin /\ ev'.evicted = ev.evicted /\ ev'.pinnedGone = ev.pinnedGone
  <1>1. ev'.pc = "done" /\ ev'.hopes = ev.hopes  BY DEF EvRecord
  <1>2. /\ ev'.i = ev.i /\ ev'.left = ev.left /\ ev'.limit = ev.limit
        /\ ev'.start = ev.start /\ ev'.now = ev.now /\ ev'.target = ev.target
        /\ ev'.lower = ev.lower /\ ev'.count = ev.count /\ ev'.noPin = ev.noPin
        /\ ev'.softPin = ev.softPin /\ ev'.evicted = ev.evicted /\ ev'.pinnedGone = ev.pinnedGone
    BY DEF EvRecord
  <1>3. ev' \in EvRecord  BY <1>1, <1>2 DEF EvRecord
  <1> QED  BY <1>1, <1>2, <1>3

LEMMA CallRecord ==
  ASSUME ev \in EvRecord, ev' = [ev EXCEPT !.hopes = 0]
  PROVE  /\ ev' \in EvRecord
         /\ ev'.pc = ev.pc /\ ev'.hopes = 0
         /\ ev'.i = ev.i /\ ev'.left = ev.left /\ ev'.limit = ev.limit
         /\ ev'.start = ev.start /\ ev'.now = ev.now /\ ev'.target = ev.target
         /\ ev'.lower = ev.lower /\ ev'.count = ev.count /\ ev'.noPin = ev.noPin
         /\ ev'.softPin = ev.softPin /\ ev'.evicted = ev.evicted /\ ev'.pinnedGone = ev.pinnedGone
  <1>1. ev'.pc = ev.pc /\ ev'.hopes = 0  BY DEF EvRecord
  <1>2. /\ ev'.i = ev.i /\ ev'.left = ev.left /\ ev'.limit = ev.limit
        /\ ev'.start = ev.start /\ ev'.now = ev.now /\ ev'.target = ev.target
        /\ ev'.lower = ev.lower /\ ev'.count = ev.count /\ ev'.noPin = ev.noPin
        /\ ev'.softPin = ev.softPin /\ ev'.evicted = ev.evicted /\ ev'.pinnedGone = ev.pinnedGone
    BY DEF EvRecord
  <1>3. ev' \in EvRecord  BY <1>1, <1>2 DEF EvRecord
  <1> QED  BY <1>1, <1>2, <1>3

(***************************************************************************)
(* The loop over the shards.                                               *)
(***************************************************************************)
\* It comes to every shard, and to none twice.
LEMMA ReachedSteps ==
  ASSUME NEW k \in Key, NEW s \in 0 .. NumShards - 1, NEW i \in 0 .. NumShards
  PROVE  /\ ~Reached(k, s, 0)
         /\ Reached(k, s, i + 1) <=> Reached(k, s, i) \/ ShardOf[k] = (s + i) % NumShards
         /\ i < NumShards /\ ShardOf[k] = (s + i) % NumShards => ~Reached(k, s, i)
         /\ Reached(k, s, NumShards)
  <1> DEFINE N == NumShards
             t == ShardOf[k]
  <1>0. N \in Nat /\ N > 0 /\ s \in Nat /\ s < N /\ i \in Nat /\ i <= N /\ t \in Nat /\ t < N
    BY EvictKeyAssumption
  <1>1. ~Reached(k, s, 0)  BY DEF Reached
  <1>2. Reached(k, s, i + 1) <=> Reached(k, s, i) \/ ShardOf[k] = (s + i) % NumShards
    <2>1. \A j : j \in 0 .. (i + 1) - 1 <=> j \in 0 .. i - 1 \/ j = i  BY <1>0
    <2> QED  BY <2>1 DEF Reached
  <1>3. ASSUME i < N, t = (s + i) % N, NEW j \in 0 .. i - 1, t = (s + j) % N PROVE FALSE
    <2>0. j \in Nat /\ j < i /\ s + i < N + N /\ s + j < N + N  BY <1>0, <1>3
    <2>1. \A x \in Nat : x < N => x % N = x  BY <1>0
    <2>2. \A x \in Nat : x >= N /\ x < N + N => x % N = x - N
      <3>1. ASSUME NEW x \in Nat, x >= N, x < N + N PROVE x % N = x - N
        <4>1. x - N \in Nat /\ x - N < N  BY <1>0, <3>1
        <4>2. x = (x - N) + N  BY <1>0
        <4>3. \A y \in Nat : y < N => (y + N) % N = y  BY <1>0
        <4> HIDE DEF N
        <4>4. ((x - N) + N) % N = x - N  BY <4>1, <4>3
        <4> QED  BY <4>2, <4>4
      <3> QED  BY <3>1
    <2> HIDE DEF N, t
    <2>3. CASE s + i < N  BY <1>0, <1>3, <2>0, <2>1, <2>3
    <2>4. CASE s + i >= N /\ s + j < N
      <3>1. (s + i) % N = s + i - N  BY <1>0, <2>0, <2>2, <2>4
      <3>2. (s + j) % N = s + j  BY <1>0, <2>0, <2>1, <2>4
      <3> QED  BY <1>0, <1>3, <2>0, <3>1, <3>2
    <2>5. CASE s + i >= N /\ s + j >= N
      <3>1. (s + i) % N = s + i - N  BY <1>0, <2>0, <2>2, <2>5
      <3>2. (s + j) % N = s + j - N  BY <1>0, <2>0, <2>2, <2>5
      <3> QED  BY <1>0, <1>3, <2>0, <3>1, <3>2
    <2> QED  BY <1>0, <2>0, <2>3, <2>4, <2>5
  <1>4. Reached(k, s, N)
    <2>1. \A x \in Nat : x < N => x % N = x /\ (x + N) % N = x  BY <1>0
    <2> HIDE DEF N, t
    <2>2. t % N = t /\ (t + N) % N = t  BY <1>0, <2>1
    <2>3. CASE t >= s
      <3>1. t - s \in 0 .. N - 1 /\ s + (t - s) = t  BY <1>0, <2>3
      <3>2. (s + (t - s)) % N = t  BY <2>2, <3>1
      <3> QED  BY <3>1, <3>2 DEF Reached, t, N
    <2>4. CASE t < s
      <3>1. t + N - s \in 0 .. N - 1 /\ s + (t + N - s) = t + N  BY <1>0, <2>4
      <3>2. (s + (t + N - s)) % N = t  BY <2>2, <3>1
      <3> QED  BY <3>1, <3>2 DEF Reached, t, N
    <2> QED  BY <1>0, <2>3, <2>4
  <1> QED  BY <1>1, <1>2, <1>3, <1>4 DEF Reached

(***************************************************************************)
(* The steps of BatchEvict.                                                *)
(***************************************************************************)
\* An object that loses its memory replica has no other.
LEMMA EvictEffect ==
  ASSUME Types, Times, NEW G \in SUBSET Key, \A k \in G : obj[k].mem = "COMPLETE", Evict(G)
  PROVE  /\ obj' = [k \in Key |-> IF k \in G THEN Absent ELSE obj[k]]
         /\ obj' \in [Key -> ObjRecord]
  <1>1. \A k \in G : obj[k].disk = FALSE  BY DEF Times, Types, ObjRecord
  <1>2. obj' = [k \in Key |-> IF k \in G THEN Absent ELSE obj[k]]  BY <1>1 DEF Evict
  <1>3. Absent \in ObjRecord  BY DEF Absent, ObjRecord
  <1> QED  BY <1>2, <1>3 DEF Types

LEMMA RecordNotSleeping == Sleeping.pc = "sleep" /\ \A e \in EvRecord : e.pc # "sleep"
  BY DEF Sleeping, EvRecord

LEMMA StartEffect ==
  ASSUME Types, EvictStart
  PROVE  /\ UNCHANGED <<obj, clock, calls>> /\ ev' \in EvRecord
         /\ ev'.pc = "pass1" /\ ev'.i = 0 /\ ev'.now = clock /\ ev'.lower <= ev'.target
         /\ ev'.count = 0 /\ ev'.evicted = 0 /\ ev'.left = 0 /\ ev'.pinnedGone = FALSE
         /\ ev'.noPin = {} /\ ev'.softPin = {}
         /\ ev'.hopes = IF \A k \in Objects : HasMemReplica(k)
                        THEN Cardinality(Evictable(clock)) ELSE 0
  <1> DEFINE hopes == IF \A k \in Objects : HasMemReplica(k)
                      THEN Cardinality(Evictable(clock)) ELSE 0
             over(used)   == IF used > HighWatermark THEN used - HighWatermark ELSE 0
             target(used) == over(used) + EvictRatio
             lower(used)  == Max2(target(used) \div 2, over(used))
  <1>1. hopes \in Nat
    <2>1. Evictable(clock) \in SUBSET Key  BY DEF Evictable, Objects
    <2>2. Cardinality(Evictable(clock)) \in Nat  BY <2>1, KeyFinite
    <2> QED  BY <2>2
  <1> HIDE DEF hopes
  <1>2. PICK used \in UsedRatios, start \in 0 .. NumShards - 1 :
          ev' = [pc |-> "pass1", i |-> 0, start |-> start, now |-> clock,
                 target |-> target(used), lower |-> lower(used),
                 count |-> 0, evicted |-> 0, noPin |-> {}, softPin |-> {},
                 left |-> 0, limit |-> 0, pinnedGone |-> FALSE, hopes |-> hopes]
    BY DEF EvictStart, hopes
  <1>3. used \in Nat /\ HighWatermark \in Nat /\ EvictRatio \in Nat  BY RatioAssumption
  <1>4. over(used) \in Nat  BY <1>3
  <1>5. target(used) \in Nat /\ over(used) <= target(used)  BY <1>3, <1>4
  <1> HIDE DEF over, target
  <1>6. target(used) \div 2 \in Nat /\ target(used) \div 2 <= target(used)  BY <1>5
  <1>7. lower(used) \in Nat /\ lower(used) <= target(used)  BY <1>4, <1>5, <1>6 DEF Max2
  <1> HIDE DEF lower
  <1>8. 0 \in 0 .. NumShards /\ clock \in Nat  BY EvictKeyAssumption DEF Types
  <1>9. ev' \in EvRecord  BY <1>1, <1>2, <1>5, <1>7, <1>8 DEF EvRecord
  <1>10. /\ ev'.pc = "pass1" /\ ev'.i = 0 /\ ev'.now = clock /\ ev'.lower <= ev'.target
         /\ ev'.count = 0 /\ ev'.evicted = 0 /\ ev'.left = 0 /\ ev'.pinnedGone = FALSE
         /\ ev'.noPin = {} /\ ev'.softPin = {} /\ ev'.hopes = hopes
    BY <1>2, <1>7
  <1>11. UNCHANGED <<obj, clock, calls>>  BY DEF EvictStart
  <1> QED  BY <1>9, <1>10, <1>11 DEF hopes

Here(k) == ShardOf[k] = Shard

\* One shard of the first pass: gone goes, kept and pinned are noted.
Pass1Of(gone, kept, pinned) ==
  /\ ev \in EvRecord /\ ev.pc = "pass1" /\ ev.i < NumShards
  /\ gone \in SUBSET Key /\ kept \in SUBSET Key /\ pinned \in SUBSET Key
  /\ gone \cap kept = {} /\ gone \cap pinned = {} /\ kept \cap pinned = {}
  /\ \A k \in gone \cup kept \cup pinned : Here(k) /\ Held(k) /\ obj[k].lease <= ev.now
  /\ \A k \in gone : Cand(k)
  /\ \A k \in gone \cup kept : ~Pinned(k)
  /\ \A k \in pinned : Pinned(k) /\ AllowSoftEvict
  /\ \A k \in Key : Cand(k) /\ Here(k) =>
        IF Pinned(k) THEN AllowSoftEvict => k \in pinned ELSE k \in gone \cup kept
  /\ obj' = [k \in Key |-> IF k \in gone THEN Absent ELSE obj[k]]
  /\ obj' \in [Key -> ObjRecord] /\ UNCHANGED <<clock, calls>>
  /\ ev' \in EvRecord
  /\ ev'.i = ev.i + 1 /\ ev'.evicted = ev.evicted + Cardinality(gone)
  /\ ev'.noPin = ev.noPin \cup Entry(kept) /\ ev'.softPin = ev.softPin \cup Entry(pinned)
  /\ ev'.pc = "pass1" /\ ev'.start = ev.start /\ ev'.now = ev.now /\ ev'.target = ev.target
  /\ ev'.lower = ev.lower /\ ev'.left = ev.left /\ ev'.limit = ev.limit
  /\ ev'.pinnedGone = ev.pinnedGone /\ ev'.hopes = ev.hopes
  /\ ev.count <= ev'.count
  /\ ev.count + Cardinality(gone) + Cardinality(kept) + Cardinality(pinned) <= ev'.count
  /\ ev'.evicted <= CeilPercent(ev'.count, ev.target)

LEMMA Pass1Effect ==
  ASSUME Types, Times, Budget, Pass1
  PROVE  \E gone, kept, pinned \in SUBSET Key : Pass1Of(gone, kept, pinned)
  <1> DEFINE sh     == Shard
             count  == ev.count + Cardinality(KeysOf(sh))
             quota  == CeilPercent(count, ev.target)
             ideal  == IF quota > ev.evicted THEN quota - ev.evicted ELSE 0
             cand   == Entry(Unpinned(sh))
             limit  == NthLease(cand, Min2(ideal, Cardinality(cand)))
             inMem  == {k \in Unpinned(sh) : HasMemReplica(k)}
             gone   == IF ideal > 0 /\ cand # {} THEN {k \in inMem : obj[k].lease <= limit} ELSE {}
             kept   == IF ideal > 0 THEN inMem \ gone ELSE Unpinned(sh)
             pinned == IF AllowSoftEvict THEN Expired(sh) \ Unpinned(sh) ELSE {}
  <1>1. /\ ev.pc = "pass1" /\ ev.i < NumShards /\ Evict(gone) /\ UNCHANGED <<clock, calls>>
        /\ ev' = [ev EXCEPT !.i = @ + 1, !.count = count, !.evicted = @ + Cardinality(gone),
                            !.noPin = @ \cup Entry(kept), !.softPin = @ \cup Entry(pinned)]
    BY DEF Pass1, ShardsLeft
  <1>2. ev \in EvRecord  BY <1>1, RecordNotSleeping DEF Types
  <1>3. KeysOf(sh) \in SUBSET Key /\ Expired(sh) \in SUBSET KeysOf(sh)
        /\ Unpinned(sh) \in SUBSET Expired(sh) /\ inMem \in SUBSET Unpinned(sh)
    BY DEF KeysOf, Objects, Expired, Unpinned
  <1>4. \A k \in Expired(sh) : Here(k) /\ Held(k) /\ obj[k].lease <= ev.now
    <2>1. ev.now \in Nat /\ \A k \in Key : obj[k].lease \in Nat  BY <1>2 DEF EvRecord, Types, ObjRecord
    <2> QED
      BY <1>3, <2>1
      DEF Expired, KeysOf, Objects, Here, Held, IsLeaseExpired, HasIncompleteMem
  <1>5. \A k \in Unpinned(sh) : ~Pinned(k)  BY DEF Unpinned, Pinned
  <1>6. \A k \in Expired(sh) \ Unpinned(sh) : Pinned(k)  BY DEF Unpinned, Pinned
  <1>7. \A k \in Key : Cand(k) /\ Here(k) => k \in Expired(sh) /\ HasMemReplica(k)
    <2>1. ev.now \in Nat /\ \A k \in Key : obj[k].lease \in Nat  BY <1>2 DEF EvRecord, Types, ObjRecord
    <2> QED
      BY <2>1
      DEF Expired, KeysOf, Objects, Here, Cand, IsLeaseExpired, HasIncompleteMem, Absent, HasMemReplica
  <1>8. \A k \in inMem : Cand(k)
    <2>1. \A k \in inMem : obj[k].mem \in {"NONE", "PROCESSING", "COMPLETE"}  BY <1>3 DEF Types, ObjRecord
    <2> QED  BY <1>3, <1>4, <2>1 DEF Held, Cand, HasMemReplica
  <1>9. gone \in SUBSET inMem /\ kept \in SUBSET (Unpinned(sh) \ gone)
        /\ pinned \in SUBSET (Expired(sh) \ Unpinned(sh)) /\ inMem \subseteq gone \cup kept
        /\ (AllowSoftEvict => pinned = Expired(sh) \ Unpinned(sh)) /\ (pinned # {} => AllowSoftEvict)
    <2>1. gone \in SUBSET inMem  OBVIOUS
    <2>2. ~(ideal > 0) => gone = {}  OBVIOUS
    <2>3. kept = IF ideal > 0 THEN inMem \ gone ELSE Unpinned(sh)  OBVIOUS
    <2> HIDE DEF gone, ideal, inMem, kept
    <2> QED  BY <1>3, <2>1, <2>2, <2>3
  <1> HIDE DEF kept, pinned
  <1>10. /\ gone \in SUBSET Key /\ kept \in SUBSET Key /\ pinned \in SUBSET Key
         /\ gone \cap kept = {} /\ gone \cap pinned = {} /\ kept \cap pinned = {}
         /\ gone \subseteq KeysOf(sh) /\ kept \subseteq KeysOf(sh) /\ pinned \subseteq KeysOf(sh)
    <2> HIDE DEF gone, inMem
    <2> QED  BY <1>3, <1>9
  <1>11. Cardinality(gone) \in Nat /\ Cardinality(kept) \in Nat /\ Cardinality(pinned) \in Nat
         /\ Cardinality(KeysOf(sh)) \in Nat
    BY <1>3, <1>10, KeyFinite
  <1>12. Cardinality(gone) + Cardinality(kept) + Cardinality(pinned) <= Cardinality(KeysOf(sh))
    <2> HIDE DEF gone
    <2>1. gone \cup kept \in SUBSET Key /\ (gone \cup kept) \cap pinned = {}
          /\ (gone \cup kept) \cup pinned \in SUBSET KeysOf(sh)  BY <1>10
    <2>2. Cardinality(gone \cup kept) = Cardinality(gone) + Cardinality(kept)  BY <1>10, KeyAdd
    <2>3. Cardinality((gone \cup kept) \cup pinned) = Cardinality(gone \cup kept) + Cardinality(pinned)
      BY <1>10, <2>1, KeyAdd
    <2>4. Cardinality((gone \cup kept) \cup pinned) <= Cardinality(KeysOf(sh))  BY <1>3, <2>1, KeyLess
    <2> QED  BY <1>11, <2>2, <2>3, <2>4
  <1>13. Entry(kept) \in SUBSET (Key \X Nat) /\ Entry(pinned) \in SUBSET (Key \X Nat)
    BY <1>10 DEF Entry, Types, ObjRecord
  <1>14. count \in Nat /\ ev.count \in Nat /\ ev.target \in Nat /\ ev.evicted \in Nat
    BY <1>2, <1>11 DEF EvRecord
  <1>15. ev.evicted + Cardinality(gone) <= quota
    <2>1. ev.evicted <= CeilPercent(ev.count, ev.target)
      <3>1. ev.left = 0 /\ ev.evicted + ev.left <= CeilPercent(ev.count, ev.target)  BY <1>1 DEF Budget
      <3> QED  BY <1>14, <3>1
    <2>2. quota \in Nat /\ CeilPercent(ev.count, ev.target) \in Nat /\ ev.evicted <= quota
      <3>1. ev.count <= count  BY <1>11, <1>14
      <3> HIDE DEF count
      <3>2. CeilPercent(count, ev.target) \in Nat /\ CeilPercent(ev.count, ev.target) \in Nat
            /\ CeilPercent(ev.count, ev.target) <= CeilPercent(count, ev.target)
        <4>1. ev.target <= ev.target  BY <1>14
        <4> QED  BY <1>14, <3>1, <4>1, QuotaMonotone
      <3> QED  BY <1>14, <2>1, <3>2
    <2>3. CASE ideal > 0 /\ cand # {}
      <3> HIDE DEF quota
      <3>1. ideal \in Nat /\ ideal = quota - ev.evicted  BY <1>14, <2>2, <2>3
      <3>2. cand \in SUBSET (Key \X Nat) /\ IsFiniteSet(cand) /\ Cardinality(cand) \in Nat
            /\ \A c \in cand : c[2] <= ev.now
        <4>1. Unpinned(sh) \in SUBSET Key  BY <1>3
        <4>2. IsFiniteSet(cand) /\ Cardinality(cand) \in Nat  BY <4>1, EntryCount
        <4>3. cand \in SUBSET (Key \X Nat)  BY <4>1 DEF Entry, Types, ObjRecord
        <4>4. \A c \in cand : c[2] <= ev.now  BY <1>3, <1>4 DEF Entry
        <4> QED  BY <4>2, <4>3, <4>4
      <3>3. \A c, d \in cand : c[2] = d[2] => c = d
        <4>1. \A j, k \in Unpinned(sh) : obj[j].lease = obj[k].lease => j = k
          BY <1>3, <1>4 DEF Times
        <4> QED  BY <4>1 DEF Entry
      <3>4. Cardinality(cand) # 0  BY <2>3, <3>2, FS_EmptySet
      <3> HIDE DEF ideal, cand
      <3> DEFINE n == Min2(ideal, Cardinality(cand))
      <3>5. n \in 1 .. Cardinality(cand) /\ n <= ideal  BY <2>3, <3>1, <3>2, <3>4 DEF Min2
      <3>6. ev.now \in Nat  BY <1>2 DEF EvRecord
      <3> HIDE DEF n
      <3>7. Cardinality({c \in cand : c[2] <= NthLease(cand, n)}) <= n
        BY <3>2, <3>3, <3>5, <3>6, NthLeaseExact
      <3> DEFINE taken == {c \in cand : c[2] <= NthLease(cand, n)}
      <3>8. Entry(gone) \subseteq taken
        <4>1. gone = {k \in inMem : obj[k].lease <= NthLease(cand, n)}  BY <2>3 DEF n
        <4> QED  BY <1>3, <4>1 DEF Entry, cand
      <3>9. IsFiniteSet(taken)
        <4>1. taken \subseteq cand  OBVIOUS
        <4> QED  BY <3>2, <4>1, FS_Subset
      <3> HIDE DEF gone, taken
      <3>10. Cardinality(Entry(gone)) <= Cardinality(taken) /\ Cardinality(taken) \in Nat
        BY <3>8, <3>9, FS_Subset, FS_CardinalityType
      <3>11. Cardinality(Entry(gone)) = Cardinality(gone)  BY <1>10, EntryCount
      <3>12. Cardinality(taken) <= n  BY <3>7 DEF taken
      <3>13. Cardinality(gone) <= ideal  BY <1>11, <3>1, <3>5, <3>10, <3>11, <3>12
      <3> QED  BY <1>11, <1>14, <2>2, <3>1, <3>13
    <2>4. CASE ~(ideal > 0 /\ cand # {})
      <3>1. gone = {}  BY <2>4
      <3>2. Cardinality(gone) = 0  BY <3>1, FS_EmptySet
      <3> QED  BY <1>14, <2>2, <3>2
    <2> QED  BY <2>3, <2>4
  <1>16. /\ obj' = [k \in Key |-> IF k \in gone THEN Absent ELSE obj[k]]
         /\ obj' \in [Key -> ObjRecord]
    <2>1. \A k \in gone : obj[k].mem = "COMPLETE"  BY <1>8, <1>9 DEF Cand
    <2> HIDE DEF gone
    <2> QED  BY <1>1, <1>10, <2>1, EvictEffect
  <1>17. \A k \in gone \cup kept \cup pinned : Here(k) /\ Held(k) /\ obj[k].lease <= ev.now
    <2>1. \A k \in gone \cup kept \cup pinned : k \in Expired(sh)
      <3> HIDE DEF gone, inMem
      <3> QED  BY <1>3, <1>9
    <2> QED  BY <1>4, <2>1
  <1>18. \A k \in gone : Cand(k)  BY <1>8, <1>9
  <1>19. /\ \A k \in gone \cup kept : ~Pinned(k)
         /\ \A k \in pinned : Pinned(k) /\ AllowSoftEvict
    <2> HIDE DEF gone, inMem
    <2> QED  BY <1>3, <1>5, <1>6, <1>9
  <1>20. \A k \in Key : Cand(k) /\ Here(k) =>
            IF Pinned(k) THEN AllowSoftEvict => k \in pinned ELSE k \in gone \cup kept
    <2>1. \A k \in Key : Cand(k) /\ Here(k) /\ ~Pinned(k) => k \in inMem
      BY <1>6, <1>7
    <2>2. \A k \in Key : Cand(k) /\ Here(k) /\ Pinned(k) => k \in Expired(sh) \ Unpinned(sh)
      BY <1>5, <1>7
    <2> HIDE DEF gone, inMem
    <2> QED  BY <1>9, <2>1, <2>2
  <1> HIDE DEF gone, quota
  <1>21. /\ ev' \in EvRecord /\ ev'.count = count
         /\ ev'.i = ev.i + 1 /\ ev'.evicted = ev.evicted + Cardinality(gone)
         /\ ev'.noPin = ev.noPin \cup Entry(kept) /\ ev'.softPin = ev.softPin \cup Entry(pinned)
         /\ ev'.pc = ev.pc /\ ev'.start = ev.start /\ ev'.now = ev.now /\ ev'.target = ev.target
         /\ ev'.lower = ev.lower /\ ev'.left = ev.left /\ ev'.limit = ev.limit
         /\ ev'.pinnedGone = ev.pinnedGone /\ ev'.hopes = ev.hopes
    <2> DEFINE g == Cardinality(gone)
               S == Entry(kept)
               T == Entry(pinned)
    <2>1. g \in Nat /\ count \in Nat /\ S \in SUBSET (Key \X Nat) /\ T \in SUBSET (Key \X Nat)
          /\ ev.i < NumShards
      BY <1>1, <1>11, <1>13, <1>14
    <2>2. ev' = [ev EXCEPT !.i = @ + 1, !.count = count, !.evicted = @ + g,
                           !.noPin = @ \cup S, !.softPin = @ \cup T]
      BY <1>1
    <2> HIDE DEF count, g, S, T
    <2>3. /\ ev'.i = ev.i + 1 /\ ev'.count = count /\ ev'.evicted = ev.evicted + g
          /\ ev'.noPin = ev.noPin \cup S /\ ev'.softPin = ev.softPin \cup T
      BY <1>2, <2>2 DEF EvRecord
    <2>4. /\ ev'.pc = ev.pc /\ ev'.start = ev.start /\ ev'.now = ev.now /\ ev'.target = ev.target
          /\ ev'.lower = ev.lower /\ ev'.left = ev.left /\ ev'.limit = ev.limit
          /\ ev'.pinnedGone = ev.pinnedGone /\ ev'.hopes = ev.hopes
      BY <1>2, <2>2 DEF EvRecord
    <2>5. ev.i + 1 \in 0 .. NumShards /\ ev.evicted + g \in Nat
      BY <1>2, <2>1, EvictKeyAssumption DEF EvRecord
    <2>6. ev' \in EvRecord
      <3>1. /\ ev.noPin \cup S \in SUBSET (Key \X Nat) /\ ev.softPin \cup T \in SUBSET (Key \X Nat)
        BY <1>2, <2>1 DEF EvRecord
      <3>2. ev' = [pc |-> ev.pc, i |-> ev.i + 1, start |-> ev.start, now |-> ev.now,
                   target |-> ev.target, lower |-> ev.lower, count |-> count,
                   evicted |-> ev.evicted + g, noPin |-> ev.noPin \cup S,
                   softPin |-> ev.softPin \cup T, left |-> ev.left, limit |-> ev.limit,
                   pinnedGone |-> ev.pinnedGone, hopes |-> ev.hopes]
        BY <1>2, <2>2 DEF EvRecord
      <3> QED  BY <1>2, <2>1, <2>5, <3>1, <3>2 DEF EvRecord
    <2> QED  BY <2>3, <2>4, <2>6 DEF g, S, T
  <1>22. /\ ev.count <= ev'.count
         /\ ev.count + Cardinality(gone) + Cardinality(kept) + Cardinality(pinned) <= ev'.count
    BY <1>11, <1>12, <1>14, <1>21
  <1>23. ev'.evicted <= CeilPercent(ev'.count, ev.target)  BY <1>15, <1>21 DEF quota
  <1> HIDE DEF count, sh
  <1>24. Pass1Of(gone, kept, pinned)
    BY <1>1, <1>2, <1>10, <1>16, <1>17, <1>18, <1>19, <1>20, <1>21, <1>22, <1>23 DEF Pass1Of
  <1> QED  BY <1>10, <1>24

\* What the second pass may take of the shard it is at.
Takeable == {k \in Todo : Here(k)}

\* One shard of the second pass: gone goes.
Pass2Of(gone) ==
  /\ ev \in EvRecord /\ ev.pc \in {"pass2A", "pass2B"} /\ ev.i < NumShards
  /\ gone \in SUBSET Takeable /\ Cardinality(gone) = Min2(ev.left, Cardinality(Takeable))
  /\ obj' = [k \in Key |-> IF k \in gone THEN Absent ELSE obj[k]]
  /\ obj' \in [Key -> ObjRecord] /\ UNCHANGED <<clock, calls>>
  /\ ev' \in EvRecord
  /\ ev'.i = ev.i + 1 /\ ev'.left = ev.left - Cardinality(gone)
  /\ ev'.evicted = ev.evicted + Cardinality(gone)
  /\ ev'.pinnedGone => ev.pinnedGone \/ \E k \in gone : Pinned(k)
  /\ ev'.pc = ev.pc /\ ev'.start = ev.start /\ ev'.now = ev.now /\ ev'.target = ev.target
  /\ ev'.lower = ev.lower /\ ev'.count = ev.count /\ ev'.noPin = ev.noPin
  /\ ev'.softPin = ev.softPin /\ ev'.limit = ev.limit /\ ev'.hopes = ev.hopes

LEMMA Pass2Effect ==
  ASSUME Types, Times, Second, Pass2
  PROVE  \E gone \in SUBSET Key : Pass2Of(gone)
  <1> DEFINE may == IF ev.pc = "pass2A" THEN TakenByA(Shard) ELSE TakenByB(Shard)
  <1>1. /\ ev.pc \in {"pass2A", "pass2B"} /\ ev.i < NumShards /\ UNCHANGED <<clock, calls>>
        /\ \E gone \in SUBSET may :
             /\ Cardinality(gone) = Min2(ev.left, Cardinality(may))
             /\ Evict(gone)
             /\ ev' = [ev EXCEPT !.i = @ + 1, !.left = @ - Cardinality(gone),
                                 !.evicted = @ + Cardinality(gone),
                                 !.pinnedGone = @ \/ \E k \in gone : IsSoftPinned(k, ev.now)]
    BY Zenon DEF Pass2, ShardsLeft
  <1>2. ev \in EvRecord  BY <1>1, RecordNotSleeping DEF Types
  <1>3. may = Takeable
    <2>1. ev.now \in Nat /\ ev.limit \in Nat /\ ev.i \in Nat  BY <1>2 DEF EvRecord
    <2>2. \A k \in Key : /\ obj[k].lease \in Nat
                         /\ obj[k].mem \in {"NONE", "PROCESSING", "COMPLETE"}
      BY DEF Types, ObjRecord
    <2>3. \A k \in Key : Here(k) => ~Visited(k)
      BY <1>1, <1>2, ReachedSteps DEF EvRecord, Here, Visited, Shard
    <2>4. \A k \in Key : obj[k].mem = "COMPLETE" => obj[k] # Absent  BY DEF Absent
    <2>5. CASE ev.pc = "pass2A"
      <3>1. ev.limit <= ev.now  BY <2>5 DEF Second
      <3>2. \A k \in Key : k \in TakenByA(Shard) <=> k \in Takeable
        BY <2>1, <2>2, <2>3, <2>4, <2>5, <3>1
        DEF TakenByA, Takeable, Todo, May, Cand, Pinned, KeysOf, Objects, Here,
            HasIncompleteMem, HasMemReplica
      <3>3. TakenByA(Shard) \in SUBSET Key /\ Takeable \in SUBSET Key
        BY DEF TakenByA, Takeable, Todo, KeysOf, Objects
      <3> QED  BY <2>5, <3>2, <3>3
    <2>6. CASE ev.pc = "pass2B"
      <3>1. \A k \in Key : k \in TakenByB(Shard) <=> k \in Takeable
        BY <2>1, <2>2, <2>3, <2>4, <2>6
        DEF TakenByB, Takeable, Todo, May, Cand, Pinned, KeysOf, Objects, Here,
            HasIncompleteMem, HasMemReplica, IsLeaseExpired
      <3>2. TakenByB(Shard) \in SUBSET Key /\ Takeable \in SUBSET Key
        BY DEF TakenByB, Takeable, Todo, KeysOf, Objects
      <3> QED  BY <2>6, <3>1, <3>2
    <2> QED  BY <1>1, <2>5, <2>6
  <1> HIDE DEF may
  <1>4. PICK gone \in SUBSET Takeable :
          /\ Cardinality(gone) = Min2(ev.left, Cardinality(Takeable))
          /\ Evict(gone)
          /\ ev' = [ev EXCEPT !.i = @ + 1, !.left = @ - Cardinality(gone),
                              !.evicted = @ + Cardinality(gone),
                              !.pinnedGone = @ \/ \E k \in gone : IsSoftPinned(k, ev.now)]
    BY <1>1, <1>3, Zenon
  <1>5. gone \in SUBSET Key /\ Takeable \in SUBSET Key /\ \A k \in gone : obj[k].mem = "COMPLETE"
    BY <1>4 DEF Takeable, Todo, May, Cand
  <1>6. /\ obj' = [k \in Key |-> IF k \in gone THEN Absent ELSE obj[k]]
        /\ obj' \in [Key -> ObjRecord]
    BY <1>4, <1>5, EvictEffect
  <1> DEFINE g == Cardinality(gone)
             b == \E k \in gone : Pinned(k)
  <1>7. g \in Nat /\ Cardinality(Takeable) \in Nat  BY <1>5, KeyFinite
  <1>8. g <= ev.left
    <2>1. ev.left \in Nat  BY <1>2 DEF EvRecord
    <2> QED  BY <1>4, <1>7, <2>1 DEF Min2
  <1>9. ev' = [ev EXCEPT !.i = @ + 1, !.left = @ - g, !.evicted = @ + g, !.pinnedGone = @ \/ b]
    BY <1>4 DEF Pinned
  <1>10. b \in BOOLEAN  OBVIOUS
  <1> HIDE DEF g, b
  <1>11. /\ ev' \in EvRecord
         /\ ev'.i = ev.i + 1 /\ ev'.left = ev.left - g /\ ev'.evicted = ev.evicted + g
         /\ ev'.pinnedGone = (ev.pinnedGone \/ b)
         /\ ev'.pc = ev.pc /\ ev'.start = ev.start /\ ev'.now = ev.now /\ ev'.target = ev.target
         /\ ev'.lower = ev.lower /\ ev'.count = ev.count /\ ev'.noPin = ev.noPin
         /\ ev'.softPin = ev.softPin /\ ev'.limit = ev.limit /\ ev'.hopes = ev.hopes
    <2>1. ev'.i = ev.i + 1 /\ ev'.left = ev.left - g /\ ev'.evicted = ev.evicted + g
      BY <1>2, <1>9 DEF EvRecord
    <2>2. ev'.pinnedGone = (ev.pinnedGone \/ b)  BY <1>2, <1>9 DEF EvRecord
    <2>3. /\ ev'.pc = ev.pc /\ ev'.start = ev.start /\ ev'.now = ev.now /\ ev'.target = ev.target
          /\ ev'.lower = ev.lower /\ ev'.count = ev.count /\ ev'.noPin = ev.noPin
          /\ ev'.softPin = ev.softPin /\ ev'.limit = ev.limit /\ ev'.hopes = ev.hopes
      BY <1>2, <1>9 DEF EvRecord
    <2>4. ev.i + 1 \in 0 .. NumShards /\ ev.evicted + g \in Nat /\ ev.left - g \in Nat
      BY <1>1, <1>2, <1>7, <1>8, EvictKeyAssumption DEF EvRecord
    <2>5. (ev.pinnedGone \/ b) \in BOOLEAN  OBVIOUS
    <2>6. ev' \in EvRecord
      <3> DEFINE p == ev.pinnedGone \/ b
      <3>1. p \in BOOLEAN  BY <2>5
      <3>2. ev' = [ev EXCEPT !.i = @ + 1, !.left = @ - g, !.evicted = @ + g, !.pinnedGone = p]
        BY <1>9
      <3> HIDE DEF p
      <3>3. ev' = [pc |-> ev.pc, i |-> ev.i + 1, start |-> ev.start, now |-> ev.now,
                   target |-> ev.target, lower |-> ev.lower, count |-> ev.count,
                   evicted |-> ev.evicted + g, noPin |-> ev.noPin,
                   softPin |-> ev.softPin, left |-> ev.left - g, limit |-> ev.limit,
                   pinnedGone |-> p, hopes |-> ev.hopes]
        BY <1>2, <3>2 DEF EvRecord
      <3> QED  BY <1>2, <2>4, <3>1, <3>3 DEF EvRecord
    <2> QED  BY <2>1, <2>2, <2>3, <2>6
  <1>12. Pass2Of(gone)
    <2>1. ev'.pinnedGone => ev.pinnedGone \/ \E k \in gone : Pinned(k)  BY <1>11 DEF b
    <2> QED  BY <1>1, <1>2, <1>4, <1>6, <1>11, <2>1 DEF Pass2Of, g
  <1> QED  BY <1>5, <1>12

(***************************************************************************)
(* Types and times.                                                        *)
(***************************************************************************)
\* A step of BatchEvict: objects only go.
Thinned ==
  /\ obj' \in [Key -> ObjRecord] /\ UNCHANGED <<clock, calls>>
  /\ \A k \in Key : obj'[k] = obj[k] \/ obj'[k] = Absent

LEMMA TimesThinned == ASSUME Types, Times, Thinned PROVE Times'
  <1>1. Absent.mem = "NONE"  BY DEF Absent
  <1>2. \A k \in Key : obj'[k] # Absent => obj'[k] = obj[k]  BY DEF Thinned
  <1>3. \A k \in Key : Held(k)' => Held(k) /\ obj'[k] = obj[k]  BY <1>2 DEF Held
  <1>4. (clock % 2 = 0)'  BY DEF Times, Thinned
  <1>5. ASSUME NEW k \in Key
        PROVE  /\ obj'[k].mem = "PROCESSING" => obj'[k].lease = 0
               /\ obj'[k].mem # "NONE" => ~obj'[k].disk
               /\ Held(k)' => \/ obj'[k].lease % 2 = 0 /\ obj'[k].lease <= clock'
                              \/ obj'[k].lease % 2 = 1 /\ obj'[k].lease <= clock' + LeaseTTL
    BY <1>1, <1>2, <1>3 DEF Times, Thinned
  <1>6. \A j, k \in Key : Held(j)' /\ Held(k)' /\ obj'[j].lease = obj'[k].lease => j = k
    BY <1>3 DEF Times
  <1> QED  BY <1>4, <1>5, <1>6 DEF Times

LEMMA TimesCall == ASSUME Types, Times, NEW k \in Key, CallOf(k) PROVE Times'
  <1>0. clock \in Nat /\ clock % 2 = 0 /\ clock' = clock + 2 /\ LeaseTTL \in Nat /\ LeaseTTL % 2 = 1
    BY EvictTimeAssumption DEF Types, Times, CallOf
  <1>1. clock' % 2 = 0  BY <1>0
  <1>2. (clock + 2 + LeaseTTL) % 2 = 1  BY <1>0
  <1>3. \A j \in Key \ {k} : Held(j)' => Held(j) /\ obj'[j] = obj[j]  BY DEF CallOf, Held
  <1>4. \A j \in Key : obj[j].lease \in Nat /\ obj'[j].lease \in Nat  BY DEF Types, CallOf, ObjRecord
  <1>5. ASSUME NEW j \in Key
        PROVE  /\ obj'[j].mem = "PROCESSING" => obj'[j].lease = 0
               /\ obj'[j].mem # "NONE" => ~obj'[j].disk
               /\ Held(j)' => \/ obj'[j].lease % 2 = 0 /\ obj'[j].lease <= clock'
                              \/ obj'[j].lease % 2 = 1 /\ obj'[j].lease <= clock' + LeaseTTL
    <2>1. CASE j = k
      <3>1. /\ obj'[j].mem = "PROCESSING" => obj'[j].lease = 0
            /\ obj'[j].mem # "NONE" => ~obj'[j].disk
            /\ Held(j)' => obj'[j].lease = clock + 2 \/ obj'[j].lease = clock + 2 + LeaseTTL
        BY <2>1 DEF CallOf
      <3> QED  BY <1>0, <1>1, <1>2, <3>1
    <2>2. CASE j # k
      <3>1. obj'[j] = obj[j]  BY <2>2 DEF CallOf
      <3>2. Held(j)' => \/ obj[j].lease % 2 = 0 /\ obj[j].lease <= clock
                        \/ obj[j].lease % 2 = 1 /\ obj[j].lease <= clock + LeaseTTL
        BY <1>3, <2>2 DEF Times
      <3> QED  BY <1>0, <1>4, <3>1, <3>2 DEF Times
    <2> QED  BY <2>1, <2>2
  <1>6. \A j \in Key \ {k} : Held(j)' /\ Held(k)' => obj'[j].lease # obj'[k].lease
    <2>1. ASSUME NEW j \in Key \ {k}, Held(j)', Held(k)', obj'[j].lease = obj'[k].lease PROVE FALSE
      <3>1. obj'[k].lease = clock + 2 \/ obj'[k].lease = clock + 2 + LeaseTTL  BY <2>1 DEF CallOf
      <3>2. \/ obj[j].lease % 2 = 0 /\ obj[j].lease <= clock
            \/ obj[j].lease % 2 = 1 /\ obj[j].lease <= clock + LeaseTTL
        BY <1>3, <2>1 DEF Times
      <3>3. obj'[j].lease = obj[j].lease  BY <1>3, <2>1
      <3> QED  BY <1>0, <1>1, <1>2, <1>4, <2>1, <3>1, <3>2, <3>3
    <2> QED  BY <2>1
  <1>7. \A i, j \in Key : Held(i)' /\ Held(j)' /\ obj'[i].lease = obj'[j].lease => i = j
    <2>1. ASSUME NEW i \in Key, NEW j \in Key, Held(i)', Held(j)', obj'[i].lease = obj'[j].lease, i # j
          PROVE  FALSE
      <3>1. CASE i = k \/ j = k  BY <1>6, <2>1, <3>1
      <3>2. CASE i # k /\ j # k  BY <1>3, <2>1, <3>2 DEF Times
      <3> QED  BY <3>1, <3>2
    <2> QED  BY <2>1
  <1> QED  BY <1>1, <1>5, <1>7 DEF Times

(***************************************************************************)
(* Between the passes.                                                     *)
(***************************************************************************)
LEMMA MissingFacts ==
  ASSUME ev \in EvRecord, IsFiniteSet(ev.noPin), IsFiniteSet(ev.softPin)
  PROVE  /\ Cardinality(ev.noPin) \in Nat /\ Cardinality(ev.softPin) \in Nat
         /\ CeilPercent(ev.count, ev.lower) \in Nat
         /\ Missing \in Nat /\ Missing <= Cardinality(ev.noPin) + Cardinality(ev.softPin)
         /\ Missing > 0 => ev.evicted + Missing <= CeilPercent(ev.count, ev.lower)
         /\ \/ CeilPercent(ev.count, ev.lower) <= ev.evicted + Missing
            \/ Missing = Cardinality(ev.noPin) + Cardinality(ev.softPin)
  <1>1. Cardinality(ev.noPin) \in Nat /\ Cardinality(ev.softPin) \in Nat  BY FS_CardinalityType
  <1>2. ev.count \in Nat /\ ev.lower \in Nat /\ ev.evicted \in Nat  BY DEF EvRecord
  <1>3. CeilPercent(ev.count, ev.lower) \in Nat
    <2>1. ev.count <= ev.count /\ ev.lower <= ev.lower  BY <1>2
    <2> QED  BY <1>2, <2>1, QuotaMonotone
  <1> DEFINE q == CeilPercent(ev.count, ev.lower)
             n == Cardinality(ev.noPin)
             m == Cardinality(ev.softPin)
  <1>4. Missing = Min2(IF q > ev.evicted THEN q - ev.evicted ELSE 0, n + m)  BY DEF Missing
  <1>5. q \in Nat /\ n \in Nat /\ m \in Nat  BY <1>1, <1>3
  <1> HIDE DEF q, n, m
  <1>6. /\ Missing \in Nat /\ Missing <= n + m
        /\ Missing > 0 => ev.evicted + Missing <= q
        /\ q <= ev.evicted + Missing \/ Missing = n + m
    BY <1>2, <1>4, <1>5 DEF Min2
  <1> QED  BY <1>5, <1>6 DEF q, n, m

\* The variables of BatchEvict that ChoosePass2 and Pass2End leave alone.
Carried ==
  /\ ev \in EvRecord /\ ev' \in EvRecord /\ UNCHANGED <<obj, clock, calls>>
  /\ ev'.start = ev.start /\ ev'.now = ev.now /\ ev'.target = ev.target
  /\ ev'.lower = ev.lower /\ ev'.count = ev.count /\ ev'.noPin = ev.noPin
  /\ ev'.softPin = ev.softPin /\ ev'.evicted = ev.evicted
  /\ ev'.pinnedGone = ev.pinnedGone /\ ev'.hopes = ev.hopes

LEMMA ChooseEffect ==
  ASSUME Types, Lists, ChoosePass2
  PROVE  /\ Carried /\ ev.pc = "pass1" /\ ev.i = NumShards
         /\ \/ Missing = 0 /\ ev'.pc = "done" /\ ev'.left = ev.left
            \/ /\ ev'.pc = "pass2A" /\ ev'.i = 0 /\ ev'.left = Missing
               /\ Missing \in 1 .. Cardinality(ev.noPin)
               /\ ev'.limit = NthLease(ev.noPin, Missing)
            \/ /\ ev'.pc = "pass2B" /\ ev'.i = 0 /\ ev'.left = Missing
               /\ Missing - Cardinality(ev.noPin) \in 1 .. Cardinality(ev.softPin)
               /\ ev'.limit = NthLease(ev.softPin, Missing - Cardinality(ev.noPin))
  <1> DEFINE n == Missing
             Later(pass, limit) == [ev EXCEPT !.pc = pass, !.i = 0, !.left = n, !.limit = limit]
  <1>1. /\ ev.pc = "pass1" /\ ~(ev.i < NumShards) /\ UNCHANGED <<obj, clock, calls>>
        /\ ev' = IF n = 0 THEN [ev EXCEPT !.pc = "done"]
                 ELSE IF n <= Cardinality(ev.noPin) THEN Later("pass2A", NthLease(ev.noPin, n))
                 ELSE IF ev.softPin # {}
                      THEN Later("pass2B", NthLease(ev.softPin, n - Cardinality(ev.noPin)))
                 ELSE [ev EXCEPT !.pc = "error"]
    BY DEF ChoosePass2, ShardsLeft, SoftPinEvictNum
  <1>2. ev \in EvRecord  BY <1>1, RecordNotSleeping DEF Types
  <1>3. ev.i = NumShards  BY <1>1, <1>2, EvictKeyAssumption DEF EvRecord
  <1>4. /\ IsFiniteSet(ev.noPin) /\ IsFiniteSet(ev.softPin) /\ ev.now \in Nat
        /\ ev.noPin \in SUBSET (Key \X Nat) /\ ev.softPin \in SUBSET (Key \X Nat)
        /\ \A c \in ev.noPin : c[2] <= ev.now
        /\ \A c \in ev.softPin : c[2] <= ev.now
    BY <1>1, <1>2 DEF Lists, Listed, EvRecord
  <1>5. /\ Cardinality(ev.noPin) \in Nat /\ Cardinality(ev.softPin) \in Nat
        /\ n \in Nat /\ n <= Cardinality(ev.noPin) + Cardinality(ev.softPin)
    BY <1>2, <1>4, MissingFacts
  <1> HIDE DEF n
  <1>6. CASE n = 0
    <2>1. ev' = [ev EXCEPT !.pc = "done"]  BY <1>1, <1>6
    <2>2. Carried /\ ev'.pc = "done" /\ ev'.left = ev.left
      <3>1. /\ ev' \in EvRecord /\ ev'.pc = "done" /\ ev'.hopes = ev.hopes
            /\ ev'.i = ev.i /\ ev'.left = ev.left /\ ev'.limit = ev.limit
            /\ ev'.start = ev.start /\ ev'.now = ev.now /\ ev'.target = ev.target
            /\ ev'.lower = ev.lower /\ ev'.count = ev.count /\ ev'.noPin = ev.noPin
            /\ ev'.softPin = ev.softPin /\ ev'.evicted = ev.evicted /\ ev'.pinnedGone = ev.pinnedGone
        BY <1>2, <2>1, DoneRecord
      <3> QED  BY <1>1, <1>2, <3>1 DEF Carried
    <2> QED  BY <1>1, <1>3, <1>6, <2>2 DEF n
  <1>7. ASSUME NEW p \in {"pass2A", "pass2B"}, NEW l \in Nat, ev' = Later(p, l)
        PROVE  Carried /\ ev'.pc = p /\ ev'.i = 0 /\ ev'.left = n /\ ev'.limit = l
    <2>1. ev' = [ev EXCEPT !.pc = p, !.i = 0, !.left = n, !.limit = l]  BY <1>7
    <2>2. ev'.pc = p /\ ev'.i = 0 /\ ev'.left = n /\ ev'.limit = l  BY <1>2, <2>1 DEF EvRecord
    <2>3. /\ ev'.start = ev.start /\ ev'.now = ev.now /\ ev'.target = ev.target
          /\ ev'.lower = ev.lower /\ ev'.count = ev.count /\ ev'.noPin = ev.noPin
          /\ ev'.softPin = ev.softPin /\ ev'.evicted = ev.evicted
          /\ ev'.pinnedGone = ev.pinnedGone /\ ev'.hopes = ev.hopes
      BY <1>2, <2>1 DEF EvRecord
    <2>4. 0 \in 0 .. NumShards  BY EvictKeyAssumption
    <2>5. ev' \in EvRecord
      <3>1. ev' = [pc |-> p, i |-> 0, start |-> ev.start, now |-> ev.now,
                   target |-> ev.target, lower |-> ev.lower, count |-> ev.count,
                   evicted |-> ev.evicted, noPin |-> ev.noPin,
                   softPin |-> ev.softPin, left |-> n, limit |-> l,
                   pinnedGone |-> ev.pinnedGone, hopes |-> ev.hopes]
        BY <1>2, <2>1 DEF EvRecord
      <3> QED  BY <1>2, <1>5, <1>7, <2>4, <3>1 DEF EvRecord
    <2> QED  BY <1>1, <1>2, <2>2, <2>3, <2>5 DEF Carried
  <1>8. CASE n # 0 /\ n <= Cardinality(ev.noPin)
    <2>1. n \in 1 .. Cardinality(ev.noPin)  BY <1>5, <1>8
    <2>2. NthLease(ev.noPin, n) \in Nat  BY <1>4, <2>1, NthLeaseExists
    <2>3. ev' = Later("pass2A", NthLease(ev.noPin, n))  BY <1>1, <1>8
    <2> HIDE DEF Later
    <2>4. /\ Carried /\ ev'.pc = "pass2A" /\ ev'.i = 0 /\ ev'.left = n
          /\ ev'.limit = NthLease(ev.noPin, n)
      BY <1>7, <2>2, <2>3
    <2> QED  BY <1>1, <1>3, <2>1, <2>4 DEF n
  <1>9. CASE n # 0 /\ ~(n <= Cardinality(ev.noPin))
    <2>1. n - Cardinality(ev.noPin) \in 1 .. Cardinality(ev.softPin)  BY <1>5, <1>9
    <2>2. ev.softPin # {}
      <3>1. Cardinality(ev.softPin) # 0  BY <1>5, <2>1
      <3> QED  BY <3>1, FS_EmptySet
    <2>3. NthLease(ev.softPin, n - Cardinality(ev.noPin)) \in Nat  BY <1>4, <2>1, NthLeaseExists
    <2>4. ev' = Later("pass2B", NthLease(ev.softPin, n - Cardinality(ev.noPin)))
      BY <1>1, <1>9, <2>2
    <2> HIDE DEF Later
    <2>5. /\ Carried /\ ev'.pc = "pass2B" /\ ev'.i = 0 /\ ev'.left = n
          /\ ev'.limit = NthLease(ev.softPin, n - Cardinality(ev.noPin))
      BY <1>7, <2>3, <2>4
    <2> QED  BY <1>1, <1>3, <2>1, <2>5 DEF n
  <1> QED  BY <1>6, <1>8, <1>9

LEMMA Pass2EndEffect ==
  ASSUME Types, Pass2End
  PROVE  /\ Carried /\ ev.pc \in {"pass2A", "pass2B"} /\ ev'.pc = "done" /\ ev'.left = ev.left
         /\ ev.i = NumShards \/ ev.left = 0
  <1>1. /\ ev.pc \in {"pass2A", "pass2B"} /\ (~(ev.i < NumShards) \/ ev.left = 0)
        /\ ev' = [ev EXCEPT !.pc = "done"] /\ UNCHANGED <<obj, clock, calls>>
    BY DEF Pass2End, ShardsLeft
  <1>2. ev \in EvRecord  BY <1>1, RecordNotSleeping DEF Types
  <1>3. /\ ev' \in EvRecord /\ ev'.pc = "done" /\ ev'.hopes = ev.hopes
        /\ ev'.i = ev.i /\ ev'.left = ev.left /\ ev'.limit = ev.limit
        /\ ev'.start = ev.start /\ ev'.now = ev.now /\ ev'.target = ev.target
        /\ ev'.lower = ev.lower /\ ev'.count = ev.count /\ ev'.noPin = ev.noPin
        /\ ev'.softPin = ev.softPin /\ ev'.evicted = ev.evicted /\ ev'.pinnedGone = ev.pinnedGone
    BY <1>1, <1>2, DoneRecord
  <1>4. ev.i = NumShards \/ ev.left = 0  BY <1>1, <1>2, EvictKeyAssumption DEF EvRecord
  <1> QED  BY <1>1, <1>2, <1>3, <1>4 DEF Carried

LEMMA CallEv ==
  ASSUME Types, NEW k \in Key, CallOf(k), ev.pc # "sleep"
  PROVE  /\ ev \in EvRecord /\ ev' \in EvRecord /\ ev'.pc = ev.pc /\ ev'.hopes = 0
         /\ ev'.i = ev.i /\ ev'.left = ev.left /\ ev'.limit = ev.limit
         /\ ev'.start = ev.start /\ ev'.now = ev.now /\ ev'.target = ev.target
         /\ ev'.lower = ev.lower /\ ev'.count = ev.count /\ ev'.noPin = ev.noPin
         /\ ev'.softPin = ev.softPin /\ ev'.evicted = ev.evicted /\ ev'.pinnedGone = ev.pinnedGone
         /\ ev.now <= clock
  <1>1. ev \in EvRecord /\ ev.now <= clock  BY RecordNotSleeping DEF Types
  <1>2. ev' = [ev EXCEPT !.hopes = 0]  BY DEF CallOf
  <1> QED  BY <1>1, <1>2, CallRecord

(***************************************************************************)
(* Every step preserves the invariant.                                     *)
(***************************************************************************)
LEMMA StartInv == ASSUME EvictInv, EvictStart PROVE EvictInv'
  <1>1. /\ UNCHANGED <<obj, clock, calls>> /\ ev' \in EvRecord
        /\ ev'.pc = "pass1" /\ ev'.i = 0 /\ ev'.now = clock /\ ev'.lower <= ev'.target
        /\ ev'.count = 0 /\ ev'.evicted = 0 /\ ev'.left = 0 /\ ev'.pinnedGone = FALSE
        /\ ev'.noPin = {} /\ ev'.softPin = {}
        /\ ev'.hopes = IF \A k \in Objects : HasMemReplica(k)
                       THEN Cardinality(Evictable(clock)) ELSE 0
    BY StartEffect DEF EvictInv
  <1>2. Types'  BY <1>1 DEF EvictInv, Types
  <1>3. Times'
    <2>1. Thinned  BY <1>1 DEF Thinned, EvictInv, Types
    <2> QED  BY <2>1, TimesThinned DEF EvictInv
  <1>4. Lists'
    <2>1. IsFiniteSet({})  BY FS_EmptySet
    <2> QED  BY <1>1, <2>1 DEF Lists, Listed
  <1>5. \A k \in Key : ~Visited(k)'
    BY <1>1, ReachedSteps DEF Visited, EvRecord
  <1>6. Pass1Lists'  BY <1>1, <1>5 DEF Pass1Lists, Listed
  <1>7. Cardinality({}) = 0  BY FS_EmptySet
  <1>8. Budget'
    <2>1. ev'.target \in Nat  BY <1>1 DEF EvRecord
    <2>2. CeilPercent(0, ev'.target) \in Nat
      <3>1. ev'.target <= ev'.target /\ 0 <= 0  BY <2>1
      <3> QED  BY <2>1, <3>1, QuotaMonotone
    <2>3. 0 <= CeilPercent(ev'.count, ev'.target)  BY <1>1, <2>2
    <2> QED  BY <1>1, <1>7, <2>3 DEF Budget
  <1>9. Second'  BY <1>1 DEF Second
  <1>10. Hope'
    <2> SUFFICES ASSUME ev'.hopes # 0 PROVE Hope'  BY DEF Hope
    <2>1. (\A k \in Objects : HasMemReplica(k)) /\ ev'.hopes = Cardinality(Evictable(clock))  BY <1>1
    <2>2. \A k \in Key : obj'[k] # Absent => obj'[k].mem # "NONE"
      BY <1>1, <2>1 DEF Objects, HasMemReplica
    <2>3. Evictable(clock) = Unseen'
      <3>1. clock \in Nat /\ \A k \in Key : obj[k].lease \in Nat  BY DEF EvictInv, Types, ObjRecord
      <3>2. \A k \in Key : obj[k].mem = "COMPLETE" => obj[k] # Absent  BY DEF Absent
      <3>3. \A k \in Key : k \in Evictable(clock) <=> k \in Unseen'
        BY <1>1, <1>5, <3>1, <3>2
        DEF Evictable, Unseen, Objects, IsLeaseExpired, Pinned, IsSoftPinned, Cand
      <3>4. Evictable(clock) \in SUBSET Key /\ Unseen' \in SUBSET Key
        BY DEF Evictable, Objects, Unseen
      <3> QED  BY <3>3, <3>4
    <2>4. Cardinality(Unseen') \in Nat
      <3>1. Unseen' \in SUBSET Key  BY DEF Unseen
      <3> QED  BY <3>1, KeyFinite
    <2>5. ev'.hopes <= ev'.evicted + Cardinality(ev'.noPin) + Cardinality(ev'.softPin)
                         + Cardinality(Unseen')
      BY <1>1, <1>7, <2>1, <2>3, <2>4
    <2> QED  BY <1>1, <2>2, <2>5 DEF Hope, Listed
  <1> QED  BY <1>2, <1>3, <1>4, <1>6, <1>8, <1>9, <1>10 DEF EvictInv

LEMMA SleepInv == ASSUME EvictInv, Sleep PROVE EvictInv'
  <1>1. ev' = Sleeping /\ UNCHANGED <<obj, clock, calls>>  BY DEF Sleep, Sleeping
  <1>2. ev'.pc = "sleep"  BY <1>1, RecordNotSleeping
  <1>3. Types'  BY <1>1 DEF EvictInv, Types
  <1>4. Times'
    <2>1. Thinned  BY <1>1 DEF Thinned, EvictInv, Types
    <2> QED  BY <2>1, TimesThinned DEF EvictInv
  <1> QED  BY <1>2, <1>3, <1>4 DEF EvictInv, Lists, Pass1Lists, Budget, Second, Hope

LEMMA CallInv == ASSUME EvictInv, NEW k \in Key, CallOf(k) PROVE EvictInv'
  <1>1. Times'  BY TimesCall DEF EvictInv
  <1>2. calls \in 0 .. MaxCalls /\ MaxCalls \in Nat /\ clock \in Nat
    BY EvictSwitchAssumption DEF EvictInv, Types
  <1>3. CASE ev.pc = "sleep"
    <2>1. ev' = ev  BY <1>3 DEF CallOf
    <2>2. ev' = Sleeping  BY <1>3, <2>1, RecordNotSleeping DEF EvictInv, Types
    <2>3. Types'  BY <1>2, <2>2 DEF CallOf, Types
    <2>4. ev'.pc = "sleep"  BY <1>3, <2>1
    <2> QED  BY <1>1, <2>3, <2>4 DEF EvictInv, Lists, Pass1Lists, Budget, Second, Hope
  <1>4. CASE ev.pc # "sleep"
    <2>1. /\ ev \in EvRecord /\ ev' \in EvRecord /\ ev'.pc = ev.pc /\ ev'.hopes = 0
          /\ ev'.i = ev.i /\ ev'.left = ev.left /\ ev'.limit = ev.limit
          /\ ev'.start = ev.start /\ ev'.now = ev.now /\ ev'.target = ev.target
          /\ ev'.lower = ev.lower /\ ev'.count = ev.count /\ ev'.noPin = ev.noPin
          /\ ev'.softPin = ev.softPin /\ ev'.evicted = ev.evicted /\ ev'.pinnedGone = ev.pinnedGone
          /\ ev.now <= clock
      BY <1>4, CallEv DEF EvictInv
    <2>2. ev.now \in Nat /\ ev.lower \in Nat /\ ev.target \in Nat  BY <2>1 DEF EvRecord
    <2>3. ev'.now <= clock' /\ ev'.lower <= ev'.target
      <3>1. ev.lower <= ev.target  BY <1>4, RecordNotSleeping DEF EvictInv, Types
      <3> QED  BY <1>2, <2>1, <2>2, <3>1 DEF CallOf
    <2>4. Types'  BY <1>2, <2>1, <2>3 DEF CallOf, Types
    <2>5. \A j \in Key : Held(j)' /\ obj'[j].lease <= ev.now => Held(j) /\ obj'[j] = obj[j]
      <3>1. ASSUME NEW j \in Key, Held(j)', obj'[j].lease <= ev.now PROVE j # k
        <4>1. LeaseTTL \in Nat  BY EvictTimeAssumption
        <4> QED  BY <1>2, <2>1, <2>2, <3>1, <4>1 DEF CallOf
      <3> QED  BY <3>1 DEF CallOf, Held
    <2>6. \A j \in Key : Cand(j)' => Cand(j) /\ obj'[j] = obj[j]
      <3>1. \A j \in Key : Cand(j)' => Held(j)' /\ obj'[j].lease <= ev.now
        BY <2>1 DEF Cand, Held, Absent
      <3> QED  BY <2>1, <2>5, <3>1 DEF Cand
    <2>7. \A j \in Key : (Visited(j)' <=> Visited(j)) /\ (Cand(j)' => (Pinned(j)' <=> Pinned(j)))
      BY <2>1, <2>6 DEF Visited, Pinned, IsSoftPinned
    <2>8. Lists'  BY <1>4, <2>1 DEF EvictInv, Lists, Listed
    <2>9. Pass1Lists'
      <3> SUFFICES ASSUME ev.pc = "pass1" PROVE Pass1Lists'  BY <2>1 DEF Pass1Lists
      <3>1. Listed' = Listed /\ Listed \in SUBSET (Key \X Nat)  BY <2>1 DEF Listed, EvRecord
      <3>2. ASSUME NEW c \in Listed
            PROVE  /\ Visited(c[1])'
                   /\ \A j \in Key : Held(j)' /\ obj'[j].lease = c[2] => j = c[1]
        <4>1. c[2] <= ev.now /\ c[1] \in Key  BY <1>4, <3>1 DEF EvictInv, Lists
        <4>2. \A j \in Key : Held(j)' /\ obj'[j].lease = c[2] => Held(j) /\ obj[j].lease = c[2]
          BY <2>5, <4>1
        <4> QED  BY <2>7, <4>1, <4>2 DEF EvictInv, Pass1Lists
      <3>3. ASSUME NEW j \in Key, Cand(j)', Visited(j)'
            PROVE  IF Pinned(j)' THEN AllowSoftEvict => <<j, obj'[j].lease>> \in ev'.softPin
                   ELSE <<j, obj'[j].lease>> \in ev'.noPin
        <4>1. Cand(j) /\ obj'[j] = obj[j] /\ Visited(j) /\ (Pinned(j)' <=> Pinned(j))
          BY <2>6, <2>7, <3>3
        <4>2. IF Pinned(j) THEN AllowSoftEvict => <<j, obj[j].lease>> \in ev.softPin
              ELSE <<j, obj[j].lease>> \in ev.noPin
          BY <4>1 DEF EvictInv, Pass1Lists
        <4> QED  BY <2>1, <4>1, <4>2
      <3>4. \A c, d \in Listed : c[2] = d[2] => c = d  BY DEF EvictInv, Pass1Lists
      <3> QED  BY <3>1, <3>2, <3>3, <3>4 DEF Pass1Lists
    <2>10. Budget'  BY <1>4, <2>1 DEF EvictInv, Budget
    <2>11. Second'
      <3>1. ev'.pc = "pass2A" => ev'.limit <= ev'.now  BY <2>1 DEF EvictInv, Second
      <3>2. ev'.pc \in {"pass1", "pass2A"} => ~ev'.pinnedGone  BY <2>1 DEF EvictInv, Second
      <3>3. ASSUME ev.pc = "pass2B"
            PROVE  /\ AllowSoftEvict /\ Cardinality(Todo') <= ev'.left
                   /\ \A j \in Key : Cand(j)' /\ Visited(j)' => Pinned(j)'
        <4>1. AllowSoftEvict /\ Cardinality(Todo) <= ev.left
              /\ \A j \in Key : Cand(j) /\ Visited(j) => Pinned(j)
          BY <3>3 DEF EvictInv, Second
        <4>2. Todo' \in SUBSET Todo /\ Todo \in SUBSET Key
          BY <2>1, <2>6, <2>7 DEF Todo, May
        <4>3. Cardinality(Todo') <= Cardinality(Todo)  BY <4>2, KeyLess
        <4>4. Cardinality(Todo') \in Nat /\ Cardinality(Todo) \in Nat
          <5>1. Todo' \in SUBSET Key  BY <4>2
          <5> QED  BY <4>2, <5>1, KeyFinite
        <4>5. ev.left \in Nat  BY <2>1 DEF EvRecord
        <4> QED  BY <2>1, <2>6, <2>7, <4>1, <4>3, <4>4, <4>5
      <3>4. ASSUME ev.pc = "done", ev.pinnedGone PROVE \A j \in Key : Cand(j)' => Pinned(j)'
        BY <2>6, <2>7, <3>4 DEF EvictInv, Second
      <3> QED  BY <2>1, <3>1, <3>2, <3>3, <3>4 DEF Second
    <2>12. Hope'  BY <2>1 DEF Hope
    <2> QED  BY <1>1, <2>4, <2>8, <2>9, <2>10, <2>11, <2>12 DEF EvictInv
  <1> QED  BY <1>3, <1>4

LEMMA Pass1Inv == ASSUME EvictInv, Pass1 PROVE EvictInv'
  <1>1. PICK gone, kept, pinned \in SUBSET Key : Pass1Of(gone, kept, pinned)
    BY Pass1Effect DEF EvictInv
  <1>2. /\ ev \in EvRecord /\ ev' \in EvRecord /\ ev.pc = "pass1" /\ ev'.pc = "pass1"
        /\ ev.i < NumShards /\ ev'.i = ev.i + 1 /\ ev'.start = ev.start /\ ev'.now = ev.now
        /\ ev'.noPin = ev.noPin \cup Entry(kept) /\ ev'.softPin = ev.softPin \cup Entry(pinned)
        /\ ev'.hopes = ev.hopes /\ ev'.left = ev.left /\ ev'.pinnedGone = ev.pinnedGone
        /\ ev'.target = ev.target /\ ev'.lower = ev.lower
        /\ UNCHANGED <<clock, calls>> /\ obj' \in [Key -> ObjRecord]
        /\ obj' = [k \in Key |-> IF k \in gone THEN Absent ELSE obj[k]]
    BY <1>1 DEF Pass1Of
  <1>3. \A k \in gone \cup kept \cup pinned : Here(k) /\ Held(k) /\ obj[k].lease <= ev.now
    BY <1>1 DEF Pass1Of
  <1>4. /\ gone \cap kept = {} /\ gone \cap pinned = {} /\ kept \cap pinned = {}
        /\ \A k \in kept : ~Pinned(k)
        /\ \A k \in pinned : Pinned(k) /\ AllowSoftEvict
        /\ \A k \in Key : Cand(k) /\ Here(k) =>
              IF Pinned(k) THEN AllowSoftEvict => k \in pinned ELSE k \in gone \cup kept
    BY <1>1 DEF Pass1Of
  <1>5. \A k \in Key : obj'[k] = IF k \in gone THEN Absent ELSE obj[k]  BY <1>2
  <1>6. Absent.mem = "NONE"  BY DEF Absent
  <1>7. \A k \in Key : /\ Held(k)' => Held(k) /\ k \notin gone /\ obj'[k] = obj[k]
                       /\ Cand(k)' => Cand(k) /\ k \notin gone /\ obj'[k] = obj[k]
                       /\ k \notin gone => (Pinned(k)' <=> Pinned(k)) /\ (Cand(k)' <=> Cand(k))
    BY <1>2, <1>5, <1>6 DEF Held, Cand, Pinned, IsSoftPinned
  <1>8. \A k \in Key : /\ Visited(k)' <=> Visited(k) \/ Here(k)
                       /\ Here(k) => ~Visited(k)
    BY <1>2, ReachedSteps DEF Visited, Here, Shard, EvRecord
  <1> DEFINE K == Entry(kept)
             P == Entry(pinned)
  <1>9. /\ K \in SUBSET (Key \X Nat) /\ P \in SUBSET (Key \X Nat)
        /\ ev.noPin \in SUBSET (Key \X Nat) /\ ev.softPin \in SUBSET (Key \X Nat)
        /\ \A c \in K : c[1] \in kept /\ c[2] = obj[c[1]].lease
        /\ \A c \in P : c[1] \in pinned /\ c[2] = obj[c[1]].lease
        /\ \A k \in kept : <<k, obj[k].lease>> \in K
        /\ \A k \in pinned : <<k, obj[k].lease>> \in P
    BY <1>2 DEF Entry, EvRecord, EvictInv, Types, ObjRecord
  <1>10. /\ IsFiniteSet(K) /\ IsFiniteSet(P) /\ Cardinality(K) = Cardinality(kept)
         /\ Cardinality(P) = Cardinality(pinned)
    BY EntryCount
  <1> HIDE DEF K, P
  <1>11. ev'.noPin = ev.noPin \cup K /\ ev'.softPin = ev.softPin \cup P  BY <1>2 DEF K, P
  <1>12. /\ \A c \in Listed : Visited(c[1]) /\ c[1] \in Key /\ c[2] <= ev.now
         /\ IsFiniteSet(ev.noPin) /\ IsFiniteSet(ev.softPin)
         /\ {c[1] : c \in ev.noPin} \cap {c[1] : c \in ev.softPin} = {}
         /\ ev.softPin # {} => AllowSoftEvict
    BY <1>2, <1>9 DEF EvictInv, Lists, Pass1Lists, Listed
  <1>13. Types'
    <2>1. ev.now <= clock /\ ev.lower <= ev.target  BY <1>2, RecordNotSleeping DEF EvictInv, Types
    <2> QED  BY <1>2, <2>1 DEF EvictInv, Types
  <1>14. Times'
    <2>1. Thinned  BY <1>2, <1>5 DEF Thinned
    <2> QED  BY <2>1, TimesThinned DEF EvictInv
  <1>15. \A c \in K \cup P : Here(c[1]) /\ Held(c[1]) /\ c[1] \in Key /\ c[2] <= ev.now
    BY <1>3, <1>9
  <1>16. Listed' = Listed \cup K \cup P  BY <1>11 DEF Listed
  <1>17. Lists'
    <2>1. IsFiniteSet(ev'.noPin) /\ IsFiniteSet(ev'.softPin)
      <3>1. IsFiniteSet(ev.noPin \cup K)  BY <1>10, <1>12, FS_Union
      <3>2. IsFiniteSet(ev.softPin \cup P)  BY <1>10, <1>12, FS_Union
      <3> QED  BY <1>11, <3>1, <3>2
    <2>2. \A c \in ev'.noPin, d \in ev'.softPin : c[1] # d[1]
      <3>1. \A c \in ev.noPin, d \in ev.softPin : c[1] # d[1]  BY <1>12
      <3>2. \A c \in ev.noPin, d \in P : c[1] # d[1]  BY <1>8, <1>12, <1>15 DEF Listed
      <3>3. \A c \in K, d \in ev.softPin : c[1] # d[1]  BY <1>8, <1>12, <1>15 DEF Listed
      <3>4. \A c \in K, d \in P : c[1] # d[1]  BY <1>4, <1>9
      <3> QED  BY <1>11, <3>1, <3>2, <3>3, <3>4
    <2>3. {c[1] : c \in ev'.noPin} \cap {c[1] : c \in ev'.softPin} = {}  BY <2>2
    <2>4. ev'.softPin # {} => AllowSoftEvict  BY <1>4, <1>9, <1>11, <1>12
    <2>5. \A c \in Listed' : c[2] <= ev'.now  BY <1>2, <1>12, <1>15, <1>16
    <2> QED  BY <2>1, <2>3, <2>4, <2>5 DEF Lists
  <1>18. Pass1Lists'
    <2>1. ASSUME NEW c \in Listed'
          PROVE  /\ Visited(c[1])'
                 /\ \A k \in Key : Held(k)' /\ obj'[k].lease = c[2] => k = c[1]
      <3>1. CASE c \in Listed
        <4>1. \A k \in Key : Held(k) /\ obj[k].lease = c[2] => k = c[1]
          BY <1>2, <3>1 DEF EvictInv, Pass1Lists
        <4> QED  BY <1>7, <1>8, <1>12, <3>1, <4>1
      <3>2. CASE c \in K \cup P
        <4>1. c[1] \in Key /\ Held(c[1]) /\ Here(c[1]) /\ c[2] = obj[c[1]].lease
          BY <1>9, <1>15, <3>2
        <4>2. \A k \in Key : Held(k) /\ obj[k].lease = c[2] => k = c[1]
          BY <4>1 DEF EvictInv, Times
        <4> QED  BY <1>7, <1>8, <4>1, <4>2
      <3> QED  BY <1>16, <2>1, <3>1, <3>2
    <2>2. ASSUME NEW c \in Listed', NEW d \in Listed', c[2] = d[2] PROVE c = d
      <3>0. c = <<c[1], c[2]>> /\ d = <<d[1], d[2]>>  BY <1>9, <1>16, <2>2 DEF Listed
      <3>1. CASE c \in Listed /\ d \in Listed  BY <1>2, <2>2, <3>1 DEF EvictInv, Pass1Lists
      <3>2. CASE d \in K \cup P
        <4>1. d[1] \in Key /\ Held(d[1]) /\ obj[d[1]].lease = c[2]  BY <1>9, <1>15, <2>2, <3>2
        <4>2. CASE c \in Listed
          <5>1. d[1] = c[1]  BY <1>2, <4>1, <4>2 DEF EvictInv, Pass1Lists
          <5> QED  BY <2>2, <3>0, <5>1
        <4>3. CASE c \in K \cup P
          <5>1. c[1] \in Key /\ Held(c[1]) /\ obj[c[1]].lease = c[2]  BY <1>9, <1>15, <4>3
          <5>2. d[1] = c[1]  BY <4>1, <5>1 DEF EvictInv, Times
          <5> QED  BY <2>2, <3>0, <5>2
        <4> QED  BY <1>16, <2>2, <4>2, <4>3
      <3>3. CASE c \in K \cup P /\ d \in Listed
        <4>1. c[1] \in Key /\ Held(c[1]) /\ obj[c[1]].lease = d[2]  BY <1>9, <1>15, <2>2, <3>3
        <4>2. c[1] = d[1]  BY <1>2, <3>3, <4>1 DEF EvictInv, Pass1Lists
        <4> QED  BY <2>2, <3>0, <4>2
      <3> QED  BY <1>16, <2>2, <3>1, <3>2, <3>3
    <2>3. ASSUME NEW k \in Key, Cand(k)', Visited(k)'
          PROVE  IF Pinned(k)' THEN AllowSoftEvict => <<k, obj'[k].lease>> \in ev'.softPin
                 ELSE <<k, obj'[k].lease>> \in ev'.noPin
      <3>1. Cand(k) /\ k \notin gone /\ obj'[k] = obj[k] /\ (Pinned(k)' <=> Pinned(k))
        BY <1>7, <2>3
      <3>2. CASE Visited(k)
        <4>1. IF Pinned(k) THEN AllowSoftEvict => <<k, obj[k].lease>> \in ev.softPin
              ELSE <<k, obj[k].lease>> \in ev.noPin
          BY <1>2, <3>1, <3>2 DEF EvictInv, Pass1Lists
        <4> QED  BY <1>11, <3>1, <4>1
      <3>3. CASE Here(k)
        <4>1. IF Pinned(k) THEN AllowSoftEvict => k \in pinned ELSE k \in kept
          BY <1>4, <3>1, <3>3
        <4> QED  BY <1>9, <1>11, <3>1, <4>1
      <3> QED  BY <1>8, <2>3, <3>2, <3>3
    <2> QED  BY <2>1, <2>2, <2>3 DEF Pass1Lists
  <1>19. /\ Cardinality(gone) \in Nat /\ Cardinality(kept) \in Nat /\ Cardinality(pinned) \in Nat
         /\ Cardinality(ev.noPin) \in Nat /\ Cardinality(ev.softPin) \in Nat
         /\ ev.evicted \in Nat /\ ev.count \in Nat /\ ev'.count \in Nat /\ ev.hopes \in Nat
    BY <1>2, <1>12, KeyFinite, FS_CardinalityType DEF EvRecord
  <1>20. /\ Cardinality(ev'.noPin) = Cardinality(ev.noPin) + Cardinality(kept)
         /\ Cardinality(ev'.softPin) = Cardinality(ev.softPin) + Cardinality(pinned)
    <2>1. ev.noPin \cap K = {} /\ ev.softPin \cap P = {}  BY <1>8, <1>12, <1>15 DEF Listed
    <2>2. Cardinality({}) = 0  BY FS_EmptySet
    <2>3. Cardinality(ev.noPin \cup K) = Cardinality(ev.noPin) + Cardinality(K) - 0
      BY <1>10, <1>12, <2>1, <2>2, FS_Union
    <2>4. Cardinality(ev.softPin \cup P) = Cardinality(ev.softPin) + Cardinality(P) - 0
      BY <1>10, <1>12, <2>1, <2>2, FS_Union
    <2> QED  BY <1>10, <1>11, <1>19, <2>3, <2>4
  <1>21. /\ ev'.evicted = ev.evicted + Cardinality(gone)
         /\ ev.count + Cardinality(gone) + Cardinality(kept) + Cardinality(pinned) <= ev'.count
         /\ ev'.evicted <= CeilPercent(ev'.count, ev.target)
    BY <1>1 DEF Pass1Of
  <1>22. ev.left = 0 /\ ev.evicted + Cardinality(ev.noPin) + Cardinality(ev.softPin) <= ev.count
    BY <1>2 DEF EvictInv, Budget
  <1>23. Budget'
    <2>1. ev'.evicted + Cardinality(ev'.noPin) + Cardinality(ev'.softPin) <= ev'.count
      BY <1>19, <1>20, <1>21, <1>22
    <2>2. ev'.left = 0 /\ ev'.evicted + ev'.left <= ev'.count  BY <1>2, <1>19, <1>20, <1>21, <1>22
    <2>3. ev'.evicted + ev'.left <= CeilPercent(ev'.count, ev'.target)
      BY <1>2, <1>19, <1>21, <1>22
    <2> QED  BY <2>1, <2>2, <2>3 DEF Budget
  <1>24. Second'  BY <1>2 DEF EvictInv, Second
  <1>25. Hope'
    <2> SUFFICES ASSUME ev'.hopes # 0 PROVE Hope'  BY DEF Hope
    <2>1. /\ \A k \in Key : obj[k] # Absent => obj[k].mem # "NONE"
          /\ \A c \in Listed : Cand(c[1]) /\ obj[c[1]].lease = c[2]
          /\ \A c \in ev.noPin : ~Pinned(c[1])
          /\ \A c \in ev.softPin : Pinned(c[1])
          /\ ev.hopes <= ev.evicted + Cardinality(ev.noPin) + Cardinality(ev.softPin)
                           + Cardinality(Unseen)
      BY <1>2 DEF EvictInv, Hope
    <2>2. \A k \in Key : obj'[k] # Absent => obj'[k].mem # "NONE"  BY <1>5, <2>1
    <2>3. \A c \in Listed' : Cand(c[1]) /\ obj[c[1]].lease = c[2] /\ c[1] \in Key \ gone
      <3>1. ASSUME NEW c \in Listed
            PROVE  Cand(c[1]) /\ obj[c[1]].lease = c[2] /\ c[1] \in Key \ gone
        BY <1>3, <1>8, <1>12, <2>1
      <3>2. ASSUME NEW c \in K \cup P
            PROVE  Cand(c[1]) /\ obj[c[1]].lease = c[2] /\ c[1] \in Key \ gone
        <4>1. c[1] \in Key \ gone /\ c[2] = obj[c[1]].lease /\ Held(c[1]) /\ c[2] <= ev.now
          BY <1>4, <1>9, <1>15
        <4>2. obj[c[1]].mem \in {"NONE", "PROCESSING", "COMPLETE"}
          BY <4>1 DEF EvictInv, Types, ObjRecord
        <4> QED  BY <2>1, <4>1, <4>2 DEF Held, Cand
      <3> QED  BY <1>16, <3>1, <3>2
    <2>4. \A c \in Listed' : Cand(c[1])' /\ obj'[c[1]].lease = c[2] /\ (Pinned(c[1])' <=> Pinned(c[1]))
      BY <1>5, <1>7, <2>3
    <2>5. (\A c \in ev'.noPin : ~Pinned(c[1])') /\ (\A c \in ev'.softPin : Pinned(c[1])')
      <3>1. \A c \in ev'.noPin : ~Pinned(c[1])  BY <1>4, <1>9, <1>11, <2>1
      <3>2. \A c \in ev'.softPin : Pinned(c[1])  BY <1>4, <1>9, <1>11, <2>1
      <3>3. ev'.noPin \subseteq Listed' /\ ev'.softPin \subseteq Listed'  BY DEF Listed
      <3> QED  BY <2>4, <3>1, <3>2, <3>3
    <2>6. Cardinality(Unseen) <= Cardinality(Unseen')
                                   + Cardinality(gone) + Cardinality(kept) + Cardinality(pinned)
          /\ Cardinality(Unseen) \in Nat /\ Cardinality(Unseen') \in Nat
      <3> DEFINE A == gone \cup kept
                 B == A \cup pinned
      <3>1. Unseen' \in SUBSET Key /\ Unseen \in SUBSET Key /\ A \in SUBSET Key /\ B \in SUBSET Key
        BY DEF Unseen
      <3>2. Unseen \subseteq Unseen' \cup B
        <4>1. ASSUME NEW k \in Unseen, k \notin B PROVE k \in Unseen'
          <5>1. k \in Key /\ Cand(k) /\ ~Visited(k) /\ (AllowSoftEvict \/ ~Pinned(k))  BY DEF Unseen
          <5>2. ~Here(k) /\ k \notin gone  BY <1>4, <4>1, <5>1
          <5> QED  BY <1>7, <1>8, <5>1, <5>2 DEF Unseen
        <4> QED  BY <4>1
      <3>3. Unseen' \cap B = {}
        <4>1. \A k \in Unseen' : ~Here(k)  BY <1>8 DEF Unseen
        <4> QED  BY <1>3, <4>1
      <3>4. A \cap pinned = {}  BY <1>4
      <3>5. Cardinality(A) = Cardinality(gone) + Cardinality(kept)  BY <1>4, KeyAdd
      <3> HIDE DEF A
      <3>6. Cardinality(B) = Cardinality(A) + Cardinality(pinned)  BY <3>1, <3>4, KeyAdd
      <3> HIDE DEF B
      <3>7. Cardinality(Unseen' \cup B) = Cardinality(Unseen') + Cardinality(B)
        BY <3>1, <3>3, KeyAdd
      <3>8. Unseen' \cup B \in SUBSET Key  BY <3>1
      <3>9. Cardinality(Unseen) <= Cardinality(Unseen' \cup B)  BY <3>2, <3>8, KeyLess
      <3>10. Cardinality(Unseen) \in Nat /\ Cardinality(Unseen') \in Nat /\ Cardinality(B) \in Nat
             /\ Cardinality(A) \in Nat
        BY <3>1, KeyFinite
      <3> QED  BY <1>19, <3>5, <3>6, <3>7, <3>9, <3>10
    <2>7. ev'.hopes <= ev'.evicted + Cardinality(ev'.noPin) + Cardinality(ev'.softPin)
                         + Cardinality(Unseen')
      BY <1>2, <1>19, <1>20, <1>21, <2>1, <2>6
    <2> QED  BY <1>2, <2>2, <2>4, <2>5, <2>7 DEF Hope
  <1> QED  BY <1>13, <1>14, <1>17, <1>18, <1>23, <1>24, <1>25 DEF EvictInv

\* What a list of candidates has to do with the objects.
LEMMA EntryLess ==
  ASSUME NEW K \in SUBSET Key, NEW C, IsFiniteSet(C), Entry(K) \subseteq C
  PROVE  Cardinality(K) <= Cardinality(C)
  <1>1. Cardinality(Entry(K)) = Cardinality(K)  BY EntryCount
  <1>2. Cardinality(Entry(K)) <= Cardinality(C)  BY FS_Subset
  <1> QED  BY <1>1, <1>2

LEMMA EntryMore ==
  ASSUME NEW K \in SUBSET Key, NEW C, C \subseteq Entry(K)
  PROVE  Cardinality(C) <= Cardinality(K)
  <1>1. Cardinality(Entry(K)) = Cardinality(K) /\ IsFiniteSet(Entry(K))  BY EntryCount
  <1>2. Cardinality(C) <= Cardinality(Entry(K))  BY <1>1, FS_Subset
  <1> QED  BY <1>1, <1>2

\* The parts of the invariant that do not depend on the pass.
LEMMA CarriedInv ==
  ASSUME EvictInv, Carried, ev.pc # "sleep", ev'.pc # "sleep"
  PROVE  Types' /\ Times' /\ Lists'
  <1>1. Types'
    <2>1. ev.now <= clock /\ ev.lower <= ev.target  BY RecordNotSleeping DEF EvictInv, Types
    <2> QED  BY <2>1 DEF Carried, EvictInv, Types
  <1>2. Times'
    <2>1. Thinned  BY DEF Thinned, Carried, EvictInv, Types
    <2> QED  BY <2>1, TimesThinned DEF EvictInv
  <1>3. Lists'  BY DEF Carried, EvictInv, Lists, Listed
  <1> QED  BY <1>1, <1>2, <1>3

LEMMA ChooseInv == ASSUME EvictInv, ChoosePass2 PROVE EvictInv'
  <1> DEFINE n == Missing
             A == Cardinality(ev.noPin)
             B == Cardinality(ev.softPin)
             quota == CeilPercent(ev.count, ev.lower)
  <1>1. /\ Carried /\ ev.pc = "pass1" /\ ev.i = NumShards
        /\ \/ n = 0 /\ ev'.pc = "done" /\ ev'.left = ev.left
           \/ /\ ev'.pc = "pass2A" /\ ev'.i = 0 /\ ev'.left = n /\ n \in 1 .. A
              /\ ev'.limit = NthLease(ev.noPin, n)
           \/ /\ ev'.pc = "pass2B" /\ ev'.i = 0 /\ ev'.left = n /\ n - A \in 1 .. B
              /\ ev'.limit = NthLease(ev.softPin, n - A)
    BY ChooseEffect DEF EvictInv
  <1>2. /\ ev \in EvRecord /\ ev' \in EvRecord /\ obj' = obj /\ ev'.now = ev.now
        /\ ev'.target = ev.target /\ ev'.lower = ev.lower /\ ev'.count = ev.count
        /\ ev'.evicted = ev.evicted /\ ev'.pinnedGone = ev.pinnedGone /\ ev'.hopes = ev.hopes
    BY <1>1 DEF Carried
  <1>3. /\ IsFiniteSet(ev.noPin) /\ IsFiniteSet(ev.softPin)
        /\ ev.softPin # {} => AllowSoftEvict
        /\ \A c \in ev.noPin : c[2] <= ev.now
        /\ \A c \in ev.softPin : c[2] <= ev.now
        /\ ev.noPin \in SUBSET (Key \X Nat) /\ ev.softPin \in SUBSET (Key \X Nat)
    BY <1>1, <1>2 DEF EvictInv, Lists, Listed, EvRecord
  <1>4. /\ A \in Nat /\ B \in Nat /\ quota \in Nat /\ n \in Nat /\ n <= A + B
        /\ n > 0 => ev.evicted + n <= quota
        /\ quota <= ev.evicted + n \/ n = A + B
    BY <1>2, <1>3, MissingFacts
  <1>5. /\ ev.left = 0 /\ ev.evicted + A + B <= ev.count
        /\ ev.evicted + ev.left <= ev.count
        /\ ev.evicted + ev.left <= CeilPercent(ev.count, ev.target)
    BY <1>1 DEF EvictInv, Budget
  <1>6. /\ ev.evicted \in Nat /\ ev.count \in Nat /\ ev.hopes \in Nat /\ ev.now \in Nat
        /\ ev.lower \in Nat /\ ev.target \in Nat /\ ev.lower <= ev.target
    BY <1>1, <1>2, RecordNotSleeping DEF EvRecord, EvictInv, Types
  <1>7. quota <= CeilPercent(ev.count, ev.target) /\ CeilPercent(ev.count, ev.target) \in Nat
    <2>1. ev.count <= ev.count  BY <1>6
    <2> QED  BY <1>6, <2>1, QuotaMonotone
  <1>8. \A k \in Key : Visited(k)
    BY <1>1, <1>2, ReachedSteps, EvictKeyAssumption DEF Visited, EvRecord
  <1>9. ~ev.pinnedGone  BY <1>1 DEF EvictInv, Second
  <1>10. ev'.hopes # 0 =>
           /\ \A k \in Key : obj[k] # Absent => obj[k].mem # "NONE"
           /\ \A c \in Listed : Cand(c[1]) /\ obj[c[1]].lease = c[2]
           /\ \A c \in ev.noPin : ~Pinned(c[1])
           /\ \A c \in ev.softPin : Pinned(c[1])
           /\ ev.hopes <= ev.evicted + A + B
    <2> SUFFICES ASSUME ev'.hopes # 0
                 PROVE  /\ \A k \in Key : obj[k] # Absent => obj[k].mem # "NONE"
                        /\ \A c \in Listed : Cand(c[1]) /\ obj[c[1]].lease = c[2]
                        /\ \A c \in ev.noPin : ~Pinned(c[1])
                        /\ \A c \in ev.softPin : Pinned(c[1])
                        /\ ev.hopes <= ev.evicted + A + B
      OBVIOUS
    <2>1. Unseen = {}  BY <1>8 DEF Unseen
    <2>2. Cardinality(Unseen) = 0  BY <2>1, FS_EmptySet
    <2> QED  BY <1>1, <1>2, <1>4, <1>6, <2>2 DEF EvictInv, Hope
  <1> HIDE DEF n, A, B, quota
  <1>11. Types' /\ Times' /\ Lists'  BY <1>1, CarriedInv
  <1>12. ev'.pc # "pass1" /\ ev'.pc # "sleep"  BY <1>1
  <1>13. Pass1Lists'  BY <1>12 DEF Pass1Lists
  <1>14. ev'.hopes # 0 => Min2(quota, ev.hopes) <= ev.evicted + n
    BY <1>4, <1>6, <1>10 DEF Min2
  <1>15. Enough' = Min2(quota, ev.hopes)  BY <1>2 DEF Enough, quota
  <1>16. CASE n = 0 /\ ev'.pc = "done" /\ ev'.left = ev.left
    <2>1. Budget'  BY <1>2, <1>5, <1>12, <1>16 DEF Budget
    <2>2. Second'  BY <1>2, <1>9, <1>16 DEF Second
    <2>3. Hope'  BY <1>2, <1>6, <1>10, <1>14, <1>15, <1>16 DEF Hope
    <2> QED  BY <1>11, <1>13, <2>1, <2>2, <2>3 DEF EvictInv
  <1>17. ASSUME n > 0, ev'.left = n PROVE Budget'
    <2>1. ev.evicted + n <= ev.count /\ ev.evicted + n <= CeilPercent(ev.count, ev.target)
      BY <1>4, <1>5, <1>6, <1>7, <1>17
    <2> QED  BY <1>2, <1>12, <1>17, <2>1 DEF Budget
  <1>18. \A k \in Key : /\ ev'.i = 0 => ~Visited(k)'
                        /\ Cand(k)' <=> Cand(k)
                        /\ Pinned(k)' <=> Pinned(k)
                        /\ obj'[k] = obj[k]
    BY <1>2, ReachedSteps DEF Visited, Cand, Pinned, IsSoftPinned, EvRecord
  <1>19. \A k \in Key : Cand(k) => IF Pinned(k) THEN AllowSoftEvict => <<k, obj[k].lease>> \in ev.softPin
                                   ELSE <<k, obj[k].lease>> \in ev.noPin
    BY <1>1, <1>8 DEF EvictInv, Pass1Lists
  <1> DEFINE U == {k \in Key : Cand(k) /\ ~Pinned(k)}
  <1>20. ASSUME ev'.hopes # 0 PROVE ev.noPin \subseteq Entry(U)
    <2>1. ASSUME NEW c \in ev.noPin PROVE c \in Entry(U)
      <3>1. c = <<c[1], c[2]>> /\ c[1] \in Key  BY <1>3
      <3>2. Cand(c[1]) /\ obj[c[1]].lease = c[2] /\ ~Pinned(c[1])  BY <1>10, <1>20 DEF Listed
      <3> QED  BY <3>1, <3>2 DEF Entry
    <2> QED  BY <2>1
  <1>21. CASE /\ ev'.pc = "pass2A" /\ ev'.i = 0 /\ ev'.left = n /\ n \in 1 .. A
              /\ ev'.limit = NthLease(ev.noPin, n)
    <2> DEFINE v == NthLease(ev.noPin, n)
               T == {c \in ev.noPin : c[2] <= v}
    <2>1. n > 0  BY <1>4, <1>21
    <2>2. Budget'  BY <1>17, <1>21, <2>1
    <2>3. v \in Nat /\ v <= ev.now /\ Cardinality(T) >= n
      BY <1>3, <1>6, <1>21, NthLeaseExists DEF A
    <2> HIDE DEF v
    <2>4. ev'.limit = v  BY <1>21 DEF v
    <2>5. Second'  BY <1>2, <1>9, <1>21, <2>3, <2>4 DEF Second
    <2>6. Hope'
      <3> SUFFICES ASSUME ev'.hopes # 0 PROVE Hope'  BY DEF Hope
      <3> DEFINE K == {k \in Key : Cand(k) /\ ~Pinned(k) /\ obj[k].lease <= v}
      <3>1. Todo' = K  BY <1>18, <1>21, <2>4 DEF Todo, May
      <3>2. T \subseteq Entry(K)
        <4>1. ASSUME NEW c \in T PROVE c \in Entry(K)
          <5>1. c = <<c[1], c[2]>> /\ c[1] \in Key /\ c[2] <= v  BY <1>3
          <5>2. Cand(c[1]) /\ obj[c[1]].lease = c[2] /\ ~Pinned(c[1])  BY <1>10 DEF Listed
          <5> QED  BY <5>1, <5>2 DEF Entry
        <4> QED  BY <4>1
      <3>3. K \in SUBSET Key  OBVIOUS
      <3>4. IsFiniteSet(T)
        <4>1. T \subseteq ev.noPin  OBVIOUS
        <4> QED  BY <1>3, <4>1, FS_Subset
      <3> HIDE DEF K, T
      <3>5. Cardinality(T) <= Cardinality(K)  BY <3>2, <3>3, EntryMore
      <3>6. Cardinality(T) \in Nat /\ Cardinality(K) \in Nat  BY <3>3, <3>4, KeyFinite, FS_CardinalityType
      <3>7. n <= Cardinality(Todo')  BY <1>4, <2>3, <3>1, <3>5, <3>6
      <3> QED  BY <1>2, <1>10, <1>14, <1>15, <1>21, <3>7 DEF Hope
    <2> QED  BY <1>11, <1>13, <2>2, <2>5, <2>6 DEF EvictInv
  <1>22. CASE /\ ev'.pc = "pass2B" /\ ev'.i = 0 /\ ev'.left = n /\ n - A \in 1 .. B
              /\ ev'.limit = NthLease(ev.softPin, n - A)
    <2> DEFINE m == n - A
               v == NthLease(ev.softPin, m)
               T == {c \in ev.softPin : c[2] <= v}
               V == {k \in Key : Cand(k) /\ Pinned(k) /\ obj[k].lease <= v}
    <2>1. n > 0 /\ m \in 1 .. B /\ m \in Nat /\ n = A + m  BY <1>4, <1>22
    <2>2. Budget'  BY <1>17, <1>22, <2>1
    <2>3. ev.softPin # {} /\ AllowSoftEvict
      <3>1. Cardinality(ev.softPin) # 0  BY <1>4, <2>1 DEF B
      <3>2. ev.softPin # {}  BY <3>1, FS_EmptySet
      <3> QED  BY <1>3, <3>2
    <2>4. m \in 1 .. Cardinality(ev.softPin)  BY <2>1 DEF B
    <2>5. ev'.limit = v  BY <1>22
    <2> HIDE DEF m
    <2>6. v \in Nat /\ Cardinality(T) >= m  BY <1>3, <1>6, <2>4, NthLeaseExists
    <2>7. Cardinality(T) <= m
      <3>1. \A c, d \in ev.softPin : c[2] = d[2] => c = d
        BY <1>1 DEF EvictInv, Pass1Lists, Listed
      <3> QED  BY <1>3, <1>6, <2>4, <3>1, NthLeaseExact
    <2> HIDE DEF v
    <2>8. IsFiniteSet(T) /\ Cardinality(T) \in Nat
      <3>1. T \subseteq ev.softPin  OBVIOUS
      <3>2. IsFiniteSet(T)  BY <1>3, <3>1, FS_Subset
      <3> QED  BY <3>2, FS_CardinalityType
    <2>9. Todo' = U \cup V /\ U \cap V = {} /\ U \in SUBSET Key /\ V \in SUBSET Key
      BY <1>18, <1>22, <2>5 DEF Todo, May
    <2>10. Entry(U) \subseteq ev.noPin  BY <1>19 DEF Entry
    <2>11. Entry(V) \subseteq T  BY <1>19, <2>3 DEF Entry
    <2>12. ev'.hopes # 0 => T \subseteq Entry(V)
      <3>1. ASSUME ev'.hopes # 0, NEW c \in T PROVE c \in Entry(V)
        <4>1. c = <<c[1], c[2]>> /\ c[1] \in Key /\ c[2] <= v  BY <1>3, <3>1
        <4>2. Cand(c[1]) /\ obj[c[1]].lease = c[2] /\ Pinned(c[1])  BY <1>10, <3>1 DEF Listed
        <4> QED  BY <4>1, <4>2 DEF Entry
      <3> QED  BY <3>1
    <2> HIDE DEF U, V, T
    <2>13. Cardinality(U) <= A /\ Cardinality(V) <= Cardinality(T)
      BY <1>3, <2>8, <2>9, <2>10, <2>11, EntryLess DEF A
    <2>14. /\ Cardinality(Todo') = Cardinality(U) + Cardinality(V)
           /\ Cardinality(U) \in Nat /\ Cardinality(V) \in Nat
      BY <2>9, KeyAdd, KeyFinite
    <2>15. Cardinality(Todo') <= n  BY <1>4, <2>1, <2>7, <2>8, <2>13, <2>14
    <2>16. Second'  BY <1>2, <1>18, <1>22, <2>3, <2>15 DEF Second
    <2>17. Hope'
      <3> SUFFICES ASSUME ev'.hopes # 0 PROVE Hope'  BY DEF Hope
      <3>1. A <= Cardinality(U)  BY <1>20, <2>9, EntryMore DEF A
      <3>2. Cardinality(T) <= Cardinality(V)  BY <2>9, <2>12, EntryMore
      <3>3. n <= Cardinality(Todo')  BY <1>4, <2>1, <2>6, <2>8, <2>14, <3>1, <3>2
      <3> QED  BY <1>2, <1>10, <1>14, <1>15, <1>22, <3>3 DEF Hope
    <2> QED  BY <1>11, <1>13, <2>2, <2>16, <2>17 DEF EvictInv
  <1> QED  BY <1>1, <1>16, <1>21, <1>22

LEMMA Pass2Inv == ASSUME EvictInv, Pass2 PROVE EvictInv'
  <1>1. PICK gone \in SUBSET Key : Pass2Of(gone)  BY Pass2Effect DEF EvictInv
  <1>2. /\ ev \in EvRecord /\ ev' \in EvRecord /\ ev.pc \in {"pass2A", "pass2B"} /\ ev'.pc = ev.pc
        /\ ev.i < NumShards /\ ev'.i = ev.i + 1 /\ ev'.start = ev.start /\ ev'.now = ev.now
        /\ ev'.target = ev.target /\ ev'.lower = ev.lower /\ ev'.count = ev.count
        /\ ev'.noPin = ev.noPin /\ ev'.softPin = ev.softPin /\ ev'.limit = ev.limit
        /\ ev'.hopes = ev.hopes /\ UNCHANGED <<clock, calls>> /\ obj' \in [Key -> ObjRecord]
        /\ obj' = [k \in Key |-> IF k \in gone THEN Absent ELSE obj[k]]
    BY <1>1 DEF Pass2Of
  <1>3. /\ gone \in SUBSET Takeable /\ Cardinality(gone) = Min2(ev.left, Cardinality(Takeable))
        /\ ev'.left = ev.left - Cardinality(gone) /\ ev'.evicted = ev.evicted + Cardinality(gone)
        /\ ev'.pinnedGone => ev.pinnedGone \/ \E k \in gone : Pinned(k)
    BY <1>1 DEF Pass2Of
  <1>4. /\ ev.left \in Nat /\ ev.evicted \in Nat /\ ev.count \in Nat /\ ev.hopes \in Nat
    BY <1>2 DEF EvRecord
  <1>5. Takeable \in SUBSET Todo /\ Todo \in SUBSET Key /\ Todo' \in SUBSET Key
    BY DEF Takeable, Todo
  <1>6. /\ Cardinality(gone) \in Nat /\ Cardinality(Takeable) \in Nat /\ Cardinality(Todo) \in Nat
        /\ Cardinality(Todo') \in Nat
    <2>1. Takeable \in SUBSET Key  BY <1>5
    <2> QED  BY <1>5, <2>1, KeyFinite
  <1>7. Cardinality(gone) <= ev.left  BY <1>3, <1>4, <1>6 DEF Min2
  <1>8. \A k \in Key : obj'[k] = IF k \in gone THEN Absent ELSE obj[k]  BY <1>2
  <1>9. Absent.mem = "NONE"  BY DEF Absent
  <1>10. \A k \in Key : /\ Cand(k)' => Cand(k) /\ k \notin gone /\ obj'[k] = obj[k]
                        /\ k \notin gone => (Pinned(k)' <=> Pinned(k)) /\ (Cand(k)' <=> Cand(k))
    BY <1>2, <1>8, <1>9 DEF Cand, Pinned, IsSoftPinned
  <1>11. \A k \in Key : /\ Visited(k)' <=> Visited(k) \/ Here(k)
                        /\ Here(k) => ~Visited(k)
    BY <1>2, ReachedSteps DEF Visited, Here, Shard, EvRecord
  <1>12. Todo' = Todo \ Takeable
    <2>1. ASSUME NEW k \in Key PROVE k \in Todo' <=> k \in Todo \ Takeable
      <3>1. CASE k \in gone  BY <1>3, <1>10, <3>1 DEF Todo, May
      <3>2. CASE k \notin gone
        <4>1. May(k)' <=> May(k)  BY <1>2, <1>8, <1>10, <3>2 DEF May
        <4> QED  BY <1>11, <4>1 DEF Todo, Takeable
      <3> QED  BY <3>1, <3>2
    <2> QED  BY <1>5, <2>1
  <1>13. Cardinality(Todo) = Cardinality(Todo') + Cardinality(Takeable)
    <2>1. Todo = Todo' \cup Takeable /\ Todo' \cap Takeable = {} /\ Takeable \in SUBSET Key
      BY <1>5, <1>12
    <2>2. Cardinality(Todo' \cup Takeable) = Cardinality(Todo') + Cardinality(Takeable)
      BY <1>5, <2>1, KeyAdd
    <2> QED  BY <2>1, <2>2, Zenon
  <1>14. Types'
    <2>1. ev.now <= clock /\ ev.lower <= ev.target  BY <1>2, RecordNotSleeping DEF EvictInv, Types
    <2> QED  BY <1>2, <2>1 DEF EvictInv, Types
  <1>15. Times'
    <2>1. Thinned  BY <1>2, <1>8 DEF Thinned
    <2> QED  BY <2>1, TimesThinned DEF EvictInv
  <1>16. Lists'  BY <1>2 DEF EvictInv, Lists, Listed
  <1>17. Pass1Lists'  BY <1>2 DEF Pass1Lists
  <1>18. ev'.evicted + ev'.left = ev.evicted + ev.left  BY <1>3, <1>4, <1>6, <1>7
  <1>19. Budget'  BY <1>2, <1>18 DEF EvictInv, Budget
  <1>20. Second'
    <2>1. ev'.pc = "pass2A" => ev'.limit <= ev'.now  BY <1>2 DEF EvictInv, Second
    <2>2. ev'.pc = "pass2A" => ~ev'.pinnedGone
      <3>1. ASSUME ev.pc = "pass2A" PROVE ~ev.pinnedGone /\ \A k \in gone : ~Pinned(k)
        BY <1>3, <3>1 DEF EvictInv, Second, Takeable, Todo, May
      <3> QED  BY <1>2, <1>3, <3>1
    <2>3. ASSUME ev.pc = "pass2B"
          PROVE  /\ AllowSoftEvict /\ Cardinality(Todo') <= ev'.left
                 /\ \A k \in Key : Cand(k)' /\ Visited(k)' => Pinned(k)'
      <3>1. AllowSoftEvict /\ Cardinality(Todo) <= ev.left
            /\ \A k \in Key : Cand(k) /\ Visited(k) => Pinned(k)
        BY <2>3 DEF EvictInv, Second
      <3>2. Cardinality(gone) = Cardinality(Takeable)  BY <1>3, <1>4, <1>6, <1>13, <3>1 DEF Min2
      <3>3. gone = Takeable
        <4>1. Takeable \in SUBSET Key  BY <1>5
        <4> QED  BY <1>3, <3>2, <4>1, KeySame
      <3>4. Cardinality(Todo') <= ev'.left  BY <1>3, <1>4, <1>6, <1>13, <3>1, <3>2
      <3>5. ASSUME NEW k \in Key, Cand(k)', Visited(k)' PROVE Pinned(k)'
        <4>1. Cand(k) /\ k \notin gone /\ (Pinned(k)' <=> Pinned(k))  BY <1>10, <3>5
        <4>2. CASE Visited(k)  BY <3>1, <4>1, <4>2
        <4>3. CASE Here(k)
          <5>1. k \notin Todo  BY <3>3, <4>1, <4>3 DEF Takeable
          <5>2. ~May(k)  BY <1>11, <4>3, <5>1 DEF Todo
          <5> QED  BY <2>3, <4>1, <5>2 DEF May
        <4> QED  BY <1>11, <3>5, <4>2, <4>3
      <3> QED  BY <3>1, <3>4, <3>5
    <2> QED  BY <1>2, <2>1, <2>2, <2>3 DEF Second
  <1>21. Hope'
    <2> SUFFICES ASSUME ev'.hopes # 0 PROVE Hope'  BY DEF Hope
    <2>1. /\ \A k \in Key : obj[k] # Absent => obj[k].mem # "NONE"
          /\ ev.left <= Cardinality(Todo) /\ Enough <= ev.evicted + ev.left
      BY <1>2 DEF EvictInv, Hope
    <2>2. \A k \in Key : obj'[k] # Absent => obj'[k].mem # "NONE"  BY <1>8, <2>1
    <2>3. ev'.left <= Cardinality(Todo')  BY <1>3, <1>4, <1>6, <1>13, <2>1 DEF Min2
    <2>4. Enough' = Enough  BY <1>2 DEF Enough
    <2> QED  BY <1>2, <1>18, <2>1, <2>2, <2>3, <2>4 DEF Hope
  <1> QED  BY <1>14, <1>15, <1>16, <1>17, <1>19, <1>20, <1>21 DEF EvictInv

LEMMA Pass2EndInv == ASSUME EvictInv, Pass2End PROVE EvictInv'
  <1>1. /\ Carried /\ ev.pc \in {"pass2A", "pass2B"} /\ ev'.pc = "done" /\ ev'.left = ev.left
        /\ ev.i = NumShards \/ ev.left = 0
    BY Pass2EndEffect DEF EvictInv
  <1>2. /\ ev \in EvRecord /\ ev' \in EvRecord /\ obj' = obj /\ ev'.now = ev.now
        /\ ev'.target = ev.target /\ ev'.lower = ev.lower /\ ev'.count = ev.count
        /\ ev'.evicted = ev.evicted /\ ev'.pinnedGone = ev.pinnedGone /\ ev'.hopes = ev.hopes
    BY <1>1 DEF Carried
  <1>3. Types' /\ Times' /\ Lists'  BY <1>1, CarriedInv
  <1>4. Pass1Lists'  BY <1>1 DEF Pass1Lists
  <1>5. Budget'  BY <1>1, <1>2 DEF EvictInv, Budget
  <1>6. Todo \in SUBSET Key /\ Cardinality(Todo) \in Nat /\ ev.left \in Nat /\ ev.evicted \in Nat
    <2>1. Todo \in SUBSET Key  BY DEF Todo
    <2> QED  BY <1>2, <2>1, KeyFinite DEF EvRecord
  <1>7. ev.i = NumShards => Todo = {} /\ \A k \in Key : Visited(k)
    BY <1>2, ReachedSteps, EvictKeyAssumption DEF Todo, Visited, EvRecord
  <1>8. Second'
    <2> SUFFICES ASSUME ev'.pinnedGone, NEW k \in Key, Cand(k)' PROVE Pinned(k)'
      BY <1>1 DEF Second
    <2>1. Cand(k) /\ (Pinned(k)' <=> Pinned(k))  BY <1>2 DEF Cand, Pinned, IsSoftPinned
    <2>2. ev.pc = "pass2B"  BY <1>1, <1>2 DEF EvictInv, Second
    <2>3. Cardinality(Todo) <= ev.left /\ \A j \in Key : Cand(j) /\ Visited(j) => Pinned(j)
      BY <2>2 DEF EvictInv, Second
    <2>4. CASE Visited(k)  BY <2>1, <2>3, <2>4
    <2>5. CASE ~Visited(k)
      <3>1. ev.left = 0  BY <1>1, <1>7, <2>5
      <3>2. Cardinality(Todo) = 0  BY <1>6, <2>3, <3>1
      <3>3. Todo = {}  BY <1>6, <3>2, KeyFinite, FS_EmptySet
      <3>4. ~May(k)  BY <2>5, <3>3 DEF Todo
      <3> QED  BY <2>1, <2>2, <3>4 DEF May
    <2> QED  BY <2>4, <2>5
  <1>9. Hope'
    <2> SUFFICES ASSUME ev'.hopes # 0 PROVE Hope'  BY DEF Hope
    <2>1. /\ \A k \in Key : obj[k] # Absent => obj[k].mem # "NONE"
          /\ ev.left <= Cardinality(Todo) /\ Enough <= ev.evicted + ev.left
      BY <1>1, <1>2 DEF EvictInv, Hope
    <2>2. ev.left = 0
      <3>1. CASE ev.i = NumShards
        <4>1. Cardinality(Todo) = 0  BY <1>7, <3>1, FS_EmptySet
        <4> QED  BY <1>6, <2>1, <4>1
      <3> QED  BY <1>1, <3>1
    <2>3. Enough' = Enough  BY <1>2 DEF Enough
    <2>4. Enough' <= ev'.evicted  BY <1>2, <1>6, <2>1, <2>2, <2>3
    <2> QED  BY <1>1, <1>2, <2>1, <2>4 DEF Hope
  <1> QED  BY <1>3, <1>4, <1>5, <1>8, <1>9 DEF EvictInv

LEMMA InitInv == Init => EvictInv
  <1> SUFFICES ASSUME Init PROVE EvictInv  OBVIOUS
  <1>1. Cardinality(Key) \in Nat  BY KeyFinite
  <1>2. PICK age \in [Key -> Ages], pinned \in SUBSET Key, disk \in SUBSET Key :
          /\ \A k1, k2 \in Key : k1 # k2 => age[k1] # age[k2]
          /\ obj = [k \in Key |->
                Object(IF k \in disk THEN "NONE" ELSE "COMPLETE", k \in disk, age[k],
                       IF k \in pinned THEN age[k] + SoftTTL ELSE 0)]
    BY DEF Init
  <1>3. \A k \in Key : age[k] \in Nat /\ age[k] % 2 = 0 /\ age[k] <= 2 * Cardinality(Key)
    <2>1. ASSUME NEW k \in Key
          PROVE age[k] \in Nat /\ age[k] % 2 = 0 /\ age[k] <= 2 * Cardinality(Key)
      <3>1. PICK i \in 1 .. Cardinality(Key) : age[k] = 2 * i  BY <1>2, EvictTimeAssumption
      <3> QED  BY <1>1, <3>1
    <2> QED  BY <2>1
  <1>4. clock = 2 * Cardinality(Key) /\ calls = 0 /\ ev = Sleeping  BY DEF Init, Sleeping
  <1>5. clock \in Nat /\ clock % 2 = 0  BY <1>1, <1>4
  <1>6. \A k \in Key : /\ obj[k].lease = age[k] /\ obj[k].disk = (k \in disk)
                       /\ obj[k].mem = IF k \in disk THEN "NONE" ELSE "COMPLETE"
    BY <1>2 DEF Object
  <1>7. obj \in [Key -> ObjRecord]
    <2>1. ASSUME NEW k \in Key
          PROVE  Object(IF k \in disk THEN "NONE" ELSE "COMPLETE", k \in disk, age[k],
                        IF k \in pinned THEN age[k] + SoftTTL ELSE 0) \in ObjRecord
      <3>1. (IF k \in pinned THEN age[k] + SoftTTL ELSE 0) \in Nat  BY <1>3, EvictTimeAssumption
      <3>2. (IF k \in disk THEN "NONE" ELSE "COMPLETE") \in {"NONE", "PROCESSING", "COMPLETE"}
        OBVIOUS
      <3>3. (k \in disk) \in BOOLEAN  OBVIOUS
      <3> QED  BY <1>3, <3>1, <3>2, <3>3 DEF Object, ObjRecord
    <2> QED  BY <1>2, <2>1
  <1>8. Types  BY <1>4, <1>5, <1>7, EvictSwitchAssumption DEF Types
  <1>9. Times
    <2>1. \A k \in Key : /\ obj[k].mem # "PROCESSING"
                         /\ obj[k].mem # "NONE" => ~obj[k].disk
                         /\ obj[k].lease % 2 = 0 /\ obj[k].lease <= clock
      BY <1>3, <1>4, <1>6
    <2>2. \A j, k \in Key : obj[j].lease = obj[k].lease => j = k  BY <1>2, <1>6
    <2> QED  BY <1>5, <2>1, <2>2 DEF Times
  <1>10. ev.pc = "sleep"  BY <1>4, RecordNotSleeping
  <1> QED  BY <1>8, <1>9, <1>10 DEF EvictInv, Lists, Pass1Lists, Budget, Second, Hope

LEMMA NextInv == EvictInv /\ [Next]_vars => EvictInv'
  <1> SUFFICES ASSUME EvictInv, [Next]_vars PROVE EvictInv'  OBVIOUS
  <1>1. CASE EvictStart  BY <1>1, StartInv
  <1>2. CASE Pass1  BY <1>2, Pass1Inv
  <1>3. CASE ChoosePass2  BY <1>3, ChooseInv
  <1>4. CASE Pass2  BY <1>4, Pass2Inv
  <1>5. CASE Pass2End  BY <1>5, Pass2EndInv
  <1>6. CASE Sleep  BY <1>6, SleepInv
  <1>7. ASSUME NEW k \in Key,
               Access(k) \/ PutEnd(k) \/ Remove(k) \/ \E soft \in BOOLEAN : PutStart(k, soft)
        PROVE  EvictInv'
    <2>1. CallOf(k)  BY <1>7, CallEffect DEF EvictInv
    <2> QED  BY <2>1, CallInv
  <1>8. CASE UNCHANGED vars
    BY <1>8
    DEF vars, EvictInv, Types, Times, Held, Lists, Listed, Pass1Lists, Visited, Cand, Pinned,
        IsSoftPinned, Budget, Second, Todo, May, Hope, Unseen, Enough
  <1> QED  BY <1>1, <1>2, <1>3, <1>4, <1>5, <1>6, <1>7, <1>8 DEF Next

LEMMA EvictInvHolds == Spec => []EvictInv
  BY InitInv, NextInv, PTL DEF Spec

\* The steps that take an object.
LEMMA OnlyAllowed ==
  ASSUME EvictInv, Next, NEW k \in Key, calls' = calls, obj'[k] # obj[k]
  PROVE  /\ IsLeaseExpired(k, clock) /\ obj[k].mem = "COMPLETE"
         /\ IsSoftPinned(k, clock) => AllowSoftEvict /\ ev.pc = "pass2B"
  <1>1. Pass1 \/ Pass2
    <2>1. \A j \in Key : ~(\/ Access(j) \/ PutEnd(j) \/ Remove(j)
                           \/ \E soft \in BOOLEAN : PutStart(j, soft))
      <3>1. ASSUME NEW j \in Key,
                   Access(j) \/ PutEnd(j) \/ Remove(j) \/ \E soft \in BOOLEAN : PutStart(j, soft)
            PROVE  FALSE
        <4>1. CallOf(j)  BY <3>1, CallEffect DEF EvictInv
        <4>2. calls \in Nat /\ calls' = calls + 1
          BY <4>1, EvictSwitchAssumption DEF CallOf, EvictInv, Types
        <4> QED  BY <4>2
      <3> QED  BY <3>1
    <2>2. ~EvictStart /\ ~ChoosePass2 /\ ~Pass2End /\ ~Sleep
      BY DEF EvictStart, ChoosePass2, Pass2End, Sleep
    <2> QED  BY <2>1, <2>2 DEF Next
  <1>2. clock \in Nat /\ obj[k].lease \in Nat /\ obj[k].soft \in Nat
    BY DEF EvictInv, Types, ObjRecord
  <1>3. CASE Pass1
    <2>1. PICK gone, kept, pinned \in SUBSET Key : Pass1Of(gone, kept, pinned)
      BY <1>3, Pass1Effect DEF EvictInv
    <2>2. k \in gone  BY <2>1 DEF Pass1Of
    <2>3. Cand(k) /\ ~Pinned(k) /\ ev \in EvRecord  BY <2>1, <2>2 DEF Pass1Of
    <2>4. ev.now \in Nat /\ ev.now <= clock
      BY <2>3, RecordNotSleeping DEF EvictInv, Types, EvRecord, Sleeping
    <2> QED  BY <1>2, <2>3, <2>4 DEF Cand, Pinned, IsSoftPinned, IsLeaseExpired
  <1>4. CASE Pass2
    <2>1. PICK gone \in SUBSET Key : Pass2Of(gone)  BY <1>4, Pass2Effect DEF EvictInv
    <2>2. k \in Takeable /\ ev \in EvRecord /\ ev.pc \in {"pass2A", "pass2B"}
      BY <2>1 DEF Pass2Of
    <2>3. ev.now \in Nat /\ ev.now <= clock
      BY <2>2, RecordNotSleeping DEF EvictInv, Types, EvRecord, Sleeping
    <2>4. Cand(k) /\ (Pinned(k) => ev.pc = "pass2B")  BY <2>2 DEF Takeable, Todo, May
    <2>5. ev.pc = "pass2B" => AllowSoftEvict  BY DEF EvictInv, Second
    <2> QED  BY <1>2, <2>3, <2>4, <2>5 DEF Cand, Pinned, IsSoftPinned, IsLeaseExpired
  <1> QED  BY <1>1, <1>3, <1>4

(***************************************************************************)
(* The theorems.                                                           *)
(***************************************************************************)
\* BatchEvict works with a time and with lists that are stale at each shard it
\* locks; still it never takes an object whose lease has been renewed, whose Put
\* is under way, or, outside second pass B, that is soft-pinned.
THEOREM EvictsAllowed == Spec => EvictAllowed
  <1>1. EvictInv /\ [Next]_vars =>
          [\A k \in Key : calls' = calls /\ obj'[k] # obj[k] =>
              /\ IsLeaseExpired(k, clock)
              /\ obj[k].mem = "COMPLETE"
              /\ IsSoftPinned(k, clock) => AllowSoftEvict /\ ev.pc = "pass2B"]_vars
    BY OnlyAllowed
  <1> QED  BY <1>1, EvictInvHolds, PTL DEF Spec, EvictAllowed

\* The counters stay in range, the "should not happen" branch is not reached and
\* no run of BatchEvict takes more than its target ratio, whatever is put and
\* removed between the shards.
THEOREM EvictsBounded == Spec => []EvictBounded
  <1>1. EvictInv => EvictBounded
    <2> SUFFICES ASSUME EvictInv PROVE EvictBounded  OBVIOUS
    <2>1. \A k \in Key : obj[k].mem \in {"NONE", "PROCESSING", "COMPLETE"}
      BY DEF EvictInv, Types, ObjRecord
    <2>2. CASE ev = Sleeping
      <3>1. ev.pc = "sleep"  BY <2>2, RecordNotSleeping
      <3> QED  BY <2>1, <3>1 DEF EvictInv, Types, EvictBounded, EvictTypeOK
    <2>3. CASE ev # Sleeping
      <3>1. ev \in EvRecord /\ ev.now <= clock  BY <2>3 DEF EvictInv, Types
      <3>2. ev.pc # "sleep"  BY <3>1, RecordNotSleeping
      <3>3. /\ ev.pc \in {"pass1", "pass2A", "pass2B", "done"} /\ ev.i \in 0 .. NumShards
            /\ ev.evicted \in Nat /\ ev.left \in Nat /\ ev.count \in Nat /\ ev.target \in Nat
        BY <3>1 DEF EvRecord
      <3>4. CeilPercent(ev.count, ev.target) \in Nat
        <4>1. ev.count <= ev.count /\ ev.target <= ev.target  BY <3>3
        <4> QED  BY <3>3, <4>1, QuotaMonotone
      <3>5. ev.evicted <= ev.count /\ ev.evicted <= CeilPercent(ev.count, ev.target)
        BY <3>2, <3>3, <3>4 DEF EvictInv, Budget
      <3>6. {c[1] : c \in ev.noPin} \cap {c[1] : c \in ev.softPin} = {}
        BY <3>2 DEF EvictInv, Lists
      <3>7. ev.evicted \in 0 .. ev.count  BY <3>3, <3>5
      <3> QED
        BY <2>1, <3>1, <3>3, <3>5, <3>6, <3>7 DEF EvictInv, Types, EvictBounded, EvictTypeOK
    <2> QED  BY <2>2, <2>3
  <1> QED  BY <1>1, EvictInvHolds, PTL

\* A run of BatchEvict that broke a soft pin leaves no other object that could
\* have gone instead, although it did not know what calls changed behind it.
THEOREM SoftPinsLast == Spec => []SoftPinLast
  <1>1. EvictInv => SoftPinLast
    <2> SUFFICES ASSUME EvictInv, ev.pc = "done", ev.pinnedGone, NEW k \in Objects,
                        obj[k].mem = "COMPLETE", IsLeaseExpired(k, ev.now)
                 PROVE  IsSoftPinned(k, ev.now)
      BY DEF SoftPinLast
    <2>1. k \in Key  BY DEF Objects
    <2>2. ev \in EvRecord  BY RecordNotSleeping DEF EvictInv, Types
    <2>3. ev.now \in Nat /\ obj[k].lease \in Nat  BY <2>1, <2>2 DEF EvRecord, EvictInv, Types, ObjRecord
    <2>4. Cand(k)  BY <2>3 DEF Cand, IsLeaseExpired
    <2>5. Pinned(k)  BY <2>1, <2>4 DEF EvictInv, Second
    <2> QED  BY <2>5 DEF Pinned
  <1> QED  BY <1>1, EvictInvHolds, PTL

\* A run of BatchEvict that no call disturbs reaches the lower bound of the ratio
\* or takes everything that may go.
THEOREM EvictsAsMuch == Spec => []EvictsEnough
  <1>1. EvictInv => EvictsEnough
    <2> SUFFICES ASSUME EvictInv, ev.pc = "done"
                 PROVE  ev.evicted >= Min2(CeilPercent(ev.count, ev.lower), ev.hopes)
      BY DEF EvictsEnough
    <2>1. ev \in EvRecord  BY RecordNotSleeping DEF EvictInv, Types
    <2>2. ev.evicted \in Nat /\ ev.hopes \in Nat /\ ev.count \in Nat /\ ev.lower \in Nat
      BY <2>1 DEF EvRecord
    <2>3. CeilPercent(ev.count, ev.lower) \in Nat
      <3>1. ev.count <= ev.count /\ ev.lower <= ev.lower  BY <2>2
      <3> QED  BY <2>2, <3>1, QuotaMonotone
    <2>4. CASE ev.hopes = 0  BY <2>2, <2>3, <2>4 DEF Min2
    <2>5. CASE ev.hopes # 0
      <3>1. Enough <= ev.evicted  BY <2>5 DEF EvictInv, Hope
      <3> QED  BY <2>2, <2>3, <3>1 DEF Enough, Min2
    <2> QED  BY <2>4, <2>5
  <1> QED  BY <1>1, EvictInvHolds, PTL
=============================================================================
