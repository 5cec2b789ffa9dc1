---------------------------- MODULE P2PStoreProofs ----------------------------
(***************************************************************************)
(* Safety of the P2P store, for every finite set of peers and every        *)
(* layout.  The invariant P2PInv says what a call may rely on at each of   *)
(* its steps, that a current revision means a current payload, and who the *)
(* record can list; every step is shown to be of one of six kinds, by what *)
(* it does to the record and to the catalog of its peer.  That a listed    *)
(* peer holds the file is shown, on top of it, for a file of one shard     *)
(* among peers that open the name once: TLC has counterexamples for more.  *)
(***************************************************************************)
EXTENDS P2PStore, FiniteSetTheorems, SequenceTheorems, WellFoundedInduction, TLAPS

\* A set of naturals has a least element.
LEMMA Smallest == ASSUME NEW T \in SUBSET Nat, T # {} PROVE \E m \in T : \A y \in T : m <= y
  <1> DEFINE R == OpToRel(<, Nat)
  <1>1. IsWellFoundedOn(R, Nat)  BY NatLessThanWellFounded
  <1>2. \A y, m \in Nat : y < m => <<y, m>> \in R  BY DEF OpToRel
  <1> HIDE DEF R
  <1>3. PICK m \in T : \A y \in T : ~(<<y, m>> \in R)  BY <1>1, WFMin
  <1>4. \A y \in T : ~(y < m)  BY <1>2, <1>3
  <1> QED  BY <1>4

\* Induction, for a set of naturals.
LEMMA NatInd == ASSUME NEW S, 0 \in S, \A n \in Nat : n \in S => n + 1 \in S
                PROVE  \A n \in Nat : n \in S
  <1> SUFFICES ASSUME NEW n \in Nat, n \notin S PROVE FALSE  OBVIOUS
  <1>1. PICK m \in Nat \ S : \A y \in Nat \ S : m <= y  BY Smallest
  <1>2. m # 0  OBVIOUS
  <1>3. m - 1 \in Nat /\ ~(m <= m - 1)  BY <1>2
  <1>4. m - 1 \in S  BY <1>1, <1>3
  <1>5. (m - 1) + 1 \in S  BY <1>3, <1>4
  <1> QED  BY <1>5

-----------------------------------------------------------------------------
(* The loop over ReplicaList.                                               *)
Copies(f, s, n, m) ==
    f = [i \in 0..m |-> IF i = 0 THEN <<>>
                        ELSE IF s[i] = n THEN f[i - 1] ELSE Append(f[i - 1], s[i])]

\* A function that satisfies the equation of the loop exists.
LEMMA CopyExists == ASSUME NEW s, NEW n PROVE \A m \in Nat : \E f : Copies(f, s, n, m)
  <1> DEFINE S == {m \in Nat : \E f : Copies(f, s, n, m)}
  <1>1. 0 \in S
    <2>1. Copies([i \in 0..0 |-> <<>>], s, n, 0)  BY DEF Copies
    <2> QED  BY <2>1
  <1>2. ASSUME NEW m \in Nat, m \in S PROVE m + 1 \in S
    <2>1. PICK f : Copies(f, s, n, m)  BY <1>2
    <2> DEFINE g == [i \in 0..(m + 1) |->
                       IF i <= m THEN f[i]
                       ELSE IF s[m + 1] = n THEN f[m] ELSE Append(f[m], s[m + 1])]
    <2>2. \A i \in 0..m : f[i] = IF i = 0 THEN <<>>
                                 ELSE IF s[i] = n THEN f[i - 1] ELSE Append(f[i - 1], s[i])
      BY <2>1 DEF Copies
    <2>3. \A i \in 0..(m + 1) :
             g[i] = IF i = 0 THEN <<>>
                    ELSE IF s[i] = n THEN g[i - 1] ELSE Append(g[i - 1], s[i])
      <3> SUFFICES ASSUME NEW i \in 0..(m + 1)
                   PROVE  g[i] = IF i = 0 THEN <<>>
                                 ELSE IF s[i] = n THEN g[i - 1] ELSE Append(g[i - 1], s[i])
        OBVIOUS
      <3>1. CASE i = 0  BY <3>1, <2>2
      <3>2. CASE i # 0 /\ i <= m
        <4>1. g[i] = f[i] /\ g[i - 1] = f[i - 1] /\ i \in 0..m  BY <3>2
        <4> HIDE DEF g
        <4> QED  BY <4>1, <3>2, <2>2
      <3>3. CASE i = m + 1
        <4>1. g[i - 1] = f[m] /\ g[i] = IF s[m + 1] = n THEN f[m] ELSE Append(f[m], s[m + 1])
          BY <3>3
        <4> HIDE DEF g
        <4> QED  BY <4>1, <3>3
      <3> QED  BY <3>1, <3>2, <3>3
    <2>4. Copies(g, s, n, m + 1)
      <3>1. g = [i \in 0..(m + 1) |-> g[i]]  OBVIOUS
      <3> HIDE DEF g
      <3> QED  BY <3>1, <2>3 DEF Copies
    <2> QED  BY <2>4
  <1> HIDE DEF S
  <1>3. \A m \in Nat : m \in S  BY <1>1, <1>2, NatInd
  <1> QED  BY <1>3 DEF S

\* What the loop has copied after i locations.
CopyOk(f, s, n, i) ==
    /\ f[i] \in Seq(Node) /\ Len(f[i]) <= i
    /\ (\E j \in 1..i : s[j] = n) => Len(f[i]) < i
    /\ \A x : x \in ToSet(f[i]) <=> x # n /\ \E j \in 1..i : s[j] = x
    /\ \A x : (\A j, k \in 1..i : s[j] = x /\ s[k] = x => j = k) =>
                \A j, k \in DOMAIN f[i] : f[i][j] = x /\ f[i][k] = x => j = k

\* One round of the loop.
LEMMA CopyStep == ASSUME NEW s \in Seq(Node), NEW n, NEW f, NEW m \in Nat, m + 1 \in 1..Len(s),
                         f[m + 1] = IF s[m + 1] = n THEN f[m] ELSE Append(f[m], s[m + 1]),
                         CopyOk(f, s, n, m)
                  PROVE  CopyOk(f, s, n, m + 1)
  <1>1. CASE s[m + 1] = n
    <2>1. f[m + 1] = f[m]  BY <1>1
    <2>0. f[m] \in Seq(Node) /\ Len(f[m]) <= m  BY DEF CopyOk
    <2>2. f[m + 1] \in Seq(Node) /\ Len(f[m + 1]) <= m  BY <2>0, <2>1
    <2>3. Len(f[m + 1]) < m + 1 /\ Len(f[m + 1]) <= m + 1
      <3>1. Len(f[m + 1]) \in Nat  BY <2>2, LenProperties
      <3> QED  BY <3>1, <2>2
    <2>4. \A x : x \in ToSet(f[m + 1]) <=> x # n /\ \E j \in 1..(m + 1) : s[j] = x
      <3> TAKE x
      <3>1. x \in ToSet(f[m]) <=> x # n /\ \E j \in 1..m : s[j] = x  BY DEF CopyOk
      <3>2. (\E j \in 1..(m + 1) : s[j] = x) <=> (\E j \in 1..m : s[j] = x) \/ s[m + 1] = x
        OBVIOUS
      <3> QED  BY <3>1, <3>2, <2>1, <1>1
    <2>5. ASSUME NEW x, \A j, k \in 1..(m + 1) : s[j] = x /\ s[k] = x => j = k
          PROVE  \A j, k \in DOMAIN f[m + 1] : f[m + 1][j] = x /\ f[m + 1][k] = x => j = k
      <3>1. \A p, q \in 1..m : s[p] = x /\ s[q] = x => p = q  BY <2>5
      <3>2. \A j, k \in DOMAIN f[m] : f[m][j] = x /\ f[m][k] = x => j = k  BY <3>1 DEF CopyOk
      <3> QED  BY ONLY <2>1, <3>2
    <2> QED  BY <2>2, <2>3, <2>4, <2>5 DEF CopyOk
  <1>2. CASE s[m + 1] # n
    <2>1. /\ f[m + 1] = Append(f[m], s[m + 1]) /\ s[m + 1] \in Node
          /\ f[m] \in Seq(Node) /\ Len(f[m]) \in Nat
      BY <1>2 DEF CopyOk
    <2>2. /\ f[m + 1] \in Seq(Node) /\ Len(f[m + 1]) = Len(f[m]) + 1
          /\ DOMAIN f[m + 1] = 1..(Len(f[m]) + 1) /\ DOMAIN f[m] = 1..Len(f[m])
          /\ \A i \in 1..Len(f[m]) : f[m + 1][i] = f[m][i]
          /\ f[m + 1][Len(f[m]) + 1] = s[m + 1]
      BY <2>1, AppendProperties
    <2>3. \A x : x \in ToSet(f[m + 1]) <=> x \in ToSet(f[m]) \/ x = s[m + 1]
      <3> TAKE x
      <3>1. x \in ToSet(f[m + 1]) => x \in ToSet(f[m]) \/ x = s[m + 1]
        <4> SUFFICES ASSUME NEW i \in 1..(Len(f[m]) + 1), x = f[m + 1][i]
                     PROVE  x \in ToSet(f[m]) \/ x = s[m + 1]
          BY <2>2 DEF ToSet
        <4>1. CASE i \in 1..Len(f[m])  BY <4>1, <2>2 DEF ToSet
        <4>2. CASE i = Len(f[m]) + 1  BY <4>2, <2>2
        <4> QED  BY <4>1, <4>2, <2>1
      <3>2. x \in ToSet(f[m]) => x \in ToSet(f[m + 1])
        <4> SUFFICES ASSUME NEW i \in 1..Len(f[m]), x = f[m][i] PROVE x \in ToSet(f[m + 1])
          BY <2>2 DEF ToSet
        <4>1. i \in 1..(Len(f[m]) + 1)  BY <2>1
        <4> QED  BY <4>1, <2>2 DEF ToSet
      <3>3. s[m + 1] \in ToSet(f[m + 1])
        <4>1. Len(f[m]) + 1 \in DOMAIN f[m + 1]  BY <2>1, <2>2
        <4> QED  BY <4>1, <2>2 DEF ToSet
      <3> QED  BY <3>1, <3>2, <3>3
    <2>4. ASSUME NEW x, \A j, k \in 1..(m + 1) : s[j] = x /\ s[k] = x => j = k,
                 NEW j \in DOMAIN f[m + 1], NEW k \in DOMAIN f[m + 1],
                 f[m + 1][j] = x, f[m + 1][k] = x
          PROVE  j = k
      <3>1. \A p, q \in 1..m : s[p] = x /\ s[q] = x => p = q  BY <2>4
      <3>2. \A p, q \in DOMAIN f[m] : f[m][p] = x /\ f[m][q] = x => p = q
        BY <3>1 DEF CopyOk
      <3>3. x = s[m + 1] => x \notin ToSet(f[m])
        <4> SUFFICES ASSUME x = s[m + 1], x \in ToSet(f[m]) PROVE FALSE  OBVIOUS
        <4>1. PICK p \in 1..m : s[p] = x  BY DEF CopyOk
        <4>2. p \in 1..(m + 1) /\ m + 1 \in 1..(m + 1) /\ p # m + 1  OBVIOUS
        <4> QED  BY <4>1, <4>2, <2>4
      <3>4. j \in 1..Len(f[m]) \/ j = Len(f[m]) + 1  BY <2>1, <2>2
      <3>5. k \in 1..Len(f[m]) \/ k = Len(f[m]) + 1  BY <2>1, <2>2
      <3>6. \A p \in 1..Len(f[m]) : f[m][p] \in ToSet(f[m])  BY <2>2 DEF ToSet
      <3> QED  BY <3>2, <3>3, <3>4, <3>5, <3>6, <2>2, <2>4
    <2>5. Len(f[m + 1]) <= m + 1 /\ ((\E j \in 1..(m + 1) : s[j] = n) => Len(f[m + 1]) < m + 1)
      <3>1. Len(f[m]) <= m  BY DEF CopyOk
      <3>2. (\E j \in 1..(m + 1) : s[j] = n) => \E j \in 1..m : s[j] = n
        BY <1>2
      <3>3. (\E j \in 1..m : s[j] = n) => Len(f[m]) < m  BY DEF CopyOk
      <3> QED  BY <3>1, <3>2, <3>3, <2>1, <2>2
    <2>6. \A x : x \in ToSet(f[m + 1]) <=> x # n /\ \E j \in 1..(m + 1) : s[j] = x
      <3> TAKE x
      <3>1. x \in ToSet(f[m]) <=> x # n /\ \E j \in 1..m : s[j] = x  BY DEF CopyOk
      <3>2. (\E j \in 1..(m + 1) : s[j] = x) <=> (\E j \in 1..m : s[j] = x) \/ s[m + 1] = x
        OBVIOUS
      <3> QED  BY <3>1, <3>2, <2>3, <1>2
    <2> QED  BY <2>2, <2>4, <2>5, <2>6 DEF CopyOk
  <1> QED  BY <1>1, <1>2

\* The loop keeps the other peers, once if they were listed once, and drops n.
LEMMA WithoutCopies ==
  ASSUME NEW s \in Seq(Node), NEW n
  PROVE  LET t == Without(s, n)
         IN  /\ t \in Seq(Node) /\ Len(t) <= Len(s)
             /\ n \in ToSet(s) => Len(t) < Len(s)
             /\ ToSet(t) = ToSet(s) \ {n}
             /\ \A x : (\A j, k \in DOMAIN s : s[j] = x /\ s[k] = x => j = k) =>
                          \A j, k \in DOMAIN t : t[j] = x /\ t[k] = x => j = k
  <1> DEFINE L == Len(s)
             f == CHOOSE f : Copies(f, s, n, L)
             S == {m \in Nat : m <= L => CopyOk(f, s, n, m)}
  <1>1. L \in Nat /\ DOMAIN s = 1..L  OBVIOUS
  <1>2. Copies(f, s, n, L)  BY <1>1, CopyExists
  <1>3. Without(s, n) = f[L]  BY DEF Without, Copies
  <1> HIDE DEF L, f
  <1>4. \A i \in 0..L : f[i] = IF i = 0 THEN <<>>
                               ELSE IF s[i] = n THEN f[i - 1] ELSE Append(f[i - 1], s[i])
    BY <1>2 DEF Copies
  <1>5. 0 \in S
    <2>1. f[0] = <<>>  BY <1>1, <1>4
    <2>2. f[0] \in Seq(Node) /\ Len(f[0]) = 0 /\ DOMAIN f[0] = {} /\ ToSet(f[0]) = {}
      BY <2>1 DEF ToSet
    <2>3. CopyOk(f, s, n, 0)  BY <2>2 DEF CopyOk
    <2> QED  BY <2>3
  <1>6. ASSUME NEW m \in Nat, m \in S PROVE m + 1 \in S
    <2> SUFFICES ASSUME m + 1 <= L PROVE CopyOk(f, s, n, m + 1)  OBVIOUS
    <2>1. m + 1 \in 0..L /\ m + 1 # 0 /\ (m + 1) - 1 = m /\ m + 1 \in 1..Len(s) /\ m <= L
      BY <1>1 DEF L
    <2>2. f[m + 1] = IF s[m + 1] = n THEN f[m] ELSE Append(f[m], s[m + 1])
      BY <2>1, <1>4
    <2>3. CopyOk(f, s, n, m)  BY <2>1, <1>6
    <2> QED  BY <2>1, <2>2, <2>3, CopyStep
  <1> HIDE DEF S
  <1>7. L \in S  BY <1>1, <1>5, <1>6, NatInd
  <1>8. CopyOk(f, s, n, L)  BY <1>1, <1>7 DEF S
  <1>9. \A x : x \in ToSet(s) <=> \E j \in 1..L : s[j] = x  BY <1>1 DEF ToSet
  <1> QED  BY <1>1, <1>3, <1>8, <1>9 DEF CopyOk, L

-----------------------------------------------------------------------------
(* The invariant.                                                           *)

Golds(p) == IF p = NoPayload THEN {} ELSE ToSet(p.gold)
Reps(p) == IF p = NoPayload THEN {} ELSE ToSet(p.reps)

Opening == {"register", "transfer", "recheck", "publish"}
Viewing == {"unregister", "delete", "transfer", "recheck", "publish"}

\* What is in the catalog during a call.
CallsOpen ==
    \A n \in Node :
      /\ pc[n] \in Opening \cup {"dead"} => catalog[n] = "none"
      /\ pc[n] = "unregister" => catalog[n] = "gold"
      /\ pc[n] = "delete" => catalog[n] = "replica"
      /\ pc[n] = "drop" => catalog[n] # "none"

\* An update is made from the record itself, if the revision is still current.
CallsView ==
    \A n \in Node :
      pc[n] \in Viewing => view[n] # NoPayload /\ (fresh[n] => view[n] = meta)

\* Memory is registered before anybody is told of it.
CallsMemory ==
    \A n \in Node : pc[n] \in Opening \/ catalog[n] # "none" => mr[n] \/ refs[n] = 2

Calls == CallsOpen /\ CallsView /\ CallsMemory

\* Who is listed has the payload open, as what it is listed.
ListedIsOpen ==
    \A n \in Node :
      /\ catalog[n] = "gold" \/ pc[n] = "drop" => n \notin Reps(meta)
      /\ n \notin doubt /\ pc[n] # "dead" =>
           /\ n \in Reps(meta) => catalog[n] = "replica"
           /\ n \in Golds(meta) => catalog[n] = "gold" /\ pc[n] # "drop"

\* A peer that may open the name again while it is listed has had a fault.
Steady == {n \in Reps(meta) : catalog[n] # "none" \/ pc[n] = "dead"}
RepsBounded == meta # NoPayload => Len(meta.reps) <= Cardinality(Steady) + faults

P2PInv == P2PTypeOK /\ Calls /\ ListedIsOpen /\ RepsBounded /\ OpenIsListed

MaxReps == Cardinality(Node) + MaxFaults

\* The bounds are naturals.
LEMMA BoundsNat == MaxReps \in Nat /\ Cardinality(Node) \in Nat /\ MaxFaults \in Nat
  <1>1. Cardinality(Node) \in Nat  BY NodeAssumption, FS_CardinalityType
  <1> QED  BY <1>1, BoundAssumption DEF MaxReps

\* SeqOf, in terms of sequences.
LEMMA SeqOfIff == ASSUME NEW S, NEW m \in Nat, NEW s
                  PROVE  s \in SeqOf(S, m) <=> s \in Seq(S) /\ Len(s) <= m
  <1>1. s \in SeqOf(S, m) => s \in Seq(S) /\ Len(s) <= m
    <2> SUFFICES ASSUME NEW k \in 0..m, s \in [1..k -> S] PROVE s \in Seq(S) /\ Len(s) <= m
      BY DEF SeqOf
    <2>1. s \in Seq(S) /\ Len(s) = k  BY IsASeq, LenProperties
    <2> QED  BY <2>1
  <1>2. s \in Seq(S) /\ Len(s) <= m => s \in SeqOf(S, m)
    <2> SUFFICES ASSUME s \in Seq(S), Len(s) <= m PROVE s \in SeqOf(S, m)  OBVIOUS
    <2>1. Len(s) \in 0..m /\ s \in [1..Len(s) -> S]  BY LenProperties
    <2> QED  BY <2>1 DEF SeqOf
  <1> QED  BY <1>1, <1>2

\* What a payload consists of.
LEMMA PayloadFacts ==
  ASSUME NEW p \in Payload
  PROVE  /\ p # NoPayload /\ p = [gold |-> p.gold, reps |-> p.reps]
         /\ p.gold \in Seq(Node) /\ Len(p.gold) <= 1 /\ Len(p.gold) \in Nat
         /\ p.reps \in Seq(Node) /\ Len(p.reps) <= MaxReps /\ Len(p.reps) \in Nat
         /\ ToSet(p.gold) \subseteq Node /\ ToSet(p.reps) \subseteq Node
         /\ Golds(p) = ToSet(p.gold) /\ Reps(p) = ToSet(p.reps)
         /\ Holders(p) = Golds(p) \cup Reps(p)
  <1>1. p.gold \in SeqOf(Node, 1) /\ p.reps \in SeqOf(Node, MaxReps)
        /\ p = [gold |-> p.gold, reps |-> p.reps]
    BY DEF Payload, MaxReps
  <1>2. /\ p.gold \in Seq(Node) /\ Len(p.gold) <= 1
        /\ p.reps \in Seq(Node) /\ Len(p.reps) <= MaxReps
    BY <1>1, SeqOfIff, BoundsNat
  <1>3. p \in [gold : Seq(Node), reps : Seq(Node)]  BY <1>1, <1>2
  <1>4. p # NoPayload  BY <1>3, NoPayloadAssumption
  <1>5. ToSet(p.gold) \subseteq Node /\ ToSet(p.reps) \subseteq Node
    BY <1>2 DEF ToSet
  <1> QED  BY <1>1, <1>2, <1>4, <1>5, LenProperties DEF Golds, Reps, Holders

\* What makes a payload.
LEMMA PayloadIntro ==
  ASSUME NEW g \in Seq(Node), Len(g) <= 1, NEW r \in Seq(Node), Len(r) <= MaxReps
  PROVE  [gold |-> g, reps |-> r] \in Payload
  <1>1. g \in SeqOf(Node, 1) /\ r \in SeqOf(Node, MaxReps)  BY SeqOfIff, BoundsNat
  <1> QED  BY <1>1 DEF Payload, MaxReps

\* Only an empty list lists nobody.
LEMMA ToSetEmpty == ASSUME NEW s \in Seq(Node) PROVE ToSet(s) = {} <=> Len(s) = 0
  <1>1. Len(s) \in Nat /\ DOMAIN s = 1..Len(s)  BY LenProperties
  <1>2. ASSUME Len(s) # 0 PROVE ToSet(s) # {}
    <2>1. 1 \in DOMAIN s  BY <1>1, <1>2
    <2> QED  BY <2>1 DEF ToSet
  <1>3. ASSUME Len(s) = 0 PROVE ToSet(s) = {}
    <2>1. DOMAIN s = {}  BY <1>1, <1>3
    <2> QED  BY <2>1 DEF ToSet
  <1> QED  BY <1>2, <1>3

\* The sets of an empty and of a longer list.
LEMMA ToSetFacts ==
  /\ ToSet(<<>>) = {}
  /\ \A s \in Seq(Node), n \in Node :
       ToSet(Append(s, n)) = ToSet(s) \cup {n}
  <1>1. ToSet(<<>>) = {}  BY DEF ToSet
  <1>2. ASSUME NEW s \in Seq(Node), NEW n \in Node
        PROVE  ToSet(Append(s, n)) = ToSet(s) \cup {n}
    <2>1. /\ Len(s) \in Nat /\ DOMAIN s = 1..Len(s) /\ DOMAIN Append(s, n) = 1..(Len(s) + 1)
          /\ \A i \in 1..Len(s) : Append(s, n)[i] = s[i]
          /\ Append(s, n)[Len(s) + 1] = n
      BY AppendProperties, LenProperties
    <2>2. ASSUME NEW x \in ToSet(Append(s, n)) PROVE x \in ToSet(s) \cup {n}
      <3>1. PICK i \in 1..(Len(s) + 1) : x = Append(s, n)[i]  BY <2>1 DEF ToSet
      <3>2. i \in 1..Len(s) \/ i = Len(s) + 1  BY <2>1
      <3> QED  BY <3>1, <3>2, <2>1 DEF ToSet
    <2>3. ASSUME NEW x \in ToSet(s) PROVE x \in ToSet(Append(s, n))
      <3>1. PICK i \in 1..Len(s) : x = s[i]  BY <2>1 DEF ToSet
      <3>2. i \in 1..(Len(s) + 1)  BY <2>1
      <3> QED  BY <3>1, <3>2, <2>1 DEF ToSet
    <2>4. n \in ToSet(Append(s, n))
      <3>1. Len(s) + 1 \in 1..(Len(s) + 1)  BY <2>1
      <3> QED  BY <3>1, <2>1 DEF ToSet
    <2> QED  BY <2>2, <2>3, <2>4
  <1> QED  BY <1>1, <1>2

-----------------------------------------------------------------------------
(* What a write does to the record.                                         *)

Creates(n) == meta' = [gold |-> <<n>>, reps |-> <<>>]
Adds(n) == /\ meta # NoPayload
           /\ meta' = [gold |-> meta.gold, reps |-> Append(meta.reps, n)]
\* The record without some peer, or none if nothing is left.
Leaves(g, r) == IF Len(r) + Len(g) = 0 THEN NoPayload ELSE [gold |-> g, reps |-> r]
DropsGold == meta # NoPayload /\ meta' = Leaves(<<>>, meta.reps)
DropsRep(n) == meta # NoPayload /\ meta' = Leaves(meta.gold, Without(meta.reps, n))

\* What is left of a record.
LEMMA LeavesFacts ==
  ASSUME NEW g \in Seq(Node), Len(g) <= 1, NEW r \in Seq(Node), Len(r) <= MaxReps
  PROVE  LET p == Leaves(g, r)
         IN  /\ p \in Payload \cup {NoPayload} /\ (p # NoPayload => ~IsEmpty(p))
             /\ p # NoPayload => p.reps = r /\ p.gold = g
             /\ Golds(p) = ToSet(g) /\ Reps(p) = ToSet(r)
  <1>1. Len(g) \in Nat /\ Len(r) \in Nat  BY LenProperties
  <1>2. (ToSet(g) = {} <=> Len(g) = 0) /\ (ToSet(r) = {} <=> Len(r) = 0)  BY ToSetEmpty
  <1>4. CASE Len(r) + Len(g) = 0
    BY <1>1, <1>2, <1>4 DEF Leaves, Golds, Reps
  <1>5. CASE Len(r) + Len(g) # 0
    <2> DEFINE p == [gold |-> g, reps |-> r]
    <2>1. Leaves(g, r) = p  BY <1>5 DEF Leaves
    <2>2. p \in Payload  BY PayloadIntro
    <2>3. p.gold = g /\ p.reps = r  OBVIOUS
    <2> HIDE DEF p
    <2>4. ~IsEmpty(p)  BY <2>3, <1>5 DEF IsEmpty, Count
    <2>5. Golds(p) = ToSet(g) /\ Reps(p) = ToSet(r)  BY <2>2, <2>3, PayloadFacts
    <2> QED  BY <2>1, <2>2, <2>3, <2>4, <2>5
  <1> QED  BY <1>4, <1>5

\* n is in s at most once.
Single(s, n) == \A j, k \in DOMAIN s : s[j] = n /\ s[k] = n => j = k

\* Being listed once, without counting.
LEMMA OnceIff ==
  ASSUME NEW s \in Seq(Node), NEW n
  PROVE  Cardinality({i \in DOMAIN s : s[i] = n}) = 1 <=> n \in ToSet(s) /\ Single(s, n)
  <1> DEFINE S == {i \in DOMAIN s : s[i] = n}
  <1>0. IsFiniteSet(S)
    <2>1. DOMAIN s = 1..Len(s) /\ Len(s) \in Nat  BY LenProperties
    <2>2. IsFiniteSet(1..Len(s))  BY <2>1, FS_Interval
    <2> QED  BY <2>1, <2>2, FS_Subset
  <1>1. ASSUME Cardinality(S) = 1 PROVE n \in ToSet(s) /\ Single(s, n)
    <2>1. PICK i : S = {i}  BY <1>0, <1>1, FS_Singleton
    <2>2. i \in DOMAIN s /\ s[i] = n  BY <2>1
    <2>3. \A j \in DOMAIN s : s[j] = n => j = i  BY <2>1
    <2> QED  BY <2>2, <2>3 DEF ToSet, Single
  <1>2. ASSUME n \in ToSet(s), Single(s, n) PROVE Cardinality(S) = 1
    <2>1. PICK i \in DOMAIN s : s[i] = n  BY <1>2 DEF ToSet
    <2>2. S = {i}  BY <2>1, <1>2 DEF Single
    <2> QED  BY <2>2, FS_Singleton
  <1> QED  BY <1>1, <1>2

\* Register lists the one peer, as gold.
LEMMA CreateFacts ==
  ASSUME NEW n \in Node, Creates(n)
  PROVE  /\ meta' \in Payload /\ ~IsEmpty(meta')
         /\ Golds(meta') = {n} /\ Reps(meta') = {} /\ meta'.gold = <<n>>
         /\ Len(meta'.reps) = 0
  <1>1. <<n>> \in Seq(Node) /\ Len(<<n>>) = 1 /\ <<>> \in Seq(Node) /\ Len(<<>>) = 0
    OBVIOUS
  <1>2. Len(<<>>) <= MaxReps /\ Len(<<n>>) <= 1  BY <1>1, BoundsNat
  <1>3. meta' \in Payload  BY <1>1, <1>2, PayloadIntro DEF Creates
  <1>4. meta'.gold = <<n>> /\ meta'.reps = <<>>  BY DEF Creates
  <1>5. ToSet(<<n>>) = {n} /\ ToSet(<<>>) = {}  BY DEF ToSet
  <1>6. ~IsEmpty(meta')  BY <1>1, <1>4 DEF IsEmpty, Count
  <1> QED  BY <1>1, <1>3, <1>4, <1>5, <1>6, PayloadFacts

\* A publication lists one more replica and keeps the rest.
LEMMA AddFacts ==
  ASSUME NEW n \in Node, meta \in Payload \cup {NoPayload}, Adds(n), Len(meta.reps) < MaxReps
  PROVE  /\ meta' \in Payload /\ ~IsEmpty(meta')
         /\ Golds(meta') = Golds(meta) /\ Reps(meta') = Reps(meta) \cup {n}
         /\ meta'.gold = meta.gold /\ Len(meta'.reps) = Len(meta.reps) + 1
         /\ \A m : m # n /\ Single(meta.reps, m) => Single(meta'.reps, m)
         /\ n \notin Reps(meta) => Single(meta'.reps, n)
  <1>1. meta \in Payload  BY DEF Adds
  <1> DEFINE s == meta.reps
             t == Append(s, n)
  <1>2. /\ s \in Seq(Node) /\ Len(s) \in Nat /\ meta.gold \in Seq(Node) /\ Len(meta.gold) <= 1
        /\ Len(meta.gold) \in Nat
    BY <1>1, PayloadFacts
  <1>3. /\ t \in Seq(Node) /\ Len(t) = Len(s) + 1 /\ DOMAIN s = 1..Len(s)
        /\ DOMAIN t = 1..(Len(s) + 1)
        /\ \A i \in 1..Len(s) : t[i] = s[i]
        /\ t[Len(s) + 1] = n
    BY <1>2, AppendProperties, LenProperties
  <1>4. meta' = [gold |-> meta.gold, reps |-> t]  BY DEF Adds
  <1>5. meta'.gold = meta.gold /\ meta'.reps = t  BY <1>4
  <1>6. ToSet(t) = ToSet(s) \cup {n}  BY <1>2, ToSetFacts
  <1> HIDE DEF s, t
  <1>7. Len(t) <= MaxReps  BY <1>2, <1>3, BoundsNat DEF s
  <1>8. meta' \in Payload  BY <1>2, <1>3, <1>4, <1>7, PayloadIntro
  <1>9. ~IsEmpty(meta')  BY <1>2, <1>3, <1>5 DEF IsEmpty, Count
  <1>10. \A j \in DOMAIN t : j \in DOMAIN s \/ j = Len(s) + 1  BY <1>2, <1>3
  <1>11. ASSUME NEW m, m # n, Single(s, m) PROVE Single(t, m)
    BY <1>3, <1>10, <1>11 DEF Single
  <1>12. ASSUME n \notin ToSet(s) PROVE Single(t, n)
    <2>1. \A j \in DOMAIN s : s[j] # n  BY <1>12 DEF ToSet
    <2> QED  BY <2>1, <1>3, <1>10 DEF Single
  <1> QED  BY <1>1, <1>3, <1>5, <1>6, <1>8, <1>9, <1>11, <1>12, PayloadFacts DEF s

\* An Unregister leaves the replicas.
LEMMA DropGoldFacts ==
  ASSUME meta \in Payload \cup {NoPayload}, DropsGold
  PROVE  /\ meta' \in Payload \cup {NoPayload} /\ (meta' # NoPayload => ~IsEmpty(meta'))
         /\ Golds(meta') = {} /\ Reps(meta') = Reps(meta)
         /\ meta' # NoPayload => meta'.reps = meta.reps
  <1>1. meta \in Payload  BY DEF DropsGold
  <1>2. meta.reps \in Seq(Node) /\ Len(meta.reps) <= MaxReps /\ Reps(meta) = ToSet(meta.reps)
    BY <1>1, PayloadFacts
  <1>3. <<>> \in Seq(Node) /\ Len(<<>>) <= 1 /\ ToSet(<<>>) = {}  BY ToSetFacts
  <1> QED  BY <1>2, <1>3, LeavesFacts DEF DropsGold

\* A DeleteReplica leaves the others.
LEMMA DropRepFacts ==
  ASSUME meta \in Payload \cup {NoPayload}, NEW n \in Node, DropsRep(n)
  PROVE  /\ meta' \in Payload \cup {NoPayload} /\ (meta' # NoPayload => ~IsEmpty(meta'))
         /\ Golds(meta') = Golds(meta) /\ Reps(meta') = Reps(meta) \ {n}
         /\ meta' # NoPayload =>
              /\ meta'.gold = meta.gold
              /\ Len(meta'.reps) <= Len(meta.reps)
              /\ n \in Reps(meta) => Len(meta'.reps) < Len(meta.reps)
              /\ \A m : Single(meta.reps, m) => Single(meta'.reps, m)
  <1>1. meta \in Payload  BY DEF DropsRep
  <1>2. /\ meta.reps \in Seq(Node) /\ Len(meta.reps) <= MaxReps /\ Len(meta.reps) \in Nat
        /\ Reps(meta) = ToSet(meta.reps) /\ Golds(meta) = ToSet(meta.gold)
        /\ meta.gold \in Seq(Node) /\ Len(meta.gold) <= 1
    BY <1>1, PayloadFacts
  <1> DEFINE t == Without(meta.reps, n)
  <1>3. /\ t \in Seq(Node) /\ Len(t) <= Len(meta.reps)
        /\ n \in ToSet(meta.reps) => Len(t) < Len(meta.reps)
        /\ ToSet(t) = ToSet(meta.reps) \ {n}
        /\ \A x : Single(meta.reps, x) => Single(t, x)
    BY <1>2, WithoutCopies DEF Single
  <1>4. meta' = Leaves(meta.gold, t)  BY DEF DropsRep
  <1> HIDE DEF t
  <1>5. Len(t) <= MaxReps
    <2>1. Len(t) \in Nat  BY <1>3, LenProperties
    <2> QED  BY <2>1, <1>2, <1>3, BoundsNat
  <1> QED  BY <1>2, <1>3, <1>4, <1>5, LeavesFacts

-----------------------------------------------------------------------------
(* Every write is one of the four.                                          *)

\* Replacing the replicas of a payload.
LEMMA RepsChanged ==
  ASSUME NEW g, NEW r, NEW q, NEW p, p = [gold |-> g, reps |-> r]
  PROVE  [p EXCEPT !.reps = q] = [gold |-> g, reps |-> q]
  OBVIOUS

\* A write under the current revision starts from the record itself.
LEMMA FreshWrite ==
  ASSUME P2PTypeOK, Calls, NEW n \in Node, pc[n] \in Viewing, fresh[n]
  PROVE  /\ meta \in Payload /\ view[n] = meta
         /\ pc[n] = "unregister" /\ Update(n, Removal(n)) => DropsGold
         /\ pc[n] = "delete" /\ Update(n, Removal(n)) => DropsRep(n)
         /\ pc[n] = "publish" /\ Update(n, WithReplica(n)) => Adds(n)
  <1>1. meta \in Payload /\ view[n] = meta
    BY DEF P2PTypeOK, Calls, CallsView
  <1>2. /\ meta = [gold |-> meta.gold, reps |-> meta.reps] /\ meta # NoPayload
        /\ meta.gold \in Seq(Node) /\ meta.reps \in Seq(Node) /\ Len(meta.gold) \in Nat
    BY <1>1, PayloadFacts
  <1>3. ASSUME pc[n] = "unregister", Update(n, Removal(n)) PROVE DropsGold
    <2>1. Removal(n) = [gold |-> <<>>, reps |-> meta.reps]
      BY <1>1, <1>2, <1>3 DEF Removal, WithoutGold
    <2> QED  BY <1>2, <1>3, <2>1 DEF Update, Write, IsEmpty, Count, Leaves, DropsGold
  <1>4. ASSUME pc[n] = "delete", Update(n, Removal(n)) PROVE DropsRep(n)
    <2>1. Removal(n) = [gold |-> meta.gold, reps |-> Without(meta.reps, n)]
      BY <1>1, <1>2, <1>4 DEF Removal, WithoutReplica
    <2> QED  BY <1>2, <1>4, <2>1 DEF Update, Write, IsEmpty, Count, Leaves, DropsRep
  <1>5. ASSUME pc[n] = "publish", Update(n, WithReplica(n)) PROVE Adds(n)
    <2>1. WithReplica(n) = [gold |-> meta.gold, reps |-> Append(meta.reps, n)]
      <3>1. view[n] = [gold |-> meta.gold, reps |-> meta.reps]  BY <1>1, <1>2
      <3> DEFINE q == Append(view[n].reps, n)
      <3>2. q = Append(meta.reps, n)  BY <1>1
      <3>3. WithReplica(n) = [view[n] EXCEPT !.reps = q]  BY Zenon DEF WithReplica
      <3> HIDE DEF q
      <3>4. [view[n] EXCEPT !.reps = q] = [gold |-> meta.gold, reps |-> q]
        BY <3>1, RepsChanged
      <3> QED  BY <3>2, <3>3, <3>4
    <2>2. Len(Append(meta.reps, n)) # 0 /\ Len(Append(meta.reps, n)) \in Nat
      BY <1>2, AppendProperties, LenProperties
    <2>3. ~IsEmpty(WithReplica(n))
      BY <2>1, <2>2, <1>2 DEF IsEmpty, Count
    <2> QED  BY <1>2, <1>5, <2>1, <2>3 DEF Update, Write, Adds
  <1> QED  BY <1>1, <1>3, <1>4, <1>5

\* The sets of peers are finite.
LEMMA SteadyFinite ==
  ASSUME P2PTypeOK
  PROVE  /\ Steady \subseteq Node /\ IsFiniteSet(Steady) /\ Cardinality(Steady) \in Nat
         /\ Cardinality(Steady) <= Cardinality(Node) /\ Reps(meta) \subseteq Node
         /\ Golds(meta) \subseteq Node /\ Holders(meta) = Golds(meta) \cup Reps(meta)
  <1>1. Reps(meta) \subseteq Node /\ Golds(meta) \subseteq Node
        /\ Holders(meta) = Golds(meta) \cup Reps(meta)
    BY PayloadFacts DEF P2PTypeOK, Reps, Golds, Holders
  <1>2. Steady \subseteq Node  BY <1>1 DEF Steady
  <1> QED  BY <1>1, <1>2, NodeAssumption, FS_Subset, FS_CardinalityType

\* There is room for a peer that has not opened the payload yet.
LEMMA RoomForReplica ==
  ASSUME P2PTypeOK, RepsBounded, NEW n \in Node, catalog[n] = "none", pc[n] # "dead",
         meta # NoPayload
  PROVE  Len(meta.reps) < MaxReps /\ n \notin Steady
  <1>1. n \notin Steady  BY DEF Steady
  <1>2. Steady \subseteq Node /\ IsFiniteSet(Steady) /\ Cardinality(Steady) \in Nat
    BY SteadyFinite
  <1>3. Cardinality(Steady \cup {n}) = Cardinality(Steady) + 1
    BY <1>1, <1>2, FS_AddElement
  <1>4. Cardinality(Steady \cup {n}) <= Cardinality(Node)
    BY <1>2, NodeAssumption, FS_Subset
  <1>5. Len(meta.reps) <= Cardinality(Steady) + faults /\ faults \in 0..MaxFaults
        /\ Len(meta.reps) \in Nat
    BY PayloadFacts DEF RepsBounded, P2PTypeOK
  <1> QED  BY <1>1, <1>2, <1>3, <1>4, <1>5, BoundsNat DEF MaxReps

\* Counting, without naming the actions.
LEMMA CountKept ==
  ASSUME P2PTypeOK, P2PTypeOK', RepsBounded, faults <= faults', Steady \subseteq Steady',
         meta' # NoPayload =>
            meta # NoPayload /\ Len(meta'.reps) <= Len(meta.reps)
  PROVE  RepsBounded'
  <1>1. IsFiniteSet(Steady') /\ Cardinality(Steady) \in Nat /\ Cardinality(Steady') \in Nat
    <2>1. Reps(meta') \subseteq Node  BY PayloadFacts DEF P2PTypeOK, Reps
    <2>2. Steady' \subseteq Node  BY <2>1 DEF Steady
    <2> QED  BY <2>2, SteadyFinite, NodeAssumption, FS_Subset, FS_CardinalityType
  <1>2. Cardinality(Steady) <= Cardinality(Steady')  BY <1>1, FS_Subset
  <1>3. faults \in Nat /\ faults' \in Nat  BY BoundAssumption DEF P2PTypeOK
  <1> SUFFICES ASSUME meta' # NoPayload
               PROVE  Len(meta'.reps) <= Cardinality(Steady') + faults'
    BY DEF RepsBounded
  <1>4. Len(meta.reps) <= Cardinality(Steady) + faults  BY DEF RepsBounded
  <1>5. Len(meta.reps) \in Nat /\ Len(meta'.reps) \in Nat
    BY PayloadFacts DEF P2PTypeOK
  <1> QED  BY <1>1, <1>2, <1>3, <1>4, <1>5

Acts(n) == Register(n) \/ Removing(n) \/ GetReplica(n) \/ Reuse(n) \/ Crash(n)

\* What a step of n makes of the record.
Writes(n) ==
    \/ UNCHANGED meta
    \/ pc[n] = "register" /\ Creates(n)
    \/ pc[n] = "publish" /\ fresh[n] /\ Adds(n)
    \/ pc[n] = "unregister" /\ fresh[n] /\ DropsGold
    \/ pc[n] = "delete" /\ fresh[n] /\ DropsRep(n)

MetaOK == meta \in Payload \cup {NoPayload} /\ (meta # NoPayload => ~IsEmpty(meta))

\* What a step may do to the record.
LEMMA WriteKinds ==
  ASSUME P2PTypeOK, Calls, NEW n \in Node, Acts(n)
  PROVE  Writes(n)
  <1>1. CASE Register(n)
    <2>1. CASE CreateOk(n) \/ ForceCreate(n) \/ CreateError(n)
      BY <2>1 DEF CreateOk, ForceCreate, CreateError, Write, Registered, Writes, Creates, metaVars
    <2>2. CASE StartRegister(n) \/ RegistrationPanics(n) \/ CreateExists(n)
      BY <2>2 DEF StartRegister, RegistrationPanics, CreateExists, metaVars, Writes
    <2> QED  BY <1>1, <2>1, <2>2 DEF Register
  <1>2. CASE Removing(n)
    <2>1. CASE RemovalCommits(n)
      BY <2>1, FreshWrite DEF RemovalCommits, Viewing, Writes
    <2>2. CASE RemovalError(n)
      BY <2>2, FreshWrite DEF RemovalError, Viewing, Writes, metaVars
    <2>3. CASE StartRemoval(n) \/ RemovalRetries(n) \/ RemovalDrops(n)
      BY <2>3 DEF StartRemoval, RemovalRetries, RemovalDrops, Get, metaVars, Writes
    <2> QED  BY <1>2, <2>1, <2>2, <2>3 DEF Removing
  <1>3. CASE GetReplica(n)
    <2>1. CASE Publish(n)
      BY <2>1, FreshWrite DEF Publish, Viewing, Writes
    <2>2. CASE PublishError(n)
      BY <2>2, FreshWrite DEF PublishError, Viewing, Writes, metaVars
    <2>3. CASE StartGet(n) \/ TransfersEnd(n) \/ RecheckPasses(n) \/ RecheckRepeats(n)
               \/ RecheckPanics(n) \/ PublishRetries(n)
      BY <2>3 DEF StartGet, TransfersEnd, RecheckPasses, RecheckRepeats, RecheckPanics,
                  PublishRetries, Get, metaVars, Writes
    <2>4. ASSUME NEW k \in Planned,
                 \/ \E s \in Node : Transfer(n, k, s)
                 \/ \E s \in Node : TransferRetries(n, k, s)
                 \/ TransferFails(n, k)
          PROVE  Writes(n)
      BY <2>4 DEF Transfer, TransferRetries, TransferFails, metaVars, Writes
    <2> QED  BY <1>3, <2>1, <2>2, <2>3, <2>4 DEF GetReplica
  <1>4. CASE Reuse(n) \/ Crash(n)
    BY <1>4 DEF Reuse, Crash, metaVars, Writes
  <1> QED  BY <1>1, <1>2, <1>3, <1>4 DEF Acts

\* The record stays a payload that lists somebody.
LEMMA MetaStep ==
  ASSUME P2PInv, NEW n \in Node, Writes(n)
  PROVE  MetaOK'
  <1> USE DEF P2PInv
  <1>1. CASE UNCHANGED meta  BY <1>1 DEF MetaOK, P2PTypeOK, IsEmpty, Count
  <1>2. CASE pc[n] = "register" /\ Creates(n)
    BY <1>2, CreateFacts DEF MetaOK
  <1>3. CASE pc[n] = "publish" /\ Adds(n)
    <2>1. catalog[n] = "none" /\ meta # NoPayload  BY <1>3 DEF Calls, CallsOpen, Opening, Adds
    <2>2. Len(meta.reps) < MaxReps  BY <1>3, <2>1, RoomForReplica
    <2> QED  BY <1>3, <2>2, AddFacts DEF P2PTypeOK, MetaOK
  <1>4. CASE DropsGold  BY <1>4, DropGoldFacts DEF P2PTypeOK, MetaOK
  <1>5. CASE DropsRep(n)  BY <1>5, DropRepFacts DEF P2PTypeOK, MetaOK
  <1> QED  BY <1>1, <1>2, <1>3, <1>4, <1>5 DEF Writes

-----------------------------------------------------------------------------
(* Types.                                                                   *)

PcOK == pc \in [Node -> {"idle", "register", "unregister", "delete", "drop",
                          "transfer", "recheck", "publish", "dead"}]
RecordOK == /\ MetaOK
            /\ view \in [Node -> Payload \cup {NoPayload}]
FreshOK == fresh \in [Node -> BOOLEAN]
EntryOK == refs \in [Node -> 0..2] /\ mr \in [Node -> BOOLEAN]
MemOK == mem \in [Node -> [Shard -> Shard \cup {Junk}]]
MemoryOK == EntryOK /\ MemOK
HistOK == /\ catalog \in [Node -> {"none", "gold", "replica"}]
          /\ left \subseteq Node /\ doubt \subseteq Node
          /\ forced \in BOOLEAN /\ opens \in 0..MaxOpens /\ faults \in 0..MaxFaults
XferOK == /\ try \in [Node -> [Shard -> 0..MaxTries]]
          /\ status \in [Node -> [Shard -> ShardStatus]]
          /\ \A n \in Node : pc[n] \notin {"transfer", "dead"} =>
                \A k \in Shard : status[n][k] = "idle"

\* The type invariant in parts, one per group of variables.
LEMMA TypeParts == P2PTypeOK <=> PcOK /\ RecordOK /\ FreshOK /\ MemoryOK /\ HistOK /\ XferOK
  BY DEF P2PTypeOK, PcOK, RecordOK, FreshOK, MetaOK, MemoryOK, EntryOK, MemOK, HistOK, XferOK

\* The same after a step.
LEMMA TypePartsNext ==
  P2PTypeOK' <=> PcOK' /\ RecordOK' /\ FreshOK' /\ MemoryOK' /\ HistOK' /\ XferOK'
  BY DEF P2PTypeOK, PcOK, RecordOK, FreshOK, MetaOK, MemoryOK, EntryOK, MemOK, HistOK, XferOK

\* Writes and reads of the record keep the types of revisions.
LEMMA FreshTypes ==
  ASSUME FreshOK, NEW n \in Node,
         UNCHANGED fresh \/ (\E p : Write(p)) \/ (\E p : Update(n, p)) \/ (\E s : Get(n, s))
  PROVE  FreshOK'
  <1>1. CASE UNCHANGED fresh  BY <1>1 DEF FreshOK
  <1>2. CASE (\E p : Write(p)) \/ (\E p : Update(n, p))  BY <1>2 DEF FreshOK, Write, Update
  <1>3. CASE \E s : Get(n, s)
    <2>1. fresh' = [fresh EXCEPT ![n] = (meta # NoPayload)]  BY <1>3 DEF Get
    <2>2. (meta # NoPayload) \in BOOLEAN  OBVIOUS
    <2> QED  BY <2>1, <2>2, Zenon DEF FreshOK
  <1> QED  BY <1>1, <1>2, <1>3

\* RegisteredMemory keeps its types.
LEMMA EntryTypes ==
  ASSUME EntryOK, NEW n \in Node,
         UNCHANGED memVars \/ AddMemory(n) \/ RemoveMemory(n) \/ Die(n)
  PROVE  EntryOK'
  <1>1. refs' \in [Node -> 0..2]
    BY DEF EntryOK, memVars, AddMemory, RemoveMemory, Die
  <1>2. mr' \in [Node -> BOOLEAN]
    <2>1. CASE UNCHANGED mr  BY <2>1 DEF EntryOK
    <2>2. CASE mr' = [mr EXCEPT ![n] = FALSE]  BY <2>2, Zenon DEF EntryOK
    <2>3. CASE mr' = [mr EXCEPT ![n] = @ \/ refs[n] = 0]
      <3>1. (mr[n] \/ refs[n] = 0) \in BOOLEAN  OBVIOUS
      <3> QED  BY <2>3, <3>1, Zenon DEF EntryOK
    <2> QED  BY <2>1, <2>2, <2>3 DEF memVars, AddMemory, RemoveMemory, Die
  <1> QED  BY <1>1, <1>2 DEF EntryOK

\* The bound on the retries.
LEMMA MaxOfTwo == ASSUME NEW c \in Nat PROVE Max({3, c}) = IF c <= 3 THEN 3 ELSE c
  <1>1. CASE c <= 3  BY <1>1 DEF Max
  <1>2. CASE c > 3  BY <1>2 DEF Max
  <1> QED  BY <1>1, <1>2

\* performTransfer gives up soon enough.
LEMMA TriesBounded ==
  ASSUME NEW p \in Payload
  PROVE  maxRetryCount(p) \in 0..MaxTries
  <1>1. /\ Len(p.gold) \in Nat /\ Len(p.gold) <= 1
        /\ Len(p.reps) \in Nat /\ Len(p.reps) <= MaxReps
    BY PayloadFacts
  <1>2. Count(p) \in Nat /\ Count(p) <= MaxReps + 1
    <2> DEFINE g == Len(p.gold)
               r == Len(p.reps)
    <2>1. Count(p) = r + g  BY DEF Count
    <2> HIDE DEF g, r
    <2>2. g \in Nat /\ g <= 1 /\ r \in Nat /\ r <= MaxReps  BY <1>1 DEF g, r
    <2> QED  BY <2>1, <2>2, BoundsNat
  <1>3. maxRetryCount(p) = IF Count(p) <= 3 THEN 3 ELSE Count(p)
    BY <1>2, MaxOfTwo DEF maxRetryCount
  <1> QED  BY <1>2, <1>3, BoundsNat DEF MaxTries, MaxReps

\* Register.
LEMMA RegisterTypes ==
  ASSUME P2PInv, NEW n \in Node, Register(n), MetaOK'
  PROVE  P2PTypeOK'
  <1>1. PcOK /\ RecordOK /\ FreshOK /\ MemoryOK /\ HistOK /\ XferOK  BY TypeParts DEF P2PInv
  <1>2. PcOK' /\ RecordOK'
    BY <1>1 DEF Register, StartRegister, RegistrationPanics, CreateOk, CreateExists, ForceCreate,
       CreateError, PcOK, RecordOK, Return, Goto, Die
  <1>6. HistOK'
    <2>1. forced' \in BOOLEAN
      BY <1>1 DEF Register, StartRegister, RegistrationPanics, CreateOk, CreateExists,
         ForceCreate, CreateError, HistOK, histVars
    <2>2. catalog' \in [Node -> {"none", "gold", "replica"}]
      BY <1>1 DEF Register, StartRegister, RegistrationPanics, CreateOk, CreateExists,
         ForceCreate, CreateError, HistOK, Die
    <2>3. left' \subseteq Node /\ doubt' \subseteq Node
      BY <1>1 DEF Register, StartRegister, RegistrationPanics, CreateOk, CreateExists,
         ForceCreate, CreateError, HistOK, histVars
    <2>4. opens' \in 0..MaxOpens /\ faults' \in 0..MaxFaults
      BY <1>1, BoundAssumption DEF Register, StartRegister, RegistrationPanics, CreateOk,
         CreateExists, ForceCreate, CreateError, HistOK, Open, Fault
    <2> QED  BY <2>1, <2>2, <2>3, <2>4 DEF HistOK
  <1>3. MemoryOK'
    <2>1. MemOK'
      BY <1>1 DEF Register, StartRegister, RegistrationPanics, CreateOk, CreateExists,
         ForceCreate, CreateError, MemoryOK, MemOK, File
    <2>2. EntryOK'
      BY <1>1, EntryTypes DEF Register, StartRegister, RegistrationPanics, CreateOk,
         CreateExists, ForceCreate, CreateError, MemoryOK
    <2> QED  BY <2>1, <2>2 DEF MemoryOK
  <1>5. FreshOK'
    BY <1>1, FreshTypes DEF Register, StartRegister, RegistrationPanics, CreateOk, CreateExists,
       ForceCreate, CreateError, metaVars
  <1>4. XferOK'
    <2>1. UNCHANGED <<try, status>>
      BY DEF Register, StartRegister, RegistrationPanics, CreateOk, CreateExists, ForceCreate,
         CreateError, xferVars
    <2>2. \A m \in Node : pc'[m] \notin {"transfer", "dead"} => pc[m] \notin {"transfer", "dead"}
      BY <1>1 DEF Register, StartRegister, RegistrationPanics, CreateOk, CreateExists,
         ForceCreate, CreateError, Return, Goto, Die, Open, Idle, PcOK
    <2> QED  BY <1>1, <2>1, <2>2 DEF XferOK
  <1> QED  BY <1>2, <1>3, <1>4, <1>5, <1>6, TypePartsNext

\* Unregister and DeleteReplica.
LEMMA RemovingTypes ==
  ASSUME P2PInv, NEW n \in Node, Removing(n) \/ Reuse(n) \/ Crash(n), MetaOK'
  PROVE  P2PTypeOK'
  <1>1. PcOK /\ RecordOK /\ FreshOK /\ MemoryOK /\ HistOK /\ XferOK  BY TypeParts DEF P2PInv
  <1>2. PcOK' /\ RecordOK'
    BY <1>1 DEF Removing, StartRemoval, RemovalCommits, RemovalRetries, RemovalError,
       RemovalDrops, Reuse, Crash, PcOK, RecordOK, MetaOK, Get, Return, Goto, Die
  <1>6. HistOK'
    BY <1>1, BoundAssumption DEF Removing, StartRemoval, RemovalCommits, RemovalRetries,
       RemovalError, RemovalDrops, Reuse, Crash, HistOK, Die, Fault, histVars
  <1>3. MemoryOK'
    <2>1. MemOK'
      BY <1>1 DEF Removing, StartRemoval, RemovalCommits, RemovalRetries, RemovalError,
         RemovalDrops, Reuse, Crash, MemoryOK, MemOK
    <2>2. EntryOK'
      BY <1>1, EntryTypes DEF Removing, StartRemoval, RemovalCommits, RemovalRetries,
         RemovalError, RemovalDrops, Reuse, Crash, MemoryOK
    <2> QED  BY <2>1, <2>2 DEF MemoryOK
  <1>5. FreshOK'
    BY <1>1, FreshTypes DEF Removing, StartRemoval, RemovalCommits, RemovalRetries, RemovalError,
       RemovalDrops, Reuse, Crash, metaVars
  <1>4. XferOK'
    <2>1. UNCHANGED <<try, status>>
      BY DEF Removing, StartRemoval, RemovalCommits, RemovalRetries, RemovalError,
         RemovalDrops, Reuse, Crash, xferVars
    <2>2. \A m \in Node : pc'[m] \notin {"transfer", "dead"} => pc[m] \notin {"transfer", "dead"}
      BY <1>1 DEF Removing, StartRemoval, RemovalCommits, RemovalRetries, RemovalError,
         RemovalDrops, Reuse, Crash, Get, Return, Goto, Die, PcOK
    <2> QED  BY <1>1, <2>1, <2>2 DEF XferOK
  <1> QED  BY <1>2, <1>3, <1>4, <1>5, <1>6, TypePartsNext

\* GetReplica, reuse and crash.
LEMMA GetTypes ==
  ASSUME P2PInv, NEW n \in Node, GetReplica(n), MetaOK'
  PROVE  P2PTypeOK'
  <1>1. PcOK /\ RecordOK /\ FreshOK /\ MemoryOK /\ HistOK /\ XferOK  BY TypeParts DEF P2PInv
  <1>2. CASE \/ TransfersEnd(n) \/ RecheckPasses(n) \/ RecheckPanics(n) \/ Publish(n)
             \/ PublishRetries(n) \/ PublishError(n)
    <2>1. PcOK' /\ RecordOK'
      BY <1>1, <1>2 DEF TransfersEnd, RecheckPasses, RecheckPanics, Publish, PublishRetries,
         PublishError, PcOK, RecordOK, MetaOK, Get, Return, Goto, Die
    <2>5. HistOK'
      BY <1>1, <1>2, BoundAssumption DEF TransfersEnd, RecheckPasses, RecheckPanics, Publish,
         PublishRetries, PublishError, HistOK, Die, Fault, histVars
    <2>2. MemoryOK'
      <3>1. EntryOK'
        BY <1>1, <1>2, EntryTypes DEF TransfersEnd, RecheckPasses, RecheckPanics, Publish,
           PublishRetries, PublishError, MemoryOK
      <3>2. MemOK'
        BY <1>1, <1>2 DEF TransfersEnd, RecheckPasses, RecheckPanics, Publish,
           PublishRetries, PublishError, MemoryOK, MemOK
      <3> QED  BY <3>1, <3>2 DEF MemoryOK
    <2>4. FreshOK'
      BY <1>1, <1>2, FreshTypes DEF TransfersEnd, RecheckPasses, RecheckPanics, Publish,
         PublishRetries, PublishError, metaVars
    <2>3. XferOK'
      <3>1. CASE TransfersEnd(n)
        <4>1. /\ try' = [try EXCEPT ![n] = [k \in Shard |-> 0]]
              /\ status' = [status EXCEPT ![n] = [k \in Shard |-> "idle"]]
              /\ \A m \in Node \ {n} : pc'[m] = pc[m]
          BY <1>1, <3>1 DEF TransfersEnd, Return, Goto, PcOK
        <4> QED  BY <1>1, <4>1, BoundsNat DEF XferOK, ShardStatus, MaxTries
      <3>2. CASE ~TransfersEnd(n)
        <4>1. UNCHANGED <<try, status>>
          BY <1>2, <3>2 DEF RecheckPasses, RecheckPanics, Publish, PublishRetries,
             PublishError, xferVars
        <4>2. \A m \in Node : pc'[m] \notin {"transfer", "dead"} =>
                                 pc[m] \notin {"transfer", "dead"}
          BY <1>1, <1>2, <3>2 DEF RecheckPasses, RecheckPanics, Publish, PublishRetries,
             PublishError, Get, Return, Goto, Die, PcOK
        <4> QED  BY <1>1, <4>1, <4>2 DEF XferOK
      <3> QED  BY <3>1, <3>2
    <2> QED  BY <2>1, <2>2, <2>3, <2>4, <2>5, TypePartsNext
  <1>3. CASE StartGet(n) \/ RecheckRepeats(n)
    <2>1. PcOK' /\ RecordOK'
      BY <1>1, <1>3 DEF StartGet, RecheckRepeats, PcOK, RecordOK, MetaOK, Get, Goto
    <2>5. HistOK'
      BY <1>1, <1>3, BoundAssumption DEF StartGet, RecheckRepeats, HistOK, Open, histVars
    <2>2. MemoryOK'
      <3>1. EntryOK'
        BY <1>1, <1>3, EntryTypes DEF StartGet, RecheckRepeats, doGetReplica, MemoryOK
      <3>2. MemOK'
        BY <1>1, <1>3 DEF StartGet, RecheckRepeats, MemoryOK, MemOK
      <3> QED  BY <3>1, <3>2 DEF MemoryOK
    <2>4. FreshOK'
      BY <1>1, <1>3, FreshTypes DEF StartGet, RecheckRepeats, metaVars
    <2>3. XferOK'
      <3>1. /\ try' = [try EXCEPT ![n] = [k \in Shard |-> 0]]
            /\ status' = [status EXCEPT ![n] =
                             [k \in Shard |-> IF k \in Planned THEN "pending" ELSE "idle"]]
            /\ pc' = [pc EXCEPT ![n] = "transfer"]
        BY <1>3 DEF StartGet, RecheckRepeats, doGetReplica, Get, Goto
      <3> QED  BY <1>1, <3>1, BoundsNat DEF XferOK, PcOK, ShardStatus, MaxTries
    <2> QED  BY <2>1, <2>2, <2>3, <2>4, <2>5, TypePartsNext
  <1>4. ASSUME NEW k \in Planned, NEW s \in Node, Transfer(n, k, s) PROVE P2PTypeOK'
    <2>1. k \in Shard  BY DEF Planned
    <2>2. PcOK' /\ RecordOK' /\ FreshOK' /\ HistOK'
      BY <1>1, <1>4 DEF Transfer, PcOK, RecordOK, FreshOK, MetaOK, HistOK, metaVars, histVars
    <2>3. MemoryOK'
      <3>1. EntryOK'  BY <1>1, <1>4 DEF Transfer, MemoryOK, EntryOK, memVars
      <3>2. mem' = [mem EXCEPT ![n][Target(k)] = mem[s][k]]  BY <1>4 DEF Transfer
      <3>3. MemOK'
        <4> DEFINE v == mem[s][k]
                   row == [mem[n] EXCEPT ![Target(k)] = v]
        <4>1. mem \in [Node -> [Shard -> Shard \cup {Junk}]] /\ n \in Node  BY <1>1 DEF MemoryOK, MemOK
        <4>2. v \in Shard \cup {Junk}  BY ONLY <4>1, <2>1, s \in Node
        <4>3. mem' = [mem EXCEPT ![n] = row]  BY <3>2
        <4> HIDE DEF v
        <4>4. row \in [Shard -> Shard \cup {Junk}]  BY ONLY <4>1, <4>2
        <4> HIDE DEF row
        <4> QED  BY ONLY <4>1, <4>3, <4>4 DEF MemOK
      <3> QED  BY <3>1, <3>3 DEF MemoryOK
    <2>4. XferOK'
      BY <1>1, <1>4, <2>1 DEF Transfer, XferOK, ShardStatus
    <2> QED  BY <2>2, <2>3, <2>4, TypePartsNext
  <1>5. ASSUME NEW k \in Planned, NEW s \in Node, TransferRetries(n, k, s) PROVE P2PTypeOK'
    <2>1. k \in Shard  BY DEF Planned
    <2>2. PcOK' /\ RecordOK' /\ FreshOK' /\ HistOK'
      BY <1>1, <1>5 DEF TransferRetries, PcOK, RecordOK, FreshOK, MetaOK, HistOK, metaVars, histVars
    <2>3. MemoryOK'
      BY <1>1, <1>5 DEF TransferRetries, MemoryOK, EntryOK, MemOK, memVars
    <2>4. view[n] \in Payload
      BY <1>1, <1>5 DEF TransferRetries, RecordOK, P2PInv, Calls, CallsView, Viewing
    <2>5. try[n][k] + 1 \in 0..MaxTries
      <3>1. try[n][k] \in 0..MaxTries /\ try[n][k] < maxRetryCount(view[n])
        BY <1>1, <1>5, <2>1 DEF TransferRetries, XferOK
      <3>2. maxRetryCount(view[n]) \in 0..MaxTries /\ MaxTries \in Nat
        BY <2>4, TriesBounded, BoundsNat DEF MaxTries
      <3> QED  BY <3>1, <3>2
    <2>6. XferOK'
      BY <1>1, <1>5, <2>1, <2>5 DEF TransferRetries, XferOK
    <2> QED  BY <2>2, <2>3, <2>6, TypePartsNext
  <1>6. ASSUME NEW k \in Planned, TransferFails(n, k) PROVE P2PTypeOK'
    <2>1. k \in Shard  BY DEF Planned
    <2>2. PcOK' /\ RecordOK' /\ FreshOK' /\ HistOK'
      BY <1>1, <1>6 DEF TransferFails, PcOK, RecordOK, FreshOK, MetaOK, HistOK, metaVars, histVars
    <2>3. MemoryOK'
      BY <1>1, <1>6 DEF TransferFails, MemoryOK, EntryOK, MemOK, memVars
    <2>4. XferOK'
      BY <1>1, <1>6, <2>1 DEF TransferFails, XferOK, ShardStatus
    <2> QED  BY <2>2, <2>3, <2>4, TypePartsNext
  <1> QED  BY <1>2, <1>3, <1>4, <1>5, <1>6 DEF GetReplica

\* Every step keeps the types.
LEMMA TypeStep ==
  ASSUME P2PInv, NEW n \in Node, Acts(n)
  PROVE  P2PTypeOK'
  <1>1. MetaOK'  BY WriteKinds, MetaStep DEF P2PInv
  <1> QED  BY <1>1, RegisterTypes, RemovingTypes, GetTypes DEF Acts

-----------------------------------------------------------------------------
(* Calls.                                                                   *)

\* Steps keep CallsOpen.
LEMMA CallsOpenStep ==
  ASSUME P2PTypeOK, CallsOpen, NEW n \in Node, Acts(n)
  PROVE  CallsOpen'
  <1>1. PcOK /\ HistOK  BY TypeParts
  <1> USE <1>1 DEF CallsOpen, PcOK, HistOK, Opening, Return, Goto, Get, Die, Open, Idle
  <1>2. CASE Register(n)
    BY <1>2 DEF Register, StartRegister, RegistrationPanics, CreateOk, CreateExists, ForceCreate,
       CreateError
  <1>3. CASE Removing(n)
    BY <1>3 DEF Removing, StartRemoval, RemovalCommits, RemovalRetries, RemovalError,
       RemovalDrops
  <1>4. CASE Reuse(n) \/ Crash(n)
    BY <1>4 DEF Reuse, Crash
  <1>5. CASE \/ StartGet(n) \/ TransfersEnd(n) \/ RecheckPasses(n) \/ RecheckRepeats(n)
             \/ RecheckPanics(n) \/ Publish(n) \/ PublishRetries(n) \/ PublishError(n)
    BY <1>5 DEF StartGet, TransfersEnd, RecheckPasses, RecheckRepeats, RecheckPanics, Publish,
       PublishRetries, PublishError
  <1>6. ASSUME NEW k \in Planned,
               \/ \E s \in Node : Transfer(n, k, s)
               \/ \E s \in Node : TransferRetries(n, k, s)
               \/ TransferFails(n, k)
        PROVE  UNCHANGED <<pc, catalog>>
    BY <1>6 DEF Transfer, TransferRetries, TransferFails
  <1> QED  BY <1>2, <1>3, <1>4, <1>5, <1>6 DEF Acts, GetReplica

\* A read, a write, and anything that touches neither record nor views of others.
LEMMA ViewAfterGet ==
  ASSUME P2PTypeOK, CallsView, NEW n \in Node, NEW s, Get(n, s), meta = NoPayload => s \notin Viewing
  PROVE  CallsView'
  <1>1. PcOK /\ RecordOK /\ FreshOK  BY TypeParts
  <1>2. \A m \in Node \ {n} : pc'[m] = pc[m] /\ view'[m] = view[m] /\ fresh'[m] = fresh[m]
    BY <1>1 DEF Get, PcOK, RecordOK, FreshOK
  <1>3. pc'[n] = s /\ view'[n] = meta /\ meta' = meta  BY <1>1 DEF Get, PcOK, RecordOK
  <1> QED  BY <1>2, <1>3 DEF CallsView

\* After a write no revision is current.
LEMMA ViewAfterWrite ==
  ASSUME P2PTypeOK, CallsView, NEW n \in Node, fresh' = [m \in Node |-> FALSE],
         pc'[n] \notin Viewing, \A m \in Node \ {n} : pc'[m] = pc[m] /\ view'[m] = view[m]
  PROVE  CallsView'
  <1>1. \A m \in Node : ~fresh'[m]  OBVIOUS
  <1> QED  BY <1>1 DEF CallsView

\* A step that leaves the record alone.
LEMMA ViewElse ==
  ASSUME P2PTypeOK, CallsView, NEW n \in Node, UNCHANGED metaVars,
         pc'[n] \in Viewing => pc[n] \in Viewing /\ view'[n] = view[n],
         \A m \in Node \ {n} : pc'[m] = pc[m] /\ view'[m] = view[m]
  PROVE  CallsView'
  BY DEF CallsView, metaVars

\* Steps keep CallsView.
LEMMA CallsViewStep ==
  ASSUME P2PTypeOK, CallsView, NEW n \in Node, Acts(n)
  PROVE  CallsView'
  <1>1. PcOK /\ RecordOK  BY TypeParts
  <1>2. CASE StartRemoval(n) \/ RemovalRetries(n) \/ StartGet(n) \/ PublishRetries(n)
    <2>1. PICK s : Get(n, s) /\ (meta = NoPayload => s \notin Viewing)
      BY <1>2 DEF StartRemoval, RemovalRetries, StartGet, PublishRetries, Viewing
    <2> QED  BY <2>1, ViewAfterGet
  <1>3. CASE \/ CreateOk(n) \/ ForceCreate(n) \/ CreateError(n) \/ RemovalCommits(n)
             \/ RemovalError(n) \/ Publish(n) \/ PublishError(n)
    <2>1. /\ pc'[n] \notin Viewing
          /\ \A m \in Node \ {n} : pc'[m] = pc[m] /\ view'[m] = view[m]
          /\ UNCHANGED metaVars \/ fresh' = [m \in Node |-> FALSE]
      BY <1>1, <1>3 DEF CreateOk, ForceCreate, CreateError, RemovalCommits, RemovalError, Publish,
         PublishError, Update, Write, Return, Goto, PcOK, RecordOK, Viewing
    <2> QED  BY <2>1, ViewAfterWrite, ViewElse
  <1>4. CASE \/ StartRegister(n) \/ RegistrationPanics(n) \/ CreateExists(n) \/ RemovalDrops(n)
             \/ Reuse(n) \/ Crash(n) \/ TransfersEnd(n) \/ RecheckPasses(n) \/ RecheckRepeats(n)
             \/ RecheckPanics(n)
    <2>1. /\ pc'[n] \in Viewing => pc[n] \in Viewing /\ view'[n] = view[n]
          /\ \A m \in Node \ {n} : pc'[m] = pc[m] /\ view'[m] = view[m]
          /\ UNCHANGED metaVars
      BY <1>1, <1>4 DEF StartRegister, RegistrationPanics, CreateExists, RemovalDrops, Reuse,
         Crash, TransfersEnd, RecheckPasses, RecheckRepeats, RecheckPanics, Return, Goto, Die,
         PcOK, RecordOK, Viewing
    <2> QED  BY <2>1, ViewElse
  <1>5. ASSUME NEW k \in Planned,
               \/ \E s \in Node : Transfer(n, k, s)
               \/ \E s \in Node : TransferRetries(n, k, s)
               \/ TransferFails(n, k)
        PROVE  CallsView'
    <2>1. UNCHANGED <<pc, view, metaVars>>
      BY <1>5 DEF Transfer, TransferRetries, TransferFails
    <2> QED  BY <2>1, ViewElse
  <1> QED  BY <1>2, <1>3, <1>4, <1>5 DEF Acts, Register, Removing, GetReplica

\* Steps keep CallsMemory.
LEMMA CallsMemoryStep ==
  ASSUME P2PTypeOK, CallsOpen, CallsMemory, NEW n \in Node, Acts(n)
  PROVE  CallsMemory'
  <1>1. PcOK /\ HistOK /\ MemoryOK  BY TypeParts
  <1>2. CASE \/ StartRegister(n) \/ StartGet(n) \/ RecheckRepeats(n)
    <2>1. AddMemory(n) /\ UNCHANGED catalog /\ \A m \in Node \ {n} : pc'[m] = pc[m]
      BY <1>1, <1>2 DEF StartRegister, StartGet, RecheckRepeats, doGetReplica, Goto, Get, PcOK
    <2>2. refs' = [refs EXCEPT ![n] = IF @ = 0 THEN 1 ELSE 2]
          /\ mr' = [mr EXCEPT ![n] = @ \/ refs[n] = 0]
      BY <2>1 DEF AddMemory
    <2>3. mr'[n] \/ refs'[n] = 2
      BY <2>2, <1>1 DEF MemoryOK, EntryOK
    <2>4. \A m \in Node \ {n} : mr'[m] = mr[m] /\ refs'[m] = refs[m]
      BY <2>2, <1>1 DEF MemoryOK, EntryOK
    <2> QED  BY <2>1, <2>3, <2>4 DEF CallsMemory
  <1>3. CASE \/ RegistrationPanics(n) \/ CreateExists(n) \/ CreateError(n) \/ RemovalDrops(n)
             \/ RecheckPanics(n) \/ Crash(n)
    <2>1. pc'[n] \notin Opening /\ catalog'[n] = "none"
      BY <1>1, <1>3 DEF RegistrationPanics, CreateExists, CreateError, RemovalDrops,
         RecheckPanics, Crash, Die, Return, Opening, CallsOpen, PcOK, HistOK
    <2>2. \A m \in Node \ {n} : /\ pc'[m] = pc[m] /\ catalog'[m] = catalog[m]
                                /\ mr'[m] = mr[m] /\ refs'[m] = refs[m]
      BY <1>1, <1>3 DEF RegistrationPanics, CreateExists, CreateError, RemovalDrops,
         RecheckPanics, Crash, Die, Return, PcOK, HistOK, MemoryOK, EntryOK, RemoveMemory, memVars
    <2> QED  BY <2>1, <2>2 DEF CallsMemory
  <1>4. CASE \/ CreateOk(n) \/ ForceCreate(n) \/ StartRemoval(n) \/ RemovalCommits(n)
             \/ RemovalRetries(n) \/ RemovalError(n) \/ Reuse(n) \/ TransfersEnd(n)
             \/ RecheckPasses(n) \/ Publish(n) \/ PublishRetries(n) \/ PublishError(n)
    <2>1. /\ UNCHANGED memVars
          /\ pc'[n] \in Opening \/ catalog'[n] # "none" => pc[n] \in Opening \/ catalog[n] # "none"
          /\ \A m \in Node \ {n} : pc'[m] = pc[m] /\ catalog'[m] = catalog[m]
      BY <1>1, <1>4 DEF CreateOk, ForceCreate, StartRemoval, RemovalCommits, RemovalRetries,
         RemovalError, Reuse, TransfersEnd, RecheckPasses, Publish, PublishRetries, PublishError,
         Return, Goto, Get, Opening, PcOK, HistOK
    <2> QED  BY <2>1 DEF CallsMemory, memVars
  <1>5. ASSUME NEW k \in Planned,
               \/ \E s \in Node : Transfer(n, k, s)
               \/ \E s \in Node : TransferRetries(n, k, s)
               \/ TransferFails(n, k)
        PROVE  CallsMemory'
    BY <1>5 DEF Transfer, TransferRetries, TransferFails, memVars, CallsMemory
  <1> QED  BY <1>2, <1>3, <1>4, <1>5 DEF Acts, Register, Removing, GetReplica

-----------------------------------------------------------------------------
(* The kinds of steps, as far as record and catalogs are concerned.         *)

Elsewhere(n) == \A m \in Node \ {n} : pc'[m] = pc[m] /\ catalog'[m] = catalog[m]
Doubts(n) == doubt' = doubt \cup {n} /\ faults' = faults + 1 /\ catalog'[n] = catalog[n]
Certain == doubt' = doubt /\ faults' = faults

Quiet(n) ==
    /\ meta' = meta /\ forced' = forced /\ doubt' = doubt /\ faults <= faults'
    /\ catalog'[n] = catalog[n] /\ pc[n] # "dead" /\ pc'[n] # "dead"
    /\ pc'[n] = "drop" <=> pc[n] = "drop"
Dies(n) ==
    /\ meta' = meta /\ forced' = forced /\ doubt' = doubt /\ faults <= faults'
    /\ catalog'[n] = "none" /\ pc'[n] = "dead"
Created(n) ==
    /\ pc[n] = "register" /\ Creates(n) /\ pc'[n] = "idle"
    /\ meta = NoPayload \/ forced'
    /\ forced => forced'
    /\ \/ catalog'[n] = "gold" /\ Certain
       \/ Doubts(n)
Added(n) ==
    /\ pc[n] = "publish" /\ Adds(n) /\ pc'[n] = "idle" /\ forced' = forced
    /\ (catalog'[n] = "replica" /\ Certain) \/ Doubts(n)
Removed(n) ==
    /\ (pc[n] = "unregister" /\ DropsGold) \/ (pc[n] = "delete" /\ DropsRep(n))
    /\ forced' = forced
    /\ \/ pc'[n] = "drop" /\ catalog'[n] = catalog[n] /\ Certain
       \/ pc'[n] = "idle" /\ Doubts(n)
Dropped(n) ==
    /\ meta' = meta /\ forced' = forced /\ Certain
    /\ pc[n] = "drop" /\ pc'[n] = "idle" /\ catalog'[n] = "none"

\* Every step is of one of these kinds.
LEMMA Kinds ==
  ASSUME P2PTypeOK, Calls, NEW n \in Node, Acts(n)
  PROVE  /\ Elsewhere(n)
         /\ Quiet(n) \/ Dies(n) \/ Created(n) \/ Added(n) \/ Removed(n) \/ Dropped(n)
  <1>1. PcOK /\ HistOK  BY TypeParts
  <1>2. faults \in Nat  BY <1>1, BoundAssumption DEF HistOK
  <1>3. Elsewhere(n)
    <2>1. CASE Register(n)
      BY <1>1, <2>1 DEF Register, StartRegister, RegistrationPanics, CreateOk, CreateExists,
         ForceCreate, CreateError, Return, Goto, Die, PcOK, HistOK, Elsewhere
    <2>2. CASE Removing(n) \/ Reuse(n) \/ Crash(n)
      BY <1>1, <2>2 DEF Removing, StartRemoval, RemovalCommits, RemovalRetries, RemovalError,
         RemovalDrops, Reuse, Crash, Return, Goto, Get, Die, PcOK, HistOK, Elsewhere
    <2>3. CASE GetReplica(n)
      BY <1>1, <2>3 DEF GetReplica, StartGet, TransfersEnd, RecheckPasses, RecheckRepeats,
         RecheckPanics, Publish, PublishRetries, PublishError, Transfer, TransferRetries,
         TransferFails, Return, Goto, Get, Die, PcOK, HistOK, Elsewhere
    <2> QED  BY <2>1, <2>2, <2>3 DEF Acts
  <1>4. CASE RegistrationPanics(n) \/ RecheckPanics(n) \/ Crash(n)
    <2>1. Dies(n)
      BY <1>1, <1>2, <1>4 DEF RegistrationPanics, RecheckPanics, Crash, Die, Return, Fault,
         metaVars, histVars, PcOK, HistOK, Dies
    <2> QED  BY <1>3, <2>1
  <1>5. CASE CreateOk(n) \/ ForceCreate(n)
    <2>1. /\ pc[n] = "register" /\ Creates(n) /\ pc'[n] = "idle"
          /\ catalog'[n] = "gold" /\ Certain
      BY <1>1, <1>5 DEF CreateOk, ForceCreate, Creates, Certain, Write, Registered,
         Return, histVars, PcOK, HistOK
    <2>2. (meta = NoPayload \/ forced') /\ (forced => forced')
      <3>1. CASE CreateOk(n)
        <4>1. meta = NoPayload /\ forced' = forced  BY <3>1 DEF CreateOk, histVars
        <4> QED  BY <4>1
      <3>2. CASE ForceCreate(n)
        <4>1. forced' = TRUE  BY <3>2 DEF ForceCreate
        <4> QED  BY <4>1
      <3> QED  BY <1>5, <3>1, <3>2
    <2>3. Created(n)  BY <2>1, <2>2, Zenon DEF Created
    <2> QED  BY <1>3, <2>3
  <1>6. CASE CreateError(n)
    <2>1. CASE UNCHANGED <<metaVars, doubt, forced>>
      <3>1. Quiet(n)
        BY <1>1, <1>2, <1>6, <2>1 DEF CreateError, Fault, Return, metaVars, PcOK, HistOK, Quiet
      <3> QED  BY <1>3, <3>1
    <2>2. CASE /\ Write(Registered(n)) /\ doubt' = doubt \cup {n}
               /\ forced' = (forced \/ meta # NoPayload)
      <3>1. /\ pc[n] = "register" /\ Creates(n) /\ pc'[n] = "idle"
            /\ catalog'[n] = catalog[n] /\ Doubts(n)
        BY <1>1, <1>6, <2>2 DEF CreateError, Creates, Doubts, Write, Registered, Return, Fault,
           PcOK, HistOK
      <3>2. (meta = NoPayload \/ forced') /\ (forced => forced')
        BY <2>2
      <3>3. Created(n)  BY <1>1, <3>1, <3>2, Zenon DEF Created
      <3> QED  BY <1>3, <3>3
    <2> QED  BY <1>6, <2>1, <2>2 DEF CreateError
  <1>7. CASE Publish(n)
    <2>1. Adds(n)  BY <1>7, FreshWrite DEF Publish, Viewing
    <2>2. Added(n)
      BY <1>1, <1>7, <2>1 DEF Publish, Added, Certain, Return, histVars, PcOK, HistOK
    <2> QED  BY <1>3, <2>2
  <1>8. CASE PublishError(n)
    <2>1. CASE UNCHANGED <<metaVars, doubt>>
      <3>1. Quiet(n)
        BY <1>1, <1>2, <1>8, <2>1 DEF PublishError, Fault, Return, metaVars, PcOK, HistOK, Quiet
      <3> QED  BY <1>3, <3>1
    <2>2. CASE /\ pc[n] = "publish" /\ fresh[n] /\ Update(n, WithReplica(n))
               /\ doubt' = doubt \cup {n}
      <3>1. Adds(n)  BY <2>2, FreshWrite DEF Viewing
      <3>2. Added(n)
        BY <1>1, <1>8, <2>2, <3>1 DEF PublishError, Added, Doubts, Return, Fault, PcOK, HistOK
      <3> QED  BY <1>3, <3>2
    <2> QED  BY <1>8, <2>1, <2>2 DEF PublishError
  <1>9. CASE RemovalCommits(n)
    <2>1. (pc[n] = "unregister" /\ DropsGold) \/ (pc[n] = "delete" /\ DropsRep(n))
      <3>1. pc[n] \in {"unregister", "delete"} /\ fresh[n] /\ Update(n, Removal(n))
        BY <1>9 DEF RemovalCommits
      <3>2. pc[n] \in Viewing  BY <3>1 DEF Viewing
      <3>3. CASE pc[n] = "unregister"
        <4>1. DropsGold  BY <3>1, <3>2, <3>3, FreshWrite
        <4> QED  BY <3>3, <4>1
      <3>4. CASE pc[n] = "delete"
        <4>1. DropsRep(n)  BY <3>1, <3>2, <3>4, FreshWrite
        <4> QED  BY <3>4, <4>1
      <3> QED  BY <3>1, <3>3, <3>4
    <2>2. Removed(n)
      BY <1>1, <1>9, <2>1 DEF RemovalCommits, Removed, Certain, Goto, histVars, PcOK, HistOK
    <2> QED  BY <1>3, <2>2
  <1>10. CASE RemovalError(n)
    <2>1. CASE UNCHANGED <<metaVars, doubt>>
      <3>1. Quiet(n)
        BY <1>1, <1>2, <1>10, <2>1 DEF RemovalError, Fault, Return, metaVars, PcOK, HistOK, Quiet
      <3> QED  BY <1>3, <3>1
    <2>2. CASE fresh[n] /\ Update(n, Removal(n)) /\ doubt' = doubt \cup {n}
      <3>1. (pc[n] = "unregister" /\ DropsGold) \/ (pc[n] = "delete" /\ DropsRep(n))
        <4>1. pc[n] \in {"unregister", "delete"}  BY <1>10 DEF RemovalError
        <4>2. pc[n] \in Viewing  BY <4>1 DEF Viewing
        <4>3. CASE pc[n] = "unregister"
          <5>1. DropsGold  BY <2>2, <4>2, <4>3, FreshWrite
          <5> QED  BY <4>3, <5>1
        <4>4. CASE pc[n] = "delete"
          <5>1. DropsRep(n)  BY <2>2, <4>2, <4>4, FreshWrite
          <5> QED  BY <4>4, <5>1
        <4> QED  BY <4>1, <4>3, <4>4
      <3>2. Removed(n)
        BY <1>1, <1>10, <2>2, <3>1 DEF RemovalError, Removed, Doubts, Return, Fault, PcOK, HistOK
      <3> QED  BY <1>3, <3>2
    <2> QED  BY <1>10, <2>1, <2>2 DEF RemovalError
  <1>11. CASE RemovalDrops(n)
    <2>1. Dropped(n)
      BY <1>1, <1>11 DEF RemovalDrops, Dropped, Certain, Return, metaVars, PcOK, HistOK
    <2> QED  BY <1>3, <2>1
  <1>12. CASE \/ StartRegister(n) \/ CreateExists(n) \/ StartRemoval(n) \/ RemovalRetries(n)
              \/ Reuse(n) \/ StartGet(n) \/ TransfersEnd(n) \/ RecheckPasses(n)
              \/ RecheckRepeats(n) \/ PublishRetries(n)
    <2>1. Quiet(n)
      BY <1>1, <1>2, <1>12 DEF StartRegister, CreateExists, StartRemoval, RemovalRetries, Reuse,
         StartGet, TransfersEnd, RecheckPasses, RecheckRepeats, PublishRetries, Open, Idle,
         Return, Goto, Get, metaVars, histVars, PcOK, HistOK, Quiet
    <2> QED  BY <1>3, <2>1
  <1>13. ASSUME NEW k \in Planned,
                \/ \E s \in Node : Transfer(n, k, s)
                \/ \E s \in Node : TransferRetries(n, k, s)
                \/ TransferFails(n, k)
         PROVE  Quiet(n)
    BY <1>2, <1>13 DEF Transfer, TransferRetries, TransferFails, metaVars, histVars, Quiet
  <1> QED
    BY <1>3, <1>4, <1>5, <1>6, <1>7, <1>8, <1>9, <1>10, <1>11, <1>12, <1>13
       DEF Acts, Register, Removing, GetReplica

-----------------------------------------------------------------------------
(* What each kind of step leaves of the invariant.                          *)

Kind(n) == Quiet(n) \/ Dies(n) \/ Created(n) \/ Added(n) \/ Removed(n) \/ Dropped(n)

\* What a step does to the sets of peers the record lists.
Lists(n) ==
    /\ Created(n) => Golds(meta') = {n} /\ Reps(meta') = {}
    /\ Added(n) => Golds(meta') = Golds(meta) /\ Reps(meta') = Reps(meta) \cup {n}
    /\ Removed(n) => \/ Golds(meta') = {} /\ Reps(meta') = Reps(meta) /\ pc[n] = "unregister"
                     \/ /\ Golds(meta') = Golds(meta) /\ Reps(meta') = Reps(meta) \ {n}
                        /\ pc[n] = "delete"

\* A peer that publishes was not counted yet, so there is room for it.
LEMMA AddsRoom ==
  ASSUME P2PInv, NEW n \in Node, Added(n)
  PROVE  catalog[n] = "none" /\ meta # NoPayload /\ Len(meta.reps) < MaxReps /\ n \notin Steady
  <1>1. catalog[n] = "none" /\ meta # NoPayload /\ pc[n] # "dead"
    BY DEF P2PInv, Added, Calls, CallsOpen, Opening, Adds
  <1> QED  BY <1>1, RoomForReplica DEF P2PInv

\* Lists holds of every kind of step.
LEMMA ListsStep ==
  ASSUME P2PInv, NEW n \in Node
  PROVE  Lists(n)
  <1>1. meta \in Payload \cup {NoPayload}  BY DEF P2PInv, P2PTypeOK
  <1>2. ASSUME Created(n) PROVE Golds(meta') = {n} /\ Reps(meta') = {}
    BY <1>2, CreateFacts DEF Created
  <1>3. ASSUME Added(n)
        PROVE  Golds(meta') = Golds(meta) /\ Reps(meta') = Reps(meta) \cup {n}
    BY <1>1, <1>3, AddsRoom, AddFacts DEF Added
  <1>4. ASSUME Removed(n)
        PROVE  \/ Golds(meta') = {} /\ Reps(meta') = Reps(meta) /\ pc[n] = "unregister"
               \/ /\ Golds(meta') = Golds(meta) /\ Reps(meta') = Reps(meta) \ {n}
                  /\ pc[n] = "delete"
    BY <1>1, <1>4, DropGoldFacts, DropRepFacts DEF Removed
  <1> QED  BY <1>2, <1>3, <1>4 DEF Lists

\* Steps keep ListedIsOpen.
LEMMA ListedIsOpenStep ==
  ASSUME P2PInv, NEW n \in Node, Elsewhere(n), Kind(n)
  PROVE  ListedIsOpen'
  <1> DEFINE G == Golds(meta)  R == Reps(meta)  G1 == Golds(meta')  R1 == Reps(meta')
  <1>1. Lists(n)  BY ListsStep
  <1>2. PcOK /\ HistOK  BY TypeParts DEF P2PInv
  <1>3. ASSUME NEW m \in Node
        PROVE  /\ catalog[m] = "gold" \/ pc[m] = "drop" => m \notin R
               /\ m \notin doubt /\ pc[m] # "dead" =>
                    /\ m \in R => catalog[m] = "replica"
                    /\ m \in G => catalog[m] = "gold" /\ pc[m] # "drop"
    BY DEF P2PInv, ListedIsOpen
  <1>4. ASSUME NEW m \in Node
        PROVE  /\ pc[m] \in Opening \cup {"dead"} => catalog[m] = "none"
               /\ pc[m] = "unregister" => catalog[m] = "gold"
               /\ pc[m] = "delete" => catalog[m] = "replica"
               /\ pc[m] = "drop" => catalog[m] # "none"
    BY DEF P2PInv, Calls, CallsOpen
  <1> SUFFICES ASSUME NEW m \in Node
               PROVE  /\ catalog'[m] = "gold" \/ pc'[m] = "drop" => m \notin R1
                      /\ m \notin doubt' /\ pc'[m] # "dead" =>
                           /\ m \in R1 => catalog'[m] = "replica"
                           /\ m \in G1 => catalog'[m] = "gold" /\ pc'[m] # "drop"
    BY DEF ListedIsOpen
  <1>5. m # n => pc'[m] = pc[m] /\ catalog'[m] = catalog[m]  BY DEF Elsewhere
  <1> HIDE DEF G, R, G1, R1
  <1>6. CASE Quiet(n)
    <2>1. G1 = G /\ R1 = R  BY <1>6 DEF Quiet, G, R, G1, R1
    <2> QED  BY <1>3, <1>4, <1>5, <1>6, <2>1 DEF Quiet
  <1>7. CASE Dies(n)
    <2>1. G1 = G /\ R1 = R  BY <1>7 DEF Dies, G, R, G1, R1
    <2> QED  BY <1>3, <1>4, <1>5, <1>7, <2>1 DEF Dies
  <1>8. CASE Created(n)
    <2>1. G1 = {n} /\ R1 = {}  BY <1>1, <1>8 DEF Lists, G1, R1
    <2>2. catalog'[n] = "gold" \/ n \in doubt'  BY <1>8 DEF Created, Doubts
    <2>3. pc'[n] = "idle"  BY <1>8 DEF Created
    <2> QED  BY <2>1, <2>2, <2>3
  <1>9. CASE Added(n)
    <2>1. G1 = G /\ R1 = R \cup {n}  BY <1>1, <1>9 DEF Lists, G, R, G1, R1
    <2>2. pc[n] = "publish" /\ pc'[n] = "idle" /\ (doubt' = doubt \/ doubt' = doubt \cup {n})
      BY <1>9 DEF Added, Certain, Doubts
    <2>3. catalog'[n] = "replica" \/ (catalog'[n] = catalog[n] /\ n \in doubt')
      BY <1>9 DEF Added, Doubts
    <2>4. catalog[n] = "none"  BY <1>4, <2>2 DEF Opening
    <2> QED  BY <1>3, <1>4, <1>5, <2>1, <2>2, <2>3, <2>4
  <1>10. CASE Removed(n)
    <2>1. \/ G1 = {} /\ R1 = R /\ pc[n] = "unregister"
          \/ G1 = G /\ R1 = R \ {n} /\ pc[n] = "delete"
      BY <1>1, <1>10 DEF Lists, G, R, G1, R1
    <2>2. /\ catalog'[n] = catalog[n] /\ pc'[n] \in {"drop", "idle"}
          /\ doubt' = doubt \/ doubt' = doubt \cup {n}
      BY <1>10 DEF Removed, Certain, Doubts
    <2>3. CASE G1 = {} /\ R1 = R /\ pc[n] = "unregister"
      BY <1>3, <1>4, <1>5, <2>2, <2>3
    <2>4. CASE G1 = G /\ R1 = R \ {n} /\ pc[n] = "delete"
      BY <1>3, <1>4, <1>5, <2>2, <2>4
    <2> QED  BY <2>1, <2>3, <2>4
  <1>11. CASE Dropped(n)
    <2>1. G1 = G /\ R1 = R  BY <1>11 DEF Dropped, G, R, G1, R1
    <2> QED  BY <1>3, <1>4, <1>5, <1>11, <2>1 DEF Dropped, Certain
  <1> QED  BY <1>6, <1>7, <1>8, <1>9, <1>10, <1>11 DEF Kind

\* Arithmetic, away from the state.
LEMMA SumBound ==
  /\ \A f \in Nat : 0 <= 0 + f
  /\ \A a, a1, b, b1, c, d, d1 \in Nat :
       a1 < a /\ a <= b + d /\ c >= b - 1 /\ c <= b1 /\ d <= d1 => a1 <= b1 + d1
  OBVIOUS

\* Steps keep RepsBounded.
LEMMA RepsBoundedStep ==
  ASSUME P2PInv, P2PTypeOK', NEW n \in Node, Elsewhere(n), Kind(n)
  PROVE  RepsBounded'
  <1>1. Lists(n)  BY ListsStep
  <1>2. PcOK /\ HistOK /\ P2PTypeOK  BY TypeParts DEF P2PInv
  <1>3. /\ Steady' = {m \in Reps(meta') : catalog'[m] # "none" \/ pc'[m] = "dead"}
        /\ Steady \subseteq Node /\ IsFiniteSet(Steady) /\ Cardinality(Steady) \in Nat
        /\ Reps(meta) \subseteq Node
    BY <1>2, SteadyFinite DEF Steady
  <1>4. faults \in Nat /\ faults' \in Nat /\ (meta # NoPayload => Len(meta.reps) \in Nat)
        /\ (meta' # NoPayload => Len(meta'.reps) \in Nat)
    BY <1>2, BoundAssumption, PayloadFacts DEF P2PTypeOK
  <1>5. \A m \in Node \ {n} : pc'[m] = pc[m] /\ catalog'[m] = catalog[m]  BY DEF Elsewhere
  <1>0. faults \in Nat /\ faults' \in Nat  BY <1>4
  <1>6. CASE \/ Quiet(n) \/ Dies(n) \/ Dropped(n)
    <2>1. meta' = meta /\ faults <= faults'
      BY <1>4, <1>6 DEF Quiet, Dies, Dropped, Certain
    <2>2. Steady \subseteq Steady'
      <3>1. n \in Reps(meta) /\ Dropped(n) => FALSE
        BY DEF P2PInv, ListedIsOpen, Dropped
      <3> QED  BY <1>3, <1>5, <1>6, <2>1, <3>1 DEF Steady, Quiet, Dies
    <2> QED  BY <2>1, <2>2, <1>2, <1>4, CountKept DEF P2PInv
  <1>7. CASE Created(n)
    <2>1. Len(meta'.reps) = 0 /\ meta' # NoPayload
      BY <1>7, CreateFacts, PayloadFacts DEF Created
    <2>2. Reps(meta') = {}  BY <1>1, <1>7 DEF Lists
    <2>3. Steady' = {}  BY <1>3, <2>2
    <2>4. Cardinality(Steady') = 0  BY <2>3, FS_EmptySet
    <2>5. Len(meta'.reps) <= Cardinality(Steady') + faults'
      <3>1. 0 <= 0 + faults'  BY <1>0, SumBound
      <3> QED  BY <2>1, <2>4, <3>1, Zenon
    <2> QED  BY <2>5 DEF RepsBounded
  <1>8. CASE Added(n)
    <2>1. /\ catalog[n] = "none" /\ meta # NoPayload /\ Len(meta.reps) < MaxReps
          /\ n \notin Steady
      BY <1>8, AddsRoom
    <2>2. Len(meta'.reps) = Len(meta.reps) + 1
      BY <1>2, <1>8, <2>1, AddFacts DEF Added, P2PTypeOK
    <2>3. Reps(meta') = Reps(meta) \cup {n}  BY <1>1, <1>8 DEF Lists
    <2>4. Steady \subseteq Steady'
      BY <1>3, <1>5, <2>1, <2>3 DEF Steady
    <2>5. Steady' \subseteq Node  BY <1>3, <2>3
    <2>6. IsFiniteSet(Steady') /\ Cardinality(Steady') \in Nat
      BY <2>5, NodeAssumption, FS_Subset, FS_CardinalityType
    <2>7. Len(meta.reps) <= Cardinality(Steady) + faults
      BY <2>1 DEF P2PInv, RepsBounded
    <2>8. CASE catalog'[n] = "replica" /\ Certain
      <3>1. Steady \cup {n} \subseteq Steady'  BY <1>3, <2>3, <2>4, <2>8
      <3>2. Cardinality(Steady \cup {n}) = Cardinality(Steady) + 1
        BY <1>3, <2>1, FS_AddElement
      <3>3. Cardinality(Steady \cup {n}) <= Cardinality(Steady')
        BY <3>1, <2>6, FS_Subset
      <3> QED  BY <1>3, <1>4, <2>1, <2>2, <2>6, <2>7, <2>8, <3>2, <3>3 DEF RepsBounded, Certain
    <2>9. CASE Doubts(n)
      <3>1. Cardinality(Steady) <= Cardinality(Steady')  BY <2>4, <2>6, FS_Subset
      <3> QED  BY <1>3, <1>4, <2>1, <2>2, <2>6, <2>7, <2>9, <3>1 DEF RepsBounded, Doubts
    <2> QED  BY <1>8, <2>8, <2>9 DEF Added
  <1>9. CASE Removed(n)
    <2>1. catalog'[n] = catalog[n] /\ faults <= faults' /\ pc'[n] # "dead" /\ pc[n] # "dead"
      BY <1>4, <1>9 DEF Removed, Certain, Doubts
    <2>2. CASE pc[n] = "unregister" /\ DropsGold
      <3>1. Reps(meta') = Reps(meta) /\ (meta' # NoPayload => meta'.reps = meta.reps)
            /\ meta # NoPayload
        BY <1>2, <2>2, DropGoldFacts DEF P2PTypeOK, DropsGold
      <3>2. Steady \subseteq Steady'  BY <1>3, <1>5, <2>1, <3>1 DEF Steady
      <3> QED  BY <2>1, <3>1, <3>2, <1>2, <1>4, CountKept DEF P2PInv
    <2>3. CASE pc[n] = "delete" /\ DropsRep(n)
      <3>1. /\ Reps(meta') = Reps(meta) \ {n}
            /\ meta' # NoPayload => /\ Len(meta'.reps) <= Len(meta.reps)
                                    /\ n \in Reps(meta) => Len(meta'.reps) < Len(meta.reps)
            /\ meta # NoPayload
        BY <1>2, <2>3, DropRepFacts DEF P2PTypeOK, DropsRep
      <3>2. Steady \ {n} \subseteq Steady'  BY <1>3, <1>5, <3>1 DEF Steady
      <3>3. CASE n \notin Reps(meta)
        <4>1. Steady \subseteq Steady'  BY <3>2, <3>3 DEF Steady
        <4> QED  BY <2>1, <3>1, <4>1, <1>2, <1>4, CountKept DEF P2PInv
      <3>4. CASE n \in Reps(meta)
        <4>1. Steady' \subseteq Node  BY <1>3, <3>1
        <4>2. IsFiniteSet(Steady') /\ Cardinality(Steady') \in Nat
          BY <4>1, NodeAssumption, FS_Subset, FS_CardinalityType
        <4>3. IsFiniteSet(Steady \ {n}) /\ Cardinality(Steady \ {n}) >= Cardinality(Steady) - 1
              /\ Cardinality(Steady \ {n}) \in Nat
          BY <1>3, FS_RemoveElement, FS_Subset, FS_CardinalityType
        <4>4. Cardinality(Steady \ {n}) <= Cardinality(Steady')  BY <3>2, <4>2, FS_Subset
        <4>5. Len(meta.reps) <= Cardinality(Steady) + faults
          BY <3>1 DEF P2PInv, RepsBounded
        <4>6. meta' # NoPayload => Len(meta'.reps) <= Cardinality(Steady') + faults'
          <5> DEFINE a == Len(meta.reps)  a1 == Len(meta'.reps)
                     b == Cardinality(Steady)  b1 == Cardinality(Steady')
                     c == Cardinality(Steady \ {n})
          <5> SUFFICES ASSUME meta' # NoPayload PROVE a1 <= b1 + faults'  OBVIOUS
          <5>1. a \in Nat /\ a1 \in Nat /\ b \in Nat /\ b1 \in Nat /\ c \in Nat
            BY <1>3, <1>4, <3>1, <4>2, <4>3
          <5>2. a1 < a  BY <3>1, <3>4
          <5>3. a <= b + faults /\ c >= b - 1 /\ c <= b1  BY <4>3, <4>4, <4>5
          <5> HIDE DEF a, a1, b, b1, c
          <5>4. faults <= faults'  BY <2>1
          <5> QED  BY <1>0, <5>1, <5>2, <5>3, <5>4, SumBound
        <4> QED  BY <4>6 DEF RepsBounded
      <3> QED  BY <3>3, <3>4
    <2> QED  BY <1>9, <2>2, <2>3 DEF Removed
  <1> QED  BY <1>6, <1>7, <1>8, <1>9 DEF Kind

\* Being listed, in terms of the sets.
LEMMA ListedIff ==
  ASSUME NEW p \in Payload \cup {NoPayload}, NEW m
  PROVE  /\ p # NoPayload /\ contains(p.gold, m) <=> m \in Golds(p)
         /\ (/\ p # NoPayload
             /\ Cardinality({i \in DOMAIN p.reps : p.reps[i] = m}) = 1)
              <=> m \in Reps(p) /\ Single(p.reps, m)
  <1>1. CASE p = NoPayload  BY <1>1 DEF Golds, Reps
  <1>2. CASE p # NoPayload
    <2>1. p.reps \in Seq(Node) /\ Golds(p) = ToSet(p.gold) /\ Reps(p) = ToSet(p.reps)
      BY <1>2, PayloadFacts
    <2>2. Cardinality({i \in DOMAIN p.reps : p.reps[i] = m}) = 1
            <=> m \in ToSet(p.reps) /\ Single(p.reps, m)
      BY <2>1, OnceIff
    <2> QED  BY <1>2, <2>1, <2>2, Zenon DEF contains
  <1> QED  BY <1>1, <1>2

\* OpenIsListed, in terms of the sets of peers listed.
OpenListed(m) ==
    pc[m] # "drop" =>
      /\ catalog[m] = "gold" /\ doubt = {} => m \in Golds(meta)
      /\ catalog[m] = "replica" /\ m \notin doubt => m \in Reps(meta) /\ Single(meta.reps, m)

\* The two forms of OpenIsListed agree, before a step
LEMMA OpenListedIff ==
  ASSUME meta \in Payload \cup {NoPayload}
  PROVE  OpenIsListed <=> (~forced => \A m \in Node : OpenListed(m))
  <1>1. ASSUME NEW m \in Node
        PROVE  /\ meta # NoPayload /\ contains(meta.gold, m) <=> m \in Golds(meta)
               /\ (/\ meta # NoPayload
                   /\ Cardinality({i \in DOMAIN meta.reps : meta.reps[i] = m}) = 1)
                    <=> m \in Reps(meta) /\ Single(meta.reps, m)
    BY ListedIff
  <1> QED  BY <1>1, Zenon DEF OpenIsListed, OpenListed

\* ... and after it.
LEMMA OpenListedIffNext ==
  ASSUME meta' \in Payload \cup {NoPayload}
  PROVE  OpenIsListed' <=> (~forced' => \A m \in Node : OpenListed(m)')
  <1>1. ASSUME NEW m \in Node
        PROVE  /\ meta' # NoPayload /\ contains(meta'.gold, m) <=> m \in Golds(meta')
               /\ (/\ meta' # NoPayload
                   /\ Cardinality({i \in DOMAIN meta'.reps : meta'.reps[i] = m}) = 1)
                    <=> m \in Reps(meta') /\ Single(meta'.reps, m)
    BY ListedIff
  <1> QED  BY <1>1, Zenon DEF OpenIsListed, OpenListed

\* There is one gold copy.
LEMMA OneGold ==
  ASSUME meta \in Payload \cup {NoPayload}, NEW m \in Golds(meta), NEW n \in Golds(meta)
  PROVE  m = n
  <1>1. meta \in Payload  BY DEF Golds
  <1>2. /\ meta.gold \in Seq(Node) /\ Len(meta.gold) <= 1 /\ Len(meta.gold) \in Nat
        /\ Golds(meta) = ToSet(meta.gold)
    BY <1>1, PayloadFacts
  <1>3. DOMAIN meta.gold = 1..Len(meta.gold)  BY <1>2, LenProperties
  <1>4. PICK i, j \in DOMAIN meta.gold : m = meta.gold[i] /\ n = meta.gold[j]
    BY <1>2 DEF ToSet
  <1>5. i = 1 /\ j = 1  BY <1>2, <1>3, <1>4
  <1> QED  BY <1>4, <1>5

\* Steps keep OpenIsListed.
LEMMA OpenIsListedStep ==
  ASSUME P2PInv, P2PTypeOK', NEW n \in Node, Elsewhere(n), Kind(n)
  PROVE  OpenIsListed'
  <1>1. Lists(n)  BY ListsStep
  <1>2. PcOK /\ HistOK /\ meta \in Payload \cup {NoPayload} /\ meta' \in Payload \cup {NoPayload}
    BY TypeParts DEF P2PInv, P2PTypeOK
  <1> SUFFICES ASSUME ~forced', NEW m \in Node PROVE OpenListed(m)'
    BY <1>2, OpenListedIffNext
  <1>3. ~forced
    <2>1. forced => forced'
      <3>1. CASE Created(n)  BY <3>1 DEF Created
      <3>2. CASE forced' = forced  BY <3>2
      <3> QED  BY <3>1, <3>2 DEF Kind, Quiet, Dies, Added, Removed, Dropped
    <2> QED  BY <2>1
  <1>4. \A q \in Node : OpenListed(q)  BY <1>2, <1>3, OpenListedIff DEF P2PInv
  <1>5. /\ pc[n] \in Opening \cup {"dead"} => catalog[n] = "none"
        /\ pc[n] = "unregister" => catalog[n] = "gold"
        /\ pc[n] = "delete" => catalog[n] = "replica"
    BY DEF P2PInv, Calls, CallsOpen
  <1>6. m # n => pc'[m] = pc[m] /\ catalog'[m] = catalog[m]  BY DEF Elsewhere
  <1>7. CASE Quiet(n)
    <2>1. /\ pc'[m] = "drop" <=> pc[m] = "drop"
          /\ catalog'[m] = catalog[m] /\ meta' = meta /\ doubt' = doubt
      BY <1>6, <1>7 DEF Quiet
    <2> QED  BY <1>4, <2>1 DEF OpenListed
  <1>8. CASE Dies(n) \/ Dropped(n)
    <2>1. catalog'[n] = "none" /\ meta' = meta /\ doubt' = doubt
      BY <1>8 DEF Dies, Dropped, Certain
    <2> QED  BY <1>4, <1>6, <2>1 DEF OpenListed
  <1>9. CASE Created(n)
    <2>1. meta = NoPayload  BY <1>9 DEF Created
    <2>2. Golds(meta) = {} /\ Reps(meta) = {}  BY <2>1 DEF Golds, Reps
    <2>3. Golds(meta') = {n}  BY <1>1, <1>9 DEF Lists
    <2>4. doubt \subseteq doubt' /\ catalog'[n] # "replica"
      BY <1>5, <1>9 DEF Created, Certain, Doubts, Opening
    <2>5. CASE m = n  BY <2>3, <2>4, <2>5 DEF OpenListed
    <2>6. CASE m # n
      <3>1. ~(pc[m] # "drop" /\ catalog[m] = "gold" /\ doubt = {})
        BY <1>4, <2>2 DEF OpenListed
      <3>2. ~(pc[m] # "drop" /\ catalog[m] = "replica" /\ m \notin doubt)
        BY <1>4, <2>2 DEF OpenListed
      <3>3. doubt' = {} => doubt = {}  BY <2>4
      <3> QED  BY <1>6, <2>4, <2>6, <3>1, <3>2, <3>3 DEF OpenListed
    <2> QED  BY <2>5, <2>6
  <1>10. CASE Added(n)
    <2>1. Golds(meta') = Golds(meta) /\ Reps(meta') = Reps(meta) \cup {n}
      BY <1>1, <1>10 DEF Lists
    <2>2. catalog[n] = "none" /\ meta # NoPayload /\ Len(meta.reps) < MaxReps  BY <1>10, AddsRoom
    <2>3. /\ \A q : q # n /\ Single(meta.reps, q) => Single(meta'.reps, q)
          /\ n \notin Reps(meta) => Single(meta'.reps, n)
      BY <1>2, <1>10, <2>2, AddFacts DEF Added
    <2>4. doubt \subseteq doubt' /\ (catalog'[n] # "gold") /\ (n \in doubt' \/ doubt' = doubt)
      BY <1>10, <2>2 DEF Added, Certain, Doubts
    <2>5. n \notin doubt => n \notin Reps(meta)
      BY <1>10, <2>2 DEF P2PInv, ListedIsOpen, Added
    <2>6. CASE m = n
      <3>1. n \notin doubt' => n \in Reps(meta') /\ Single(meta'.reps, n)
        BY <2>1, <2>3, <2>4, <2>5
      <3> QED  BY <2>4, <2>6, <3>1 DEF OpenListed
    <2>7. CASE m # n
      <3>1. OpenListed(m)  BY <1>4
      <3>2. doubt' = {} => doubt = {}  BY <2>4
      <3>3. m \notin doubt' => m \notin doubt  BY <2>4
      <3> QED  BY <1>6, <2>1, <2>3, <2>7, <3>1, <3>2, <3>3 DEF OpenListed
    <2> QED  BY <2>6, <2>7
  <1>11. CASE Removed(n)
    <2>1. doubt \subseteq doubt' /\ catalog'[n] = catalog[n] /\ (pc'[n] = "drop" \/ n \in doubt')
      BY <1>11 DEF Removed, Certain, Doubts
    <2>2. CASE m = n
      <3>1. n \in doubt' => doubt' # {}  OBVIOUS
      <3> QED  BY <2>1, <2>2, <3>1 DEF OpenListed
    <2>3. CASE m # n /\ pc[n] = "unregister" /\ DropsGold
      <3>1. /\ Reps(meta') = Reps(meta)
            /\ meta' # NoPayload => meta'.reps = meta.reps
        BY <1>2, <2>3, DropGoldFacts
      <3>2. ~(pc[m] # "drop" /\ catalog[m] = "gold" /\ doubt = {})
        <4> SUFFICES ASSUME pc[m] # "drop", catalog[m] = "gold", doubt = {} PROVE FALSE
          OBVIOUS
        <4>1. m \in Golds(meta)  BY <1>4 DEF OpenListed
        <4>2. n \in Golds(meta)  BY <1>4, <1>5, <2>3 DEF OpenListed
        <4> QED  BY <1>2, <2>3, <4>1, <4>2, OneGold
      <3>3. pc[m] # "drop" /\ catalog[m] = "replica" /\ m \notin doubt =>
              m \in Reps(meta') /\ Single(meta'.reps, m)
        <4> SUFFICES ASSUME pc[m] # "drop", catalog[m] = "replica", m \notin doubt
                     PROVE  m \in Reps(meta') /\ Single(meta'.reps, m)
          OBVIOUS
        <4>1. m \in Reps(meta) /\ Single(meta.reps, m)  BY <1>4 DEF OpenListed
        <4>2. meta' # NoPayload  BY <3>1, <4>1 DEF Reps
        <4> QED  BY <3>1, <4>1, <4>2
      <3>4. (doubt' = {} => doubt = {}) /\ (m \notin doubt' => m \notin doubt)  BY <2>1
      <3> QED  BY <1>6, <2>3, <3>2, <3>3, <3>4 DEF OpenListed
    <2>4. CASE m # n /\ pc[n] = "delete" /\ DropsRep(n)
      <3>1. /\ Golds(meta') = Golds(meta) /\ Reps(meta') = Reps(meta) \ {n}
            /\ meta' # NoPayload => \A q : Single(meta.reps, q) => Single(meta'.reps, q)
        BY <1>2, <2>4, DropRepFacts
      <3>2. pc[m] # "drop" /\ catalog[m] = "replica" /\ m \notin doubt =>
              m \in Reps(meta') /\ Single(meta'.reps, m)
        <4> SUFFICES ASSUME pc[m] # "drop", catalog[m] = "replica", m \notin doubt
                     PROVE  m \in Reps(meta') /\ Single(meta'.reps, m)
          OBVIOUS
        <4>1. m \in Reps(meta) /\ Single(meta.reps, m)  BY <1>4 DEF OpenListed
        <4>2. m \in Reps(meta')  BY <2>4, <3>1, <4>1
        <4>3. meta' # NoPayload  BY <4>2 DEF Reps
        <4> QED  BY <3>1, <4>1, <4>2, <4>3
      <3>3. (doubt' = {} => doubt = {}) /\ (m \notin doubt' => m \notin doubt)  BY <2>1
      <3>4. OpenListed(m)  BY <1>4
      <3> QED  BY <1>6, <2>4, <3>1, <3>2, <3>3, <3>4 DEF OpenListed
    <2> QED  BY <1>11, <2>2, <2>3, <2>4 DEF Removed
  <1> QED  BY <1>7, <1>8, <1>9, <1>10, <1>11 DEF Kind

-----------------------------------------------------------------------------
(* The invariant holds.                                                     *)

\* The invariant holds at first
LEMMA InitInv == ASSUME Init PROVE P2PInv
  <1> USE DEF Init
  <1>1. P2PTypeOK
    <2>1. Shard \subseteq Nat /\ Junk \in Shard \cup {Junk}  BY DEF Shard
    <2>2. MaxTries \in Nat  BY BoundsNat DEF MaxTries
    <2>3. PcOK  BY DEF PcOK
    <2>4. RecordOK  BY DEF RecordOK, MetaOK
    <2>5. FreshOK  BY DEF FreshOK
    <2>6. EntryOK  BY DEF EntryOK
    <2>7. MemOK  BY <2>1 DEF MemOK
    <2>8. HistOK
      <3>1. opens \in 0..MaxOpens /\ faults \in 0..MaxFaults  BY BoundAssumption
      <3>2. catalog \in [Node -> {"none", "gold", "replica"}]  OBVIOUS
      <3>3. forced \in BOOLEAN  OBVIOUS
      <3>4. left \subseteq Node /\ doubt \subseteq Node  OBVIOUS
      <3> QED  BY <3>1, <3>2, <3>3, <3>4 DEF HistOK
    <2>9. XferOK  BY <2>2 DEF XferOK, ShardStatus
    <2> QED  BY <2>3, <2>4, <2>5, <2>6, <2>7, <2>8, <2>9, TypeParts DEF MemoryOK
  <1>2. Calls  BY DEF Calls, CallsOpen, CallsView, CallsMemory, Opening, Viewing
  <1>3. ListedIsOpen  BY DEF ListedIsOpen, Golds, Reps
  <1>4. RepsBounded  BY DEF RepsBounded
  <1>5. OpenIsListed  BY DEF OpenIsListed
  <1> QED  BY <1>1, <1>2, <1>3, <1>4, <1>5 DEF P2PInv

\* ... and is kept by every step.
LEMMA NextInv == ASSUME P2PInv, [Next]_vars PROVE P2PInv'
  <1>1. CASE UNCHANGED vars
    <2>0. P2PTypeOK /\ Calls /\ ListedIsOpen /\ RepsBounded /\ OpenIsListed  BY DEF P2PInv
    <2>1. P2PTypeOK'  BY <1>1, <2>0 DEF vars, P2PTypeOK
    <2>2. Calls'  BY <1>1, <2>0 DEF vars, Calls, CallsOpen, CallsView, CallsMemory
    <2>3. ListedIsOpen'  BY <1>1, <2>0 DEF vars, ListedIsOpen
    <2>4. RepsBounded'  BY <1>1, <2>0 DEF vars, RepsBounded, Steady
    <2>5. OpenIsListed'  BY <1>1, <2>0 DEF vars, OpenIsListed
    <2> QED  BY <2>1, <2>2, <2>3, <2>4, <2>5 DEF P2PInv
  <1>2. ASSUME NEW n \in Node, Acts(n) PROVE P2PInv'
    <2>1. P2PTypeOK'  BY <1>2, TypeStep
    <2>2. Calls'
      BY <1>2, CallsOpenStep, CallsViewStep, CallsMemoryStep DEF P2PInv, Calls
    <2>3. Elsewhere(n) /\ Kind(n)  BY <1>2, Kinds DEF P2PInv, Kind
    <2>4. ListedIsOpen' /\ RepsBounded' /\ OpenIsListed'
      BY <2>1, <2>3, ListedIsOpenStep, RepsBoundedStep, OpenIsListedStep
    <2> QED  BY <2>1, <2>2, <2>4 DEF P2PInv
  <1> QED  BY <1>1, <1>2 DEF Next, Acts

\* The inductive invariant holds of every behaviour.
THEOREM P2PInductive == P2PSpec => []P2PInv
  BY InitInv, NextInv, PTL DEF P2PSpec

\* Type correctness: the record lists at most one gold copy and, whatever is
\* retried after a failed etcd call, no more than Cardinality(Node) + MaxFaults
\* replicas, and performTransfer never exceeds its number of retries.
THEOREM P2PTypesHold == P2PSpec => []P2PTypeOK
  <1>1. P2PInv => P2PTypeOK  BY DEF P2PInv
  <1> QED  BY <1>1, P2PInductive, PTL

\* No compare-and-swap loses another peer's update.
THEOREM OpenStaysListed == P2PSpec => []OpenIsListed
  <1>1. P2PInv => OpenIsListed  BY DEF P2PInv
  <1> QED  BY <1>1, P2PInductive, PTL

\* Who is listed has the payload open, so its memory is registered.
LEMMA InvReachable == ASSUME P2PInv PROVE PublishedReachable
  <1> SUFFICES ASSUME NEW n \in Holders(meta), pc[n] # "dead", n \notin doubt
               PROVE  mr[n] \/ refs[n] = 2
    BY DEF PublishedReachable
  <1>1. n \in Node /\ n \in Golds(meta) \cup Reps(meta)  BY SteadyFinite DEF P2PInv
  <1>2. catalog[n] # "none"  BY <1>1 DEF P2PInv, ListedIsOpen
  <1> QED  BY <1>1, <1>2 DEF P2PInv, Calls, CallsMemory

\* A peer leaves the record before its memory is unregistered.
THEOREM PublishedStaysReachable == P2PSpec => []PublishedReachable
  BY InvReachable, P2PInductive, PTL

-----------------------------------------------------------------------------
(* A file of one shard, among peers that open the name once.                *)

OneShardOnce == Sizes = <<1>> /\ Rejoin = FALSE

\* s was listed, or died: it does not enter the record again.
Spent(s) == catalog[s] # "none" \/ s \in left \cup doubt \/ pc[s] = "dead"
\* A location of n's payload has left the record.
Stale(n) == \E s \in Holders(view[n]) : s \notin Holders(meta)

OpeningUnspent == \A n \in Node : pc[n] \in Opening => ~Spent(n)
ListedSpent == /\ \A s \in Holders(meta) : Spent(s)
               /\ \A n \in Node : \A s \in Holders(view[n]) : Spent(s)
ServesFile == \A n \in Node : pc[n] \in {"register", "publish"} => mem[n] = File
CopiedOrStale ==
    \A n \in Node :
      /\ pc[n] = "transfer" => /\ status[n][1] # "idle"
                               /\ status[n][1] = "done" => mem[n] = File \/ Stale(n)
      /\ pc[n] = "recheck" => mem[n] = File \/ Stale(n)
FileInv == /\ OpeningUnspent /\ ListedSpent /\ ServesFile /\ CopiedOrStale
           /\ PublishedHoldsFile

\* The layout: one shard, in one buffer, copied to where it belongs.
LEMMA MaxOfOne == Max({1}) = 1
  BY DEF Max

\* Nothing adds up to 0
LEMMA TotalNone == Total(<<>>) = 0
  <1>1. DOMAIN <<>> = {}  OBVIOUS
  <1> DEFINE P(f) == f = [s \in SUBSET {} |->
                            IF s = {} THEN 0 ELSE f[s \ {Max(s)}] + <<>>[Max(s)]]
  <1>2. P([s \in SUBSET {} |-> 0])  BY Zenon
  <1>3. P(CHOOSE f : P(f))  BY <1>2, Zenon
  <1>4. (CHOOSE f : P(f))[{}] = 0  BY <1>3
  <1>5. Total(<<>>) = (CHOOSE f : P(f))[{}]
    BY <1>1 DEF Total, FoldLeft, MapThenFoldSet
  <1> QED  BY <1>4, <1>5

\* ... and one buffer of one shard to 1.
LEMMA TotalOne == Total(<<1>>) = 1
  <1>1. DOMAIN <<1>> = {1}  OBVIOUS
  <1> DEFINE P(f) == f = [s \in SUBSET {1} |->
                            IF s = {} THEN 0 ELSE f[s \ {Max(s)}] + <<1>>[Max(s)]]
  <1>2. P([s \in SUBSET {1} |-> IF s = {} THEN 0 ELSE 1])
    <2> DEFINE g == [s \in SUBSET {1} |-> IF s = {} THEN 0 ELSE 1]
    <2>1. ASSUME NEW s \in SUBSET {1}
          PROVE  g[s] = IF s = {} THEN 0 ELSE g[s \ {Max(s)}] + <<1>>[Max(s)]
      <3>1. CASE s = {}  BY <3>1
      <3>2. CASE s = {1}
        <4>1. s \ {Max(s)} = {} /\ <<1>>[Max(s)] = 1  BY <3>2, MaxOfOne
        <4>2. g[{}] = 0 /\ g[s] = 1  BY <3>2
        <4> HIDE DEF g
        <4> QED  BY <4>1, <4>2, <3>2
      <3> QED  BY <3>1, <3>2
    <2>2. g = [s \in SUBSET {1} |-> g[s]]  OBVIOUS
    <2> HIDE DEF g
    <2>3. P(g)  BY <2>1, <2>2
    <2> QED  BY <2>3 DEF g
  <1>3. P(CHOOSE f : P(f))  BY <1>2, Zenon
  <1>4. (CHOOSE f : P(f))[{1}] = 1
    <2> DEFINE h == CHOOSE f : P(f)
    <2>1. \A s \in SUBSET {1} : h[s] = IF s = {} THEN 0 ELSE h[s \ {Max(s)}] + <<1>>[Max(s)]
      BY <1>3
    <2> HIDE DEF h
    <2>2. h[{}] = 0  BY <2>1
    <2>3. {1} \ {Max({1})} = {} /\ <<1>>[Max({1})] = 1  BY MaxOfOne
    <2>4. {1} \in SUBSET {1} /\ {1} # {}  OBVIOUS
    <2>5. h[{1}] = h[{1} \ {Max({1})}] + <<1>>[Max({1})]  BY <2>1, <2>4, Zenon
    <2>6. h[{1}] = h[{}] + 1  BY <2>3, <2>5, Zenon
    <2>7. h[{1}] = 1  BY <2>2, <2>6
    <2> QED  BY <2>7 DEF h
  <1>5. Total(<<1>>) = (CHOOSE f : P(f))[{1}]
    BY <1>1 DEF Total, FoldLeft, MapThenFoldSet
  <1> QED  BY <1>4, <1>5

\* The constants of the layout.
LEMMA OneShard ==
  ASSUME OneShardOnce
  PROVE  /\ Shard = {1} /\ Planned = {1} /\ BufferOf(1) = 1 /\ Target(1) = 1
         /\ File = [k \in {1} |-> 1]
  <1>1. Shard = {1}  BY TotalOne DEF Shard, OneShardOnce
  <1>0. Sizes = <<1>>  BY DEF OneShardOnce
  <1>2. DOMAIN Sizes = {1} /\ Sizes[1] = 1  BY <1>0
  <1>3. Planned = {1}  BY <1>1, <1>2 DEF Planned
  <1>4. BufferOf(1) = 1
    <2>1. Sizes[1] >= 1 /\ \A j \in 1..(1 - 1) : Sizes[j] < 1  BY <1>2
    <2> QED  BY <1>2, <2>1 DEF BufferOf
  <1>5. SubSeq(Sizes, 1, 0) = <<>>  BY <1>0
  <1>6. Base(1) = 0
    <2>1. Base(1) = Total(SubSeq(Sizes, 1, 1 - 1))  BY DEF Base
    <2>2. 1 - 1 = 0  OBVIOUS
    <2> QED  BY <1>5, <2>1, <2>2, TotalNone, Zenon
  <1>7. Target(1) = 1  BY <1>4, <1>6 DEF Target
  <1>8. File = [k \in {1} |-> 1]  BY <1>1 DEF File
  <1> QED  BY <1>1, <1>3, <1>4, <1>7, <1>8

\* What a step does to the state of the other peers, and to that of its own.
Others(n) ==
    \A m \in Node \ {n} :
      /\ pc'[m] = pc[m] /\ catalog'[m] = catalog[m] /\ view'[m] = view[m]
      /\ mem'[m] = mem[m] /\ status'[m] = status[m]
      /\ (m \in left' <=> m \in left) /\ (m \in doubt' <=> m \in doubt)

Same(n) == meta' = meta /\ catalog'[n] = catalog[n] /\ left' = left /\ doubt' = doubt
Begins(n) ==
    /\ Same(n) /\ ~Spent(n)
    /\ \/ pc'[n] = "register" /\ mem'[n] = File /\ view'[n] = view[n]
       \/ pc'[n] = "transfer" /\ status'[n][1] = "pending" /\ mem'[n] = mem[n] /\ view'[n] = meta
Fetches(n) ==
    /\ Same(n) /\ pc[n] = "transfer" /\ pc'[n] = "transfer" /\ view'[n] = view[n]
    /\ \/ mem'[n] = mem[n] /\ status'[n][1] \in {"pending", "failed"}
       \/ \E s \in Holders(view[n]) : mem'[n][1] = mem[s][1]
          /\ status'[n][1] = "done" /\ mem'[n] \in [{1} -> {0, 1}]
Ends(n) == /\ Same(n) /\ pc[n] = "transfer" /\ pc'[n] = "recheck" /\ view'[n] = view[n]
           /\ mem'[n] = mem[n] /\ status[n][1] = "done"
Passes(n) == /\ Same(n) /\ pc[n] = "recheck" /\ pc'[n] = "publish" /\ view'[n] = view[n]
             /\ mem'[n] = mem[n] /\ ~Stale(n)
Repeats(n) == /\ Same(n) /\ pc[n] = "recheck" /\ pc'[n] = "transfer" /\ view'[n] = view[n]
              /\ mem'[n] = mem[n] /\ status'[n][1] = "pending"
Reads(n) == /\ Same(n) /\ pc[n] = "publish" /\ pc'[n] = "publish" /\ view'[n] = meta
            /\ mem'[n] = mem[n]
Finishes(n) ==
    /\ pc'[n] \notin Opening /\ view'[n] \in {NoPayload, view[n], meta}
    /\ \/ mem'[n] = mem[n]
       \/ n \notin doubt /\ catalog[n] = "none" /\ pc[n] = "idle" /\ meta' = meta
    /\ Spent(n) => Spent(n)'

Own(n) == \/ Begins(n) \/ Fetches(n) \/ Ends(n) \/ Passes(n) \/ Repeats(n) \/ Reads(n)
          \/ Finishes(n)

\* A step is local to its peer, but for the record.
LEMMA OthersStep ==
  ASSUME P2PTypeOK, NEW n \in Node, Acts(n)
  PROVE  Others(n)
  <1>1. PcOK /\ HistOK /\ RecordOK /\ MemOK /\ XferOK  BY TypeParts DEF MemoryOK
  <1> USE DEF PcOK, HistOK, RecordOK, MemOK, XferOK, Return, Goto, Get, Die, histVars, xferVars
  <1>2. CASE Register(n)
    BY <1>1, <1>2 DEF Register, StartRegister, RegistrationPanics, CreateOk, CreateExists,
       ForceCreate, CreateError, Others
  <1>3. CASE Removing(n)
    BY <1>1, <1>3 DEF Removing, StartRemoval, RemovalCommits, RemovalRetries, RemovalError,
       RemovalDrops, Others
  <1>4. CASE Reuse(n) \/ Crash(n)
    BY <1>1, <1>4 DEF Reuse, Crash, Others
  <1>5. CASE \/ StartGet(n) \/ TransfersEnd(n) \/ RecheckPasses(n) \/ RecheckRepeats(n)
             \/ RecheckPanics(n) \/ Publish(n) \/ PublishRetries(n) \/ PublishError(n)
    BY <1>1, <1>5 DEF StartGet, TransfersEnd, RecheckPasses, RecheckRepeats, RecheckPanics,
       Publish, PublishRetries, PublishError, doGetReplica, Others
  <1>6. ASSUME NEW k \in Planned,
               \/ \E s \in Node : Transfer(n, k, s)
               \/ \E s \in Node : TransferRetries(n, k, s)
               \/ TransferFails(n, k)
        PROVE  Others(n)
    BY <1>1, <1>6 DEF Transfer, TransferRetries, TransferFails, Others
  <1> QED  BY <1>2, <1>3, <1>4, <1>5, <1>6 DEF Acts, GetReplica

\* An element of a concatenation is in one of the two.
LEMMA ConcatElement ==
  ASSUME NEW a \in Seq(Node), NEW b \in Seq(Node), NEW r \in 1..Len(a \o b)
  PROVE  (a \o b)[r] \in ToSet(a) \cup ToSet(b)
  <1>1. /\ DOMAIN a = 1..Len(a) /\ DOMAIN b = 1..Len(b) /\ Len(a) \in Nat /\ Len(b) \in Nat
    BY LenProperties
  <1>2. r \in 1..(Len(a) + Len(b))
    <2>1. Len(a \o b) = Len(a) + Len(b)  BY ConcatProperties
    <2> QED  BY <2>1
  <1>3. (a \o b)[r] = IF r <= Len(a) THEN a[r] ELSE b[r - Len(a)]  BY <1>2, ConcatProperties
  <1>4. CASE r <= Len(a)
    <2>1. r \in DOMAIN a /\ (a \o b)[r] = a[r]  BY <1>1, <1>2, <1>3, <1>4
    <2> QED  BY <2>1 DEF ToSet
  <1>5. CASE ~(r <= Len(a))
    <2>1. r - Len(a) \in 1..Len(b)  BY <1>1, <1>2, <1>5
    <2>2. (a \o b)[r] = b[r - Len(a)]  BY <1>3, <1>5
    <2> QED  BY <1>1, <2>1, <2>2 DEF ToSet
  <1> QED  BY <1>4, <1>5

\* GetLocation returns a location of the payload.
LEMMA LocationsHold ==
  ASSUME NEW p \in Payload, NEW r \in Nat, NEW s \in Locations(p, r)
  PROVE  s \in Holders(p)
  <1>1. p.gold \in Seq(Node) /\ p.reps \in Seq(Node) /\ p # NoPayload  BY PayloadFacts
  <1>2. CASE r = 0  BY <1>1, <1>2 DEF Locations, Holders
  <1>3. CASE r # 0
    <2> DEFINE all == p.reps \o p.gold
    <2>0. Len(all) \in Nat /\ all \in Seq(Node)  BY <1>1, ConcatProperties, LenProperties
    <2>1. r \in 1..Len(all) /\ s = all[r]
      <3>1. s \in IF r <= Len(all) THEN {all[r]} ELSE {}  BY <1>3 DEF Locations
      <3> HIDE DEF all
      <3> QED  BY <1>3, <2>0, <3>1
    <2>4. s \in ToSet(p.reps) \cup ToSet(p.gold)  BY <1>1, <2>1, ConcatElement
    <2> QED  BY <1>1, <2>4 DEF Holders
  <1> QED  BY <1>2, <1>3

\* The only shard failed: the call fails.
LEMMA OneShardFails ==
  ASSUME OneShardOnce, P2PTypeOK, NEW n \in Node, TransfersEnd(n), pc'[n] = "recheck",
         status[n][1] # "idle"
  PROVE  status[n][1] = "done"
  <1>1. Shard = {1} /\ Planned = {1} /\ BufferOf(1) = 1  BY OneShard
  <1>2. status[n][1] \in {"done", "failed"}
    BY <1>1, TypeParts DEF TransfersEnd, XferOK, ShardStatus
  <1>3. ASSUME status[n][1] = "failed" PROVE FALSE
    <2> DEFINE Ended(st) == {k \in Planned : status[n][k] = st}
    <2>1. Ended("failed") = {1} /\ Ended("done") = {}  BY <1>1, <1>3
    <2>2. {BufferOf(k) : k \in Ended("failed")} = {1} /\ {BufferOf(k) : k \in Ended("done")} = {}
      BY <1>1, <2>1
    <2>3. \A err \in Errors(n) : err = TRUE
      <3> SUFFICES ASSUME NEW err \in Errors(n) PROVE err = TRUE  OBVIOUS
      <3>1. \/ err = (Ended("failed") # {})
            \/ err = (Ended("failed") # {} /\ ~({BufferOf(k) : k \in Ended("failed")}
                                               \subseteq {BufferOf(k) : k \in Ended("done")}))
        BY DEF Errors
      <3>2. (Ended("failed") # {}) = TRUE  BY <2>1
      <3>3. (Ended("failed") # {} /\ ~({BufferOf(k) : k \in Ended("failed")}
                                               \subseteq {BufferOf(k) : k \in Ended("done")})) = TRUE
        BY <2>1, <2>2
      <3> QED  BY <3>1, <3>2, <3>3, Zenon
    <2>4. PICK err \in Errors(n) : IF err THEN Return(n, "idle") ELSE Goto(n, "recheck")
      BY DEF TransfersEnd
    <2>5. Return(n, "idle")  BY <2>3, <2>4, Zenon
    <2> QED  BY <2>5, TypeParts DEF Return, PcOK
  <1> QED  BY <1>2, <1>3

\* A payload that passes the recheck is not stale.
LEMMA SubsetNotStale ==
  ASSUME NEW n \in Node, view[n] \in Payload, meta \in Payload, fresh[n] => view[n] = meta,
         fresh[n] \/ isSubsetOf(view[n], meta)
  PROVE  ~Stale(n)
  <1>1. Holders(meta) = ToSet(meta.gold) \cup ToSet(meta.reps)
        /\ Holders(view[n]) = ToSet(view[n].gold) \cup ToSet(view[n].reps)
    BY PayloadFacts DEF Holders
  <1>2. CASE fresh[n]  BY <1>2 DEF Stale
  <1>3. CASE isSubsetOf(view[n], meta)  BY <1>1, <1>3 DEF isSubsetOf, contains, Stale
  <1> QED  BY <1>2, <1>3

\* Every step is of one of these forms, for the peer that takes it.
LEMMA OwnStep ==
  ASSUME OneShardOnce, P2PInv, FileInv, NEW n \in Node, Acts(n)
  PROVE  Own(n)
  <1>1. PcOK /\ HistOK /\ RecordOK /\ MemOK /\ XferOK /\ P2PTypeOK  BY TypeParts DEF MemoryOK, P2PInv
  <1>2. /\ Shard = {1} /\ Planned = {1} /\ Target(1) = 1 /\ File = [k \in {1} |-> 1]
    BY OneShard
  <1>3. Open(n) => ~Spent(n)
    BY <1>1 DEF Open, Idle, Spent, OneShardOnce
  <1>4. CASE StartRegister(n)
    <2>1. Begins(n)
      BY <1>1, <1>3, <1>4 DEF StartRegister, Begins, Same, Goto, PcOK, MemOK, metaVars, histVars
    <2> QED  BY <2>1 DEF Own
  <1>5. CASE StartGet(n)
    <2>1. Open(n) /\ Get(n, "transfer") /\ UNCHANGED <<catalog, mem, left, doubt>>
          /\ status' = [status EXCEPT ![n] = [k \in Shard |-> IF k \in Planned THEN "pending" ELSE "idle"]]
      BY <1>5 DEF StartGet, doGetReplica, histVars
    <2>2. status'[n][1] = "pending"  BY <1>1, <1>2, <2>1 DEF XferOK
    <2>3. Begins(n)
      BY <1>1, <1>3, <2>1, <2>2 DEF Begins, Same, Get, PcOK, RecordOK
    <2> QED  BY <2>3 DEF Own
  <1>6. ASSUME NEW k \in Planned, NEW s \in Node, Transfer(n, k, s) PROVE Own(n)
    <2>1. k = 1  BY <1>2
    <2>2. /\ pc[n] = "transfer" /\ s \in Locations(view[n], try[n][1])
          /\ mem' = [mem EXCEPT ![n][1] = mem[s][1]]
          /\ status' = [status EXCEPT ![n][1] = "done"]
          /\ UNCHANGED <<meta, pc, view, catalog, left, doubt>>
      BY <1>2, <1>6, <2>1 DEF Transfer, metaVars, histVars
    <2>3. view[n] \in Payload /\ try[n][1] \in Nat
      <3>1. view[n] # NoPayload  BY <2>2 DEF P2PInv, Calls, CallsView, Viewing
      <3>2. MaxTries \in Nat  BY BoundsNat DEF MaxTries
      <3> QED  BY <1>1, <1>2, <3>1, <3>2 DEF RecordOK, XferOK
    <2>4. s \in Holders(view[n])  BY <2>2, <2>3, LocationsHold
    <2>5. mem[n] \in [{1} -> {0, 1}] /\ mem[s] \in [{1} -> {0, 1}]
      BY <1>1, <1>2 DEF MemOK, Junk
    <2>6. mem'[n] = [mem[n] EXCEPT ![1] = mem[s][1]]  BY <1>1, <2>2 DEF MemOK
    <2>7. mem'[n][1] = mem[s][1] /\ mem'[n] \in [{1} -> {0, 1}]  BY <2>5, <2>6
    <2>8. status'[n][1] = "done"  BY <1>1, <1>2, <2>2 DEF XferOK
    <2>9. Fetches(n)  BY <2>2, <2>4, <2>7, <2>8 DEF Fetches, Same
    <2> QED  BY <2>9 DEF Own
  <1>7. ASSUME NEW k \in Planned, NEW s \in Node, TransferRetries(n, k, s) PROVE Own(n)
    <2>1. Fetches(n)
      BY <1>1, <1>2, <1>7 DEF TransferRetries, Fetches, Same, metaVars, histVars
    <2> QED  BY <2>1 DEF Own
  <1>8. ASSUME NEW k \in Planned, TransferFails(n, k) PROVE Own(n)
    <2>1. Fetches(n)
      BY <1>1, <1>2, <1>8 DEF TransferFails, Fetches, Same, metaVars, histVars, XferOK
    <2> QED  BY <2>1 DEF Own
  <1>9. CASE TransfersEnd(n)
    <2>1. /\ pc[n] = "transfer" /\ UNCHANGED <<meta, catalog, mem, left, doubt>>
          /\ Return(n, "idle") \/ Goto(n, "recheck")
      BY <1>9 DEF TransfersEnd, metaVars, histVars
    <2>2. CASE Return(n, "idle")
      <3>1. Finishes(n)
        BY <1>1, <2>1, <2>2 DEF Finishes, Return, PcOK, RecordOK, Opening, Spent
      <3> QED  BY <3>1 DEF Own
    <2>3. CASE Goto(n, "recheck")
      <3>1. pc'[n] = "recheck" /\ view' = view  BY <1>1, <2>3 DEF Goto, PcOK
      <3>2. status[n][1] # "idle"  BY <2>1 DEF FileInv, CopiedOrStale
      <3>3. status[n][1] = "done"  BY <1>1, <1>9, <3>1, <3>2, OneShardFails
      <3>4. Ends(n)  BY <2>1, <3>1, <3>3 DEF Ends, Same
      <3> QED  BY <3>4 DEF Own
    <2> QED  BY <2>1, <2>2, <2>3
  <1>10. CASE RecheckPasses(n)
    <2>1. /\ pc[n] = "recheck" /\ meta # NoPayload /\ (fresh[n] \/ isSubsetOf(view[n], meta))
          /\ Goto(n, "publish") /\ UNCHANGED <<meta, catalog, mem, left, doubt>>
      BY <1>10 DEF RecheckPasses, metaVars, histVars
    <2>2. view[n] # NoPayload /\ (fresh[n] => view[n] = meta)
      BY <2>1 DEF P2PInv, Calls, CallsView, Viewing
    <2>3. view[n] \in Payload /\ meta \in Payload
      BY <1>1, <2>1, <2>2 DEF RecordOK, MetaOK
    <2>4. ~Stale(n)  BY <2>1, <2>2, <2>3, SubsetNotStale
    <2>5. Passes(n)  BY <1>1, <2>1, <2>4 DEF Passes, Same, Goto, PcOK
    <2> QED  BY <2>5 DEF Own
  <1>11. CASE RecheckRepeats(n)
    <2>1. pc[n] = "recheck" /\ Goto(n, "transfer") /\ UNCHANGED <<meta, catalog, mem, left, doubt>>
          /\ status' = [status EXCEPT ![n] = [k \in Shard |-> IF k \in Planned THEN "pending" ELSE "idle"]]
      BY <1>11 DEF RecheckRepeats, doGetReplica, metaVars, histVars
    <2>2. status'[n][1] = "pending"  BY <1>1, <1>2, <2>1 DEF XferOK
    <2>3. Repeats(n)  BY <1>1, <2>1, <2>2 DEF Repeats, Same, Goto, PcOK
    <2> QED  BY <2>3 DEF Own
  <1>12. CASE PublishRetries(n)
    <2>1. CASE meta = NoPayload
      <3>1. Finishes(n)
        BY <1>1, <1>12, <2>1 DEF PublishRetries, Finishes, Get, PcOK, RecordOK, Opening, Spent, histVars
      <3> QED  BY <3>1 DEF Own
    <2>2. CASE meta # NoPayload
      <3>1. Reads(n)
        BY <1>1, <1>12, <2>2 DEF PublishRetries, Reads, Same, Get, PcOK, RecordOK, histVars
      <3> QED  BY <3>1 DEF Own
    <2> QED  BY <2>1, <2>2
  <1> USE DEF Own
  <1>13. CASE RegistrationPanics(n) \/ RecheckPanics(n) \/ Crash(n)
    <2>1. Finishes(n)
      BY <1>1, <1>13 DEF RegistrationPanics, RecheckPanics, Crash, Die, Return, Finishes, Opening,
         Spent, PcOK, RecordOK
    <2> QED  BY <2>1
  <1>14. CASE CreateOk(n) \/ CreateExists(n) \/ ForceCreate(n)
    <2>1. Finishes(n)
      BY <1>1, <1>14 DEF CreateOk, CreateExists, ForceCreate, Return, Finishes, Opening,
         Spent, PcOK, RecordOK, HistOK, histVars
    <2> QED  BY <2>1
  <1>15. CASE CreateError(n) \/ RemovalError(n) \/ PublishError(n)
    <2>1. Finishes(n)
      BY <1>1, <1>15 DEF CreateError, RemovalError, PublishError, Return, Finishes, Opening,
         Spent, PcOK, RecordOK, HistOK, histVars
    <2> QED  BY <2>1
  <1>16. CASE StartRemoval(n) \/ RemovalRetries(n) \/ RemovalCommits(n)
    <2>1. Finishes(n)
      BY <1>1, <1>16 DEF StartRemoval, RemovalRetries, RemovalCommits, Get, Goto, Finishes, Opening,
         Spent, PcOK, RecordOK, HistOK, histVars
    <2> QED  BY <2>1
  <1>17. CASE RemovalDrops(n) \/ Publish(n)
    <2>1. Finishes(n)
      BY <1>1, <1>17 DEF RemovalDrops, Publish, Return, Finishes, Opening,
         Spent, PcOK, RecordOK, HistOK, histVars
    <2> QED  BY <2>1
  <1>18. CASE Reuse(n)
    <2>1. Finishes(n)
      BY <1>1, <1>18 DEF Reuse, Idle, Finishes, Opening, Spent, histVars, metaVars
    <2> QED  BY <2>1
  <1> QED
    BY <1>4, <1>5, <1>6, <1>7, <1>8, <1>9, <1>10, <1>11, <1>12, <1>13, <1>14, <1>15, <1>16,
       <1>17, <1>18 DEF Acts, Register, Removing, GetReplica

\* Who is listed after a step was before, or is the peer that published itself.
LEMMA HoldersStep ==
  ASSUME P2PInv, NEW n \in Node, Acts(n)
  PROVE  /\ Holders(meta) \subseteq Node /\ Holders(meta') \subseteq Node
         /\ \A s \in Holders(meta') \ Holders(meta) :
              s = n /\ pc[n] \in {"register", "publish"} /\ pc'[n] = "idle"
                    /\ (catalog'[n] # "none" \/ n \in doubt')
  <1>1. P2PTypeOK /\ P2PTypeOK' /\ Lists(n)  BY TypeStep, ListsStep DEF P2PInv
  <1>2. Kind(n)  BY Kinds DEF P2PInv, Kind
  <1>3. /\ Holders(meta) = Golds(meta) \cup Reps(meta) /\ Holders(meta) \subseteq Node
        /\ Holders(meta') = Golds(meta') \cup Reps(meta') /\ Holders(meta') \subseteq Node
    BY <1>1, PayloadFacts DEF P2PTypeOK, Holders, Golds, Reps
  <1>4. ASSUME NEW s \in Holders(meta') \ Holders(meta)
        PROVE  s = n /\ pc[n] \in {"register", "publish"} /\ pc'[n] = "idle"
                    /\ (catalog'[n] # "none" \/ n \in doubt')
    <2>1. CASE Created(n)  BY <1>1, <1>3, <1>4, <2>1 DEF Lists, Created, Doubts
    <2>2. CASE Added(n)  BY <1>1, <1>3, <1>4, <2>2 DEF Lists, Added, Doubts
    <2>3. CASE Removed(n)  BY <1>1, <1>3, <1>4, <2>3 DEF Lists
    <2>4. CASE Quiet(n) \/ Dies(n) \/ Dropped(n)
      BY <1>4, <2>4 DEF Quiet, Dies, Dropped
    <2> QED  BY <1>2, <2>1, <2>2, <2>3, <2>4 DEF Kind
  <1> QED  BY <1>3, <1>4

\* Steps keep FileInv.
LEMMA FileStep ==
  ASSUME OneShardOnce, P2PInv, FileInv, NEW n \in Node, Acts(n)
  PROVE  FileInv'
  <1>1. P2PTypeOK /\ P2PTypeOK' /\ RecordOK /\ RecordOK'
    BY TypeStep, TypeParts, TypePartsNext DEF P2PInv
  <1>2. Others(n) /\ Own(n)  BY <1>1, OthersStep, OwnStep
  <1>3. /\ Holders(meta) \subseteq Node
        /\ \A s \in Holders(meta') \ Holders(meta) :
              s = n /\ pc[n] \in {"register", "publish"} /\ pc'[n] = "idle"
                    /\ (catalog'[n] # "none" \/ n \in doubt')
    BY HoldersStep
  <1>4. Holders(NoPayload) = {} /\ \A m \in Node : Holders(view[m]) \subseteq Node
    BY <1>1, PayloadFacts DEF Holders, RecordOK
  <1>5. /\ \A m \in Node : pc[m] \in Opening => ~Spent(m)
        /\ \A s \in Holders(meta) : Spent(s)
        /\ \A m \in Node : \A s \in Holders(view[m]) : Spent(s)
        /\ \A m \in Node : pc[m] \in {"register", "publish"} => mem[m] = File
        /\ \A s \in Holders(meta) : mem[s] = File
    BY DEF FileInv, OpeningUnspent, ListedSpent, ServesFile, PublishedHoldsFile
  <1>6. File = [k \in {1} |-> 1]  BY OneShard
  \* What was spent stays so, and what was not stays so among the others.
  <1>7. \A m \in Node \ {n} : Spent(m)' <=> Spent(m)  BY <1>2 DEF Others, Spent
  <1>8. Spent(n) => Spent(n)'
    <2>1. Same(n) /\ pc'[n] # "dead" /\ pc[n] # "dead" => (Spent(n)' <=> Spent(n))
      BY DEF Same, Spent
    <2>2. CASE Finishes(n)  BY <2>2 DEF Finishes
    <2>3. CASE Begins(n)  BY <2>3 DEF Begins
    <2>4. CASE Fetches(n) \/ Ends(n) \/ Passes(n) \/ Repeats(n) \/ Reads(n)
      BY <2>1, <2>4 DEF Fetches, Ends, Passes, Repeats, Reads
    <2> QED  BY <1>2, <2>2, <2>3, <2>4 DEF Own
  <1>9. \A s \in Node : Spent(s) => Spent(s)'  BY <1>7, <1>8
  <1>10. OpeningUnspent'
    <2> SUFFICES ASSUME NEW m \in Node, pc'[m] \in Opening PROVE ~Spent(m)'
      BY DEF OpeningUnspent
    <2>1. CASE m # n  BY <1>2, <1>5, <1>7, <2>1 DEF Others
    <2>2. CASE m = n
      <3>1. CASE Begins(n)
        <4>1. ~Spent(n) /\ Same(n)  BY <3>1 DEF Begins
        <4> QED  BY <2>2, <4>1 DEF Same, Spent, Opening
      <3>2. CASE Fetches(n) \/ Ends(n) \/ Passes(n) \/ Repeats(n) \/ Reads(n)
        <4>1. pc[n] \in Opening /\ Same(n)
          BY <3>2 DEF Fetches, Ends, Passes, Repeats, Reads, Opening
        <4>2. ~Spent(n)  BY <1>5, <4>1
        <4> QED  BY <2>2, <4>1, <4>2 DEF Same, Spent, Opening
      <3>3. CASE Finishes(n)  BY <2>2, <3>3 DEF Finishes
      <3> QED  BY <1>2, <3>1, <3>2, <3>3 DEF Own
    <2> QED  BY <2>1, <2>2
  <1>11. view'[n] \in {NoPayload, view[n], meta}
    BY <1>2 DEF Own, Begins, Fetches, Ends, Passes, Repeats, Reads, Finishes
  <1>12. ListedSpent'
    <2>1. ASSUME NEW s \in Holders(meta') PROVE Spent(s)'
      <3>1. CASE s \in Holders(meta)  BY <1>3, <1>5, <1>9, <3>1
      <3>2. CASE s \notin Holders(meta)  BY <1>3, <3>2 DEF Spent
      <3> QED  BY <3>1, <3>2
    <2>2. ASSUME NEW m \in Node, NEW s \in Holders(view'[m]) PROVE Spent(s)'
      <3>1. view'[m] \in {NoPayload, view[m], meta}  BY <1>2, <1>11 DEF Others
      <3>2. s \in Node /\ Spent(s)  BY <1>3, <1>4, <1>5, <3>1
      <3> QED  BY <1>9, <3>2
    <2> QED  BY <2>1, <2>2 DEF ListedSpent
  \* A location that has left the record does not come back to it.
  <1>13. ASSUME NEW m \in Node, view'[m] = view[m], Stale(m) PROVE Stale(m)'
    <2>1. PICK s \in Holders(view[m]) : s \notin Holders(meta)  BY <1>13 DEF Stale
    <2>2. s \notin Holders(meta')
      <3> SUFFICES ASSUME s \in Holders(meta') PROVE FALSE  OBVIOUS
      <3>1. s = n /\ pc[n] \in Opening  BY <1>3, <2>1 DEF Opening
      <3> QED  BY <1>5, <2>1, <3>1
    <2> QED  BY <1>13, <2>1, <2>2 DEF Stale
  <1>14. ServesFile'
    <2> SUFFICES ASSUME NEW m \in Node, pc'[m] \in {"register", "publish"} PROVE mem'[m] = File
      BY DEF ServesFile
    <2>1. CASE m # n  BY <1>2, <1>5, <2>1 DEF Others
    <2>2. CASE m = n
      <3>1. CASE Begins(n)  BY <2>2, <3>1 DEF Begins
      <3>2. CASE Fetches(n) \/ Ends(n) \/ Repeats(n)
        BY <2>2, <3>2 DEF Fetches, Ends, Repeats
      <3>3. CASE Finishes(n)  BY <2>2, <3>3 DEF Finishes, Opening
      <3>4. CASE Passes(n)
        <4>1. mem[n] = File  BY <3>4 DEF FileInv, CopiedOrStale, Passes
        <4> QED  BY <2>2, <3>4, <4>1 DEF Passes
      <3>5. CASE Reads(n)  BY <1>5, <2>2, <3>5 DEF Reads
      <3> QED  BY <1>2, <3>1, <3>2, <3>3, <3>4, <3>5 DEF Own
    <2> QED  BY <2>1, <2>2
  <1>15. CopiedOrStale'
    <2> SUFFICES ASSUME NEW m \in Node
                 PROVE  /\ pc'[m] = "transfer" =>
                             /\ status'[m][1] # "idle"
                             /\ status'[m][1] = "done" => mem'[m] = File \/ Stale(m)'
                        /\ pc'[m] = "recheck" => mem'[m] = File \/ Stale(m)'
      BY DEF CopiedOrStale
    <2>0. /\ pc[m] = "transfer" => /\ status[m][1] # "idle"
                                   /\ status[m][1] = "done" => mem[m] = File \/ Stale(m)
          /\ pc[m] = "recheck" => mem[m] = File \/ Stale(m)
      BY DEF FileInv, CopiedOrStale
    <2>1. CASE m # n
      <3>1. /\ pc'[m] = pc[m] /\ view'[m] = view[m] /\ mem'[m] = mem[m] /\ status'[m] = status[m]
        BY <1>2, <2>1 DEF Others
      <3> QED  BY <1>13, <2>0, <3>1
    <2>2. CASE m = n
      <3>1. CASE Begins(n)  BY <2>2, <3>1 DEF Begins
      <3>2. CASE Repeats(n)  BY <2>2, <3>2 DEF Repeats
      <3>3. CASE Passes(n) \/ Reads(n)  BY <2>2, <3>3 DEF Passes, Reads
      <3>4. CASE Finishes(n)  BY <2>2, <3>4 DEF Finishes, Opening
      <3>5. CASE Ends(n)
        <4>1. pc[n] = "transfer" /\ status[n][1] = "done" /\ mem'[n] = mem[n] /\ view'[n] = view[n]
              /\ pc'[n] = "recheck"
          BY <3>5 DEF Ends
        <4> QED  BY <1>13, <2>0, <2>2, <4>1
      <3>6. CASE Fetches(n)
        <4>1. view'[n] = view[n] /\ meta' = meta /\ pc'[n] = "transfer"  BY <3>6 DEF Fetches, Same
        <4>2. CASE mem'[n] = mem[n] /\ status'[n][1] \in {"pending", "failed"}
          BY <2>2, <4>1, <4>2
        <4>3. CASE \E s \in Holders(view[n]) : mem'[n][1] = mem[s][1]
                     /\ status'[n][1] = "done" /\ mem'[n] \in [{1} -> {0, 1}]
          <5>1. PICK s \in Holders(view[n]) : mem'[n][1] = mem[s][1]
                     /\ status'[n][1] = "done" /\ mem'[n] \in [{1} -> {0, 1}]
            BY <4>3
          <5>2. CASE s \notin Holders(meta)  BY <2>2, <4>1, <5>1, <5>2 DEF Stale
          <5>3. CASE s \in Holders(meta)
            <6>1. mem[s] = File  BY <1>5, <5>3
            <6>2. mem'[n][1] = 1  BY <1>6, <5>1, <6>1
            <6>3. mem'[n] = File  BY <1>6, <5>1, <6>2
            <6> QED  BY <2>2, <4>1, <5>1, <6>3
          <5> QED  BY <5>2, <5>3
        <4> QED  BY <3>6, <4>2, <4>3 DEF Fetches
      <3> QED  BY <1>2, <3>1, <3>2, <3>3, <3>4, <3>5, <3>6 DEF Own
    <2> QED  BY <2>1, <2>2
  <1>16. PublishedHoldsFile'
    <2> SUFFICES ASSUME NEW s \in Holders(meta') PROVE mem'[s] = File
      BY DEF PublishedHoldsFile
    <2>1. CASE s \in Holders(meta) /\ s # n  BY <1>2, <1>3, <1>5, <2>1 DEF Others
    <2>2. CASE s \in Holders(meta) /\ s = n
      <3>1. Spent(n) /\ mem[n] = File  BY <1>5, <2>2
      <3>2. pc[n] \notin Opening  BY <1>5, <3>1
      <3>3. Finishes(n)
        BY <1>2, <3>1, <3>2 DEF Own, Begins, Fetches, Ends, Passes, Repeats, Reads, Opening
      <3>4. ~(n \notin doubt /\ catalog[n] = "none" /\ pc[n] = "idle")
        <4>1. n \in Golds(meta) \cup Reps(meta)  BY <1>1, <2>2, SteadyFinite
        <4> QED  BY <4>1 DEF P2PInv, ListedIsOpen
      <3> QED  BY <2>2, <3>1, <3>3, <3>4 DEF Finishes
    <2>3. CASE s \notin Holders(meta)
      <3>1. s = n /\ pc[n] \in {"register", "publish"} /\ pc'[n] = "idle"  BY <1>3, <2>3
      <3>2. mem[n] = File  BY <1>5, <3>1
      <3>3. mem'[n] = mem[n]
        BY <1>2, <3>1 DEF Own, Begins, Fetches, Ends, Passes, Repeats, Reads, Finishes
      <3> QED  BY <3>1, <3>2, <3>3
    <2> QED  BY <2>1, <2>2, <2>3
  <1> QED  BY <1>10, <1>12, <1>14, <1>15, <1>16 DEF FileInv

\* A file of one shard, no peer opening the name again after it left: whoever
\* is listed holds the file, although its sources may have left the record and
\* reused their memory while it was copying: the recheck rejects such a copy.
THEOREM PublishedFileIsWhole == P2PSpec /\ OneShardOnce => []PublishedHoldsFile
  <1> SUFFICES ASSUME OneShardOnce PROVE P2PSpec => []PublishedHoldsFile  OBVIOUS
  <1>1. Init => FileInv
    BY DEF Init, FileInv, OpeningUnspent, ListedSpent, ServesFile, CopiedOrStale,
       PublishedHoldsFile, Holders, Opening
  <1>2. P2PInv /\ FileInv /\ [Next]_vars => FileInv'
    <2>1. CASE UNCHANGED vars
      BY <2>1 DEF vars, FileInv, OpeningUnspent, ListedSpent, Spent, ServesFile, CopiedOrStale,
         Stale, PublishedHoldsFile
    <2> QED  BY <2>1, FileStep DEF Next, Acts
  <1>3. FileInv => PublishedHoldsFile  BY DEF FileInv
  <1> QED  BY <1>1, <1>2, <1>3, P2PInductive, PTL DEF P2PSpec
=============================================================================
