---------------------- MODULE AllocationStrategyProofs ----------------------
(***************************************************************************)
(* Proofs about Allocate and the offset allocator, bottom up:              *)
(* - the small floats: rounding a size down and up to a bin;               *)
(* - what inserting into a bin and removing from it do to an allocator     *)
(*   that has a node in its hands (Mid), and what allocate() and free() do *)
(*   to one that has none (Whole: the regions cut the storage, no two free *)
(*   ones touch, the bins hold exactly the free ones);                     *)
(* - the calls: each holds its buffers once (Good), no two hold the same   *)
(*   (Calls), and together they are the used regions (Backing).            *)
(* AllocInv, the conjunction, is inductive, and the properties follow.     *)
(***************************************************************************)
EXTENDS AllocationStrategy, FiniteSetTheorems, SequenceTheorems, WellFoundedInduction, TLAPS

\* A set of naturals has a least element.
LEMMA Smallest == ASSUME NEW T \in SUBSET Nat, T # {} PROVE \E m \in T : \A y \in T : m <= y
  <1> DEFINE R == OpToRel(<, Nat)
  <1>1. IsWellFoundedOn(R, Nat)  BY NatLessThanWellFounded
  <1>2. \A y, m \in Nat : y < m => <<y, m>> \in R  BY DEF OpToRel
  <1> HIDE DEF R
  <1>3. PICK m \in T : \A y \in T : ~(<<y, m>> \in R)  BY <1>1, WFMin
  <1>4. \A y \in T : ~(y < m)  BY <1>2, <1>3
  <1> QED  BY <1>4

\* Induction, for a set of naturals.
LEMMA NatInd == ASSUME NEW S, 0 \in S, \A n \in Nat : n \in S => n + 1 \in S
                PROVE  \A n \in Nat : n \in S
  <1> SUFFICES ASSUME NEW n \in Nat, n \notin S PROVE FALSE  OBVIOUS
  <1>1. PICK m \in Nat \ S : \A y \in Nat \ S : m <= y  BY Smallest
  <1>2. m # 0  OBVIOUS
  <1>3. m - 1 \in Nat /\ ~(m <= m - 1)  BY <1>2
  <1>4. m - 1 \in S  BY <1>1, <1>3
  <1>5. (m - 1) + 1 \in S  BY <1>3, <1>4
  <1> QED  BY <1>5

-----------------------------------------------------------------------------
(* SmallFloat.                                                              *)

\* g has the powers of two up to m.
Powers(g, m) == g[0] = 1 /\ \A i \in 0 .. m : g[i] \in Nat /\ (i # 0 => g[i] = 2 * g[i - 1])

\* For every m there are such powers.
LEMMA PowersExist == \A m \in Nat : \E g : Powers(g, m)
  <1> DEFINE S == {m \in Nat : \E g : Powers(g, m)}
  <1>1. 0 \in S
    <2>1. Powers([i \in 0..0 |-> 1], 0)  BY DEF Powers
    <2> QED  BY <2>1
  <1>2. ASSUME NEW m \in Nat, m \in S PROVE m + 1 \in S
    <2>1. PICK f : Powers(f, m)  BY <1>2
    <2> DEFINE g == [i \in 0..(m + 1) |-> IF i <= m THEN f[i] ELSE 2 * f[m]]
    <2>2. g[0] = 1  BY <2>1 DEF Powers
    <2>3. ASSUME NEW i \in 0..(m + 1) PROVE g[i] \in Nat /\ (i # 0 => g[i] = 2 * g[i - 1])
      <3>1. CASE i <= m
        <4>1. i \in 0..m /\ g[i] = f[i] /\ (i # 0 => i - 1 \in 0..m /\ g[i - 1] = f[i - 1])  BY <3>1
        <4> HIDE DEF g
        <4> QED  BY <4>1, <2>1 DEF Powers
      <3>2. CASE i = m + 1
        <4>1. g[i] = 2 * f[m] /\ g[i - 1] = f[m] /\ f[m] \in Nat  BY <3>2, <2>1 DEF Powers
        <4> HIDE DEF g
        <4> QED  BY <4>1
      <3> QED  BY <3>1, <3>2
    <2> HIDE DEF g
    <2>4. Powers(g, m + 1)  BY <2>2, <2>3 DEF Powers
    <2> QED  BY <2>4
  <1> HIDE DEF S
  <1>3. \A m \in Nat : m \in S  BY <1>1, <1>2, NatInd
  <1> QED  BY <1>3 DEF S

\* The powers up to m and up to k agree as far as both go.
LEMMA PowersAgree == ASSUME NEW f, NEW g, NEW m \in Nat, NEW k \in Nat, Powers(f, m), Powers(g, k)
                     PROVE  \A n \in Nat : n <= m /\ n <= k => f[n] = g[n]
  <1> DEFINE S == {n \in Nat : n <= m /\ n <= k => f[n] = g[n]}
  <1>1. 0 \in S  BY DEF Powers
  <1>2. ASSUME NEW n \in Nat, n \in S PROVE n + 1 \in S
    <2> SUFFICES ASSUME n + 1 <= m, n + 1 <= k PROVE f[n + 1] = g[n + 1]  OBVIOUS
    <2>1. f[n] = g[n]  BY <1>2
    <2>2. n + 1 \in 0..m /\ n + 1 \in 0..k /\ (n + 1) - 1 = n /\ n + 1 # 0  OBVIOUS
    <2>3. f[n + 1] = 2 * f[n]  BY <2>2 DEF Powers
    <2>4. g[n + 1] = 2 * g[n]  BY <2>2 DEF Powers
    <2> QED  BY <2>1, <2>3, <2>4
  <1> HIDE DEF S
  <1>3. \A n \in Nat : n \in S  BY <1>1, <1>2, NatInd
  <1> QED  BY <1>3 DEF S

\* Pow2 satisfies its equation.
LEMMA Pow2Def == /\ Pow2[0] = 1
                 /\ \A n \in Nat : Pow2[n] \in Nat /\ Pow2[n + 1] = 2 * Pow2[n]
  <1> DEFINE P(n) == CHOOSE g : Powers(g, n)
             f == [n \in Nat |-> P(n)[n]]
  <1>1. \A n \in Nat : Powers(P(n), n)  BY PowersExist
  <1> HIDE DEF P
  <1>2. f[0] = 1  BY <1>1 DEF Powers
  <1>3. ASSUME NEW n \in Nat PROVE f[n] \in Nat /\ (n # 0 => f[n] = 2 * f[n - 1])
    <2>1. f[n] = P(n)[n] /\ f[n] \in Nat  BY <1>1 DEF Powers
    <2>2. ASSUME n # 0 PROVE f[n] = 2 * f[n - 1]
      <3>1. n - 1 \in Nat /\ n - 1 <= n /\ n - 1 <= n - 1 /\ n \in 0..n  BY <2>2
      <3>2. P(n)[n] = 2 * P(n)[n - 1]  BY <3>1, <2>2, <1>1 DEF Powers
      <3>3. P(n)[n - 1] = P(n - 1)[n - 1]  BY <3>1, <1>1, PowersAgree
      <3>4. f[n - 1] = P(n - 1)[n - 1]  BY <3>1
      <3> QED  BY <2>1, <3>2, <3>3, <3>4
    <2> QED  BY <2>1, <2>2
  <1>4. f = [n \in Nat |-> f[n]]  OBVIOUS
  <1> HIDE DEF f
  <1>5. f = [n \in Nat |-> IF n = 0 THEN 1 ELSE 2 * f[n - 1]]
    <2>1. \A n \in Nat : f[n] = IF n = 0 THEN 1 ELSE 2 * f[n - 1]  BY <1>2, <1>3
    <2> QED  BY <1>4, <2>1
  <1>6. Pow2 = [n \in Nat |-> IF n = 0 THEN 1 ELSE 2 * Pow2[n - 1]]  BY <1>5 DEF Pow2
  <1> DEFINE p == Pow2
  <1>7. p = [n \in Nat |-> IF n = 0 THEN 1 ELSE 2 * p[n - 1]]  BY <1>6
  <1> HIDE DEF p
  <1>8. p[0] = 1 /\ \A n \in Nat : p[n + 1] = 2 * p[n]
    <2>1. \A n \in Nat : p[n] = IF n = 0 THEN 1 ELSE 2 * p[n - 1]  BY <1>7
    <2>2. \A n \in Nat : n + 1 \in Nat /\ n + 1 # 0 /\ (n + 1) - 1 = n  OBVIOUS
    <2> QED  BY <2>1, <2>2
  <1> DEFINE S == {n \in Nat : p[n] \in Nat}
  <1>9. \A n \in Nat : n \in S
    <2>1. 0 \in S  BY <1>8
    <2>2. \A n \in Nat : n \in S => n + 1 \in S  BY <1>8
    <2> HIDE DEF S
    <2> QED  BY <2>1, <2>2, NatInd
  <1> QED  BY <1>8, <1>9 DEF p

\* A power of two is larger than its exponent, so the powers are unbounded.
LEMMA Pow2Grows == \A n \in Nat : n < Pow2[n]
  <1> DEFINE S == {n \in Nat : n < Pow2[n]}
  <1>1. 0 \in S  BY Pow2Def
  <1>2. ASSUME NEW n \in Nat, n \in S PROVE n + 1 \in S
    <2>1. n < Pow2[n] /\ Pow2[n] \in Nat /\ Pow2[n + 1] = 2 * Pow2[n]  BY <1>2, Pow2Def
    <2>2. n + 1 < Pow2[n + 1]  BY <2>1
    <2> QED  BY <2>2
  <1> HIDE DEF S
  <1>3. \A n \in Nat : n \in S  BY <1>1, <1>2, NatInd
  <1> QED  BY <1>3 DEF S

\* A natural times a power of two doubles with the exponent.
LEMMA TimesTwo == \A x, y \in Nat : (2 * x) * y = 2 * (x * y) /\ x * y \in Nat
  <1>1. \A x, y \in Int : (2 * x) * y = 2 * (x * y) /\ x * y \in Int  OBVIOUS
  <1>2. \A x, y \in Nat : x * y \in Nat  OBVIOUS
  <1> QED  BY <1>1, <1>2

\* The power of a sum of exponents.
LEMMA Pow2Sum == ASSUME NEW m \in Nat PROVE \A k \in Nat : Pow2[k + m] = Pow2[k] * Pow2[m]
  <1> DEFINE S == {k \in Nat : Pow2[k + m] = Pow2[k] * Pow2[m]}
  <1>0. Pow2[m] \in Nat  BY Pow2Def
  <1>1. 0 \in S
    <2>1. 0 + m = m /\ Pow2[0] = 1 /\ 1 * Pow2[m] = Pow2[m]  BY <1>0, Pow2Def
    <2> QED  BY <2>1
  <1>2. ASSUME NEW k \in Nat, k \in S PROVE k + 1 \in S
    <2>1. (k + 1) + m = (k + m) + 1 /\ k + m \in Nat  OBVIOUS
    <2>2. Pow2[(k + 1) + m] = 2 * Pow2[k + m]  BY <2>1, Pow2Def
    <2>3. Pow2[k + 1] * Pow2[m] = 2 * (Pow2[k] * Pow2[m])  BY <1>0, Pow2Def, TimesTwo
    <2>4. Pow2[k + m] = Pow2[k] * Pow2[m]  BY <1>2
    <2>5. Pow2[(k + 1) + m] = Pow2[k + 1] * Pow2[m]  BY <2>2, <2>3, <2>4
    <2> QED  BY <2>5
  <1> HIDE DEF S
  <1>3. \A k \in Nat : k \in S  BY <1>1, <1>2, NatInd
  <1> QED  BY <1>3 DEF S

\* The powers grow with the exponent.
LEMMA Pow2Mono == ASSUME NEW m \in Nat, NEW n \in Nat, m <= n PROVE Pow2[m] <= Pow2[n]
  <1>1. n - m \in Nat /\ (n - m) + m = n  OBVIOUS
  <1>2. Pow2[n] = Pow2[n - m] * Pow2[m]  BY <1>1, Pow2Sum
  <1>3. Pow2[m] \in Nat /\ Pow2[n - m] \in Nat /\ 1 <= Pow2[n - m]  BY <1>1, Pow2Def, Pow2Grows
  <1>4. \A x, y \in Nat : 1 <= x => y <= x * y  OBVIOUS
  <1> QED  BY <1>2, <1>3, <1>4

\* MANTISSA_VALUE is a positive number.
LEMMA MantissaType == Mantissa \in Nat /\ Mantissa >= 1
  <1>1. MantissaBits \in Nat  BY AllocatorAssumption
  <1>2. MantissaBits < Pow2[MantissaBits] /\ Pow2[MantissaBits] \in Nat  BY <1>1, Pow2Grows, Pow2Def
  <1> QED  BY <1>1, <1>2 DEF Mantissa

\* lzcnt_nonzero finds the highest bit.
LEMMA HighestSetBitOk == ASSUME NEW n \in Nat, n # 0
                         PROVE  LET h == HighestSetBit(n)
                                IN  h \in Nat /\ Pow2[h] <= n /\ n < 2 * Pow2[h]
  <1> DEFINE T == {h \in Nat : n < Pow2[h]}
  <1>1. n \in T  BY Pow2Grows
  <1>2. PICK m \in T : \A y \in T : m <= y  BY <1>1, Smallest
  <1>3. m # 0  BY <1>2, Pow2Def
  <1>4. m - 1 \in Nat /\ (m - 1) + 1 = m /\ ~(m <= m - 1)  BY <1>3
  <1>5. Pow2[m - 1] <= n
    <2>1. m - 1 \notin T  BY <1>2, <1>4
    <2>2. Pow2[m - 1] \in Nat  BY <1>4, Pow2Def
    <2> QED  BY <2>1, <2>2, <1>4
  <1>6. n < 2 * Pow2[m - 1]  BY <1>2, <1>4, Pow2Def
  <1>7. m - 1 \in 0 .. n
    <2>1. m - 1 < Pow2[m - 1] /\ Pow2[m - 1] \in Nat  BY <1>4, Pow2Grows, Pow2Def
    <2> QED  BY <2>1, <1>4, <1>5
  <1>8. \E h \in 0 .. n : Pow2[h] <= n /\ n < 2 * Pow2[h]  BY <1>5, <1>6, <1>7
  <1>9. HighestSetBit(n) \in 0 .. n /\ Pow2[HighestSetBit(n)] <= n /\ n < 2 * Pow2[HighestSetBit(n)]
    BY <1>8 DEF HighestSetBit
  <1> QED  BY <1>9

\* The exponent k and the mantissa q, with its hidden bit, of a size that is
\* not a denorm.
LEMMA RoundShape ==
    ASSUME NEW n \in Nat, n >= Mantissa
    PROVE  \E k \in Nat, q \in Nat :
              /\ q >= Mantissa /\ q < 2 * Mantissa
              /\ uintToFloatRoundDown(n) = k * Mantissa + q
              /\ q * Pow2[k] <= n /\ n < (q + 1) * Pow2[k]
              /\ (n % Grain(n) = 0) <=> n = q * Pow2[k]
  <1> DEFINE h == HighestSetBit(n)
             k == h - MantissaBits
             G == Pow2[k]
             q == n \div G
             M == Mantissa
  <1>0. M \in Nat /\ M >= 1 /\ MantissaBits \in Nat /\ M = Pow2[MantissaBits]
    BY MantissaType, AllocatorAssumption DEF Mantissa
  <1>1. h \in Nat /\ Pow2[h] <= n /\ n < 2 * Pow2[h] /\ Pow2[h] \in Nat
    <2>1. n # 0  BY <1>0
    <2>2. h \in Nat /\ Pow2[h] <= n /\ n < 2 * Pow2[h]  BY <2>1, HighestSetBitOk
    <2> QED  BY <2>2, Pow2Def
  <1>2. k \in Nat
    <2> SUFFICES ASSUME ~(MantissaBits <= h) PROVE FALSE  BY <1>0, <1>1
    <2>1. h + 1 \in Nat /\ h + 1 <= MantissaBits  BY <1>0, <1>1
    <2>2. Pow2[h + 1] <= M  BY <2>1, <1>0, Pow2Mono
    <2>3. Pow2[h + 1] = 2 * Pow2[h]  BY <1>1, Pow2Def
    <2> QED  BY <2>2, <2>3, <1>0, <1>1
  <1>3. G \in Nat /\ G >= 1 /\ Pow2[h] = G * M
    <2>1. k < G /\ G \in Nat  BY <1>2, Pow2Grows, Pow2Def
    <2>2. k + MantissaBits = h  BY <1>0, <1>1
    <2>3. Pow2[k + MantissaBits] = G * M  BY <1>0, <1>2, Pow2Sum
    <2> QED  BY <1>2, <2>1, <2>2, <2>3
  <1>4. uintToFloatRoundDown(n) = (k + 1) * M + (q % M) /\ Grain(n) = G
    <2>1. ~(n < M)  BY <1>0
    <2> QED  BY <2>1 DEF uintToFloatRoundDown, Grain
  <1> HIDE DEF M, G, h
  <1>5. q \in Nat /\ q * G <= n /\ n < (q + 1) * G /\ n = q * G + (n % G)
    <2>1. q \in Nat  BY <1>3
    <2>2. n = q * G + (n % G) /\ n % G \in 0 .. G - 1  BY <1>3
    <2> HIDE DEF q
    <2>3. \A x, g, y, r \in Nat : x = y * g + r /\ r < g => y * g <= x /\ x < (y + 1) * g
      <3> SUFFICES ASSUME NEW x \in Nat, NEW g \in Nat, NEW y \in Nat, NEW r \in Nat,
                          x = y * g + r, r < g
                   PROVE  y * g <= x /\ x < (y + 1) * g
        OBVIOUS
      <3>1. (y + 1) * g = y * g + g /\ y * g \in Nat  OBVIOUS
      <3> QED  BY <3>1
    <2> QED  BY <2>1, <2>2, <2>3, <1>3
  <1> HIDE DEF q
  <1>6. q >= M /\ q < 2 * M
    <2>1. G * M <= n /\ n < 2 * (G * M)  BY <1>1, <1>3
    <2>2. \A x, g, m, y \in Nat : g >= 1 /\ y * g <= x /\ x < (y + 1) * g /\ g * m <= x /\ x < 2 * (g * m)
                                   => y >= m /\ y < 2 * m
      <3> SUFFICES ASSUME NEW x \in Nat, NEW g \in Nat, NEW m \in Nat, NEW y \in Nat, g >= 1,
                          y * g <= x, x < (y + 1) * g, g * m <= x, x < 2 * (g * m)
                   PROVE  y >= m /\ y < 2 * m
        OBVIOUS
      <3>1. \A u, v \in Nat : u <= v => u * g <= v * g  OBVIOUS
      <3>2. g * m = m * g /\ 2 * (g * m) = (2 * m) * g  OBVIOUS
      <3>3. y >= m
        <4> SUFFICES ASSUME y + 1 <= m PROVE FALSE  OBVIOUS
        <4>1. (y + 1) * g <= m * g  BY <3>1
        <4> QED  BY <4>1, <3>2
      <3>4. y < 2 * m
        <4> SUFFICES ASSUME 2 * m <= y PROVE FALSE  OBVIOUS
        <4>1. (2 * m) * g <= y * g  BY <3>1
        <4> QED  BY <4>1, <3>2
      <3> QED  BY <3>3, <3>4
    <2> QED  BY <2>1, <2>2, <1>0, <1>3, <1>5
  <1>7. (k + 1) * M + (q % M) = k * M + q
    <2>1. \A y, m \in Nat : m <= y /\ y < 2 * m => y % m = y - m
      <3> SUFFICES ASSUME NEW y \in Nat, NEW m \in Nat, m <= y, y < 2 * m PROVE y % m = y - m
        OBVIOUS
      <3>1. m > 0 /\ y - m \in 0 .. m - 1 /\ y = 1 * m + (y - m)  OBVIOUS
      <3> QED  BY <3>1
    <2>2. q % M = q - M  BY <2>1, <1>0, <1>5, <1>6
    <2>3. (k + 1) * M = k * M + M  BY <1>0, <1>2
    <2>4. k * M \in Nat  BY <1>0, <1>2
    <2> QED  BY <2>2, <2>3, <2>4, <1>0, <1>5
  <1>8. (n % G = 0) <=> n = q * G
    <2>1. \A x, y, r \in Nat : x = y + r => (r = 0 <=> x = y)  OBVIOUS
    <2>2. n % G \in Nat /\ q * G \in Nat  BY <1>3, <1>5
    <2> QED  BY <2>1, <2>2, <1>5
  <1>9. /\ q >= Mantissa /\ q < 2 * Mantissa
        /\ uintToFloatRoundDown(n) = k * Mantissa + q
        /\ q * Pow2[k] <= n /\ n < (q + 1) * Pow2[k]
        /\ (n % Grain(n) = 0) <=> n = q * Pow2[k]
    BY <1>4, <1>5, <1>6, <1>7, <1>8 DEF M, G
  <1> QED  BY <1>2, <1>5, <1>9

\* A bin that is not a denorm, by its exponent and mantissa, and the next one.
LEMMA FloatShape ==
    ASSUME NEW k \in Nat, NEW q \in Nat, q >= Mantissa, q < 2 * Mantissa
    PROVE  /\ floatToUint(k * Mantissa + q) = q * Pow2[k]
           /\ floatToUint(k * Mantissa + q + 1) = (q + 1) * Pow2[k]
  <1> DEFINE M == Mantissa
  <1>0. M \in Nat /\ M >= 1  BY MantissaType
  <1>1. ASSUME NEW j \in Nat, NEW r \in Nat, r >= M, r < 2 * M
        PROVE  floatToUint(j * M + r) = r * Pow2[j]
    <2> DEFINE f == j * M + r
    <2> HIDE DEF M
    <2>1. f = (j + 1) * M + (r - M) /\ r - M \in 0 .. M - 1 /\ f \in Nat
      BY <1>0, <1>1
    <2>2. f \div M = j + 1 /\ f % M = r - M
      <3>1. \A x, y, z, m \in Nat : m >= 1 /\ x = y * m + z /\ z < m => x \div m = y /\ x % m = z
        <4> SUFFICES ASSUME NEW x \in Nat, NEW y \in Nat, NEW z \in Nat, NEW m \in Nat,
                            m >= 1, x = y * m + z, z < m
                     PROVE  x \div m = y /\ x % m = z
          OBVIOUS
        <4>1. x = (x \div m) * m + (x % m) /\ x % m \in Nat /\ x % m < m /\ x \div m \in Nat  OBVIOUS
        <4>2. \A u, v, a, b \in Nat : a < m /\ b < m /\ u * m + a = v * m + b => u <= v
          <5> SUFFICES ASSUME NEW u \in Nat, NEW v \in Nat, NEW a \in Nat, NEW b \in Nat,
                              a < m, b < m, u * m + a = v * m + b, v + 1 <= u
                       PROVE  FALSE
            OBVIOUS
          <5>1. (v + 1) * m <= u * m /\ (v + 1) * m = v * m + m /\ v * m \in Nat /\ u * m \in Nat
            OBVIOUS
          <5> QED  BY <5>1
        <4>3. x \div m <= y /\ y <= x \div m  BY <4>1, <4>2
        <4>4. x \div m = y  BY <4>1, <4>3
        <4>5. y * m \in Nat  OBVIOUS
        <4>6. x % m = z  BY <4>1, <4>4, <4>5
        <4> QED  BY <4>4, <4>6
      <3> HIDE DEF f
      <3> DEFINE y == j + 1
                 z == r - M
      <3>2. y \in Nat /\ z \in Nat /\ z < M /\ f = y * M + z /\ f \in Nat  BY <2>1, <1>0
      <3> HIDE DEF y, z
      <3>3. f \div M = y /\ f % M = z  BY <3>1, <3>2, <1>0
      <3> QED  BY <3>3 DEF y, z
    <2> HIDE DEF f
    <2>3. f \div M # 0 /\ (f \div M) - 1 = j /\ (f % M) + M = r  BY <2>2, <1>0, <1>1
    <2>4. floatToUint(f) = IF f \div M = 0 THEN f % M ELSE ((f % M) + M) * Pow2[(f \div M) - 1]
      BY DEF floatToUint, M
    <2>5. floatToUint(f) = r * Pow2[j]  BY <2>3, <2>4
    <2> QED  BY <2>5 DEF f, M
  <1>2. floatToUint(k * M + q) = q * Pow2[k]  BY <1>1
  <1>3. floatToUint(k * M + q + 1) = (q + 1) * Pow2[k]
    <2>1. CASE q + 1 < 2 * M
      <3>1. q + 1 >= M  BY <1>0
      <3>2. floatToUint(k * M + (q + 1)) = (q + 1) * Pow2[k]  BY <3>1, <2>1, <1>1
      <3>3. k * M + (q + 1) = k * M + q + 1  BY <1>0
      <3> QED  BY <3>2, <3>3
    <2>2. CASE q + 1 = 2 * M
      <3>1. M >= M /\ M < 2 * M  BY <1>0
      <3>2. floatToUint((k + 1) * M + M) = M * Pow2[k + 1]  BY <3>1, <1>0, <1>1
      <3>3. (k + 1) * M + M = k * M + q + 1
        <4>1. (k + 1) * M = k * M + M /\ k * M \in Nat  BY <1>0
        <4> HIDE DEF M
        <4> QED  BY <4>1, <2>2, <1>0
      <3>4. M * Pow2[k + 1] = (q + 1) * Pow2[k]
        <4>1. Pow2[k] \in Nat /\ Pow2[k + 1] = 2 * Pow2[k]  BY Pow2Def
        <4>2. \A x, y \in Nat : x * (2 * y) = (2 * x) * y  OBVIOUS
        <4> QED  BY <4>1, <4>2, <2>2, <1>0
      <3> QED  BY <3>2, <3>3, <3>4
    <2> QED  BY <2>1, <2>2, <1>0
  <1> QED  BY <1>2, <1>3

\* Every bin that is not a denorm has an exponent and a mantissa.
LEMMA FloatParts ==
    ASSUME NEW f \in Nat, f >= Mantissa
    PROVE  \E k, q \in Nat : q >= Mantissa /\ q < 2 * Mantissa /\ f = k * Mantissa + q
  <1> DEFINE M == Mantissa
             e == f \div M
             r == f % M
  <1>0. M \in Nat /\ M >= 1  BY MantissaType
  <1>1. f = e * M + r /\ r \in Nat /\ r < M /\ e \in Nat /\ f >= M  BY <1>0
  <1> HIDE DEF M, e, r
  <1>2. e # 0
    <2> SUFFICES ASSUME e = 0 PROVE FALSE  OBVIOUS
    <2>1. 0 * M = 0  BY <1>0
    <2> QED  BY <2>1, <1>0, <1>1
  <1>3. e - 1 \in Nat /\ r + M \in Nat /\ r + M >= M /\ r + M < 2 * M  BY <1>0, <1>1, <1>2
  <1>4. f = (e - 1) * M + (r + M)
    <2>1. (e - 1) * M = e * M - M /\ e * M \in Nat  BY <1>0, <1>1, <1>3
    <2> QED  BY <2>1, <1>0, <1>1
  <1> QED  BY <1>3, <1>4 DEF M

\* A denorm bin has the size of its index.
LEMMA FloatDenorm == ASSUME NEW f \in Nat, f < Mantissa PROVE floatToUint(f) = f
  <1>1. f \div Mantissa = 0 /\ f % Mantissa = f  BY MantissaType
  <1> QED  BY <1>1 DEF floatToUint

\* The sizes of bins are naturals and increase from one to the next.
LEMMA FloatNext == ASSUME NEW f \in Nat
                   PROVE  floatToUint(f) \in Nat /\ floatToUint(f) < floatToUint(f + 1)
  <1>0. Mantissa \in Nat /\ Mantissa >= 1  BY MantissaType
  <1>1. CASE f + 1 < Mantissa
    <2>1. floatToUint(f) = f /\ floatToUint(f + 1) = f + 1  BY <1>0, <1>1, FloatDenorm
    <2> QED  BY <2>1
  <1>2. CASE f + 1 = Mantissa
    <2>1. floatToUint(f) = f  BY <1>0, <1>2, FloatDenorm
    <2>2. Mantissa >= Mantissa /\ Mantissa < 2 * Mantissa /\ 0 * Mantissa + Mantissa = f + 1
      BY <1>0, <1>2
    <2>3. floatToUint(0 * Mantissa + Mantissa) = Mantissa * Pow2[0]  BY <1>0, <2>2, FloatShape
    <2>4. floatToUint(f + 1) = f + 1  BY <2>2, <2>3, <1>0, <1>2, Pow2Def
    <2> QED  BY <2>1, <2>4
  <1>3. CASE f >= Mantissa
    <2>1. PICK k, q \in Nat : q >= Mantissa /\ q < 2 * Mantissa /\ f = k * Mantissa + q
      BY <1>3, FloatParts
    <2>2. floatToUint(f) = q * Pow2[k] /\ floatToUint(f + 1) = (q + 1) * Pow2[k]
      BY <2>1, FloatShape
    <2>3. Pow2[k] \in Nat /\ Pow2[k] > 0
      <3>1. Pow2[k] \in Nat /\ k < Pow2[k]  BY Pow2Def, Pow2Grows
      <3> QED  BY <3>1
    <2>4. (q + 1) * Pow2[k] = q * Pow2[k] + Pow2[k] /\ q * Pow2[k] \in Nat
      <3>1. \A x, y \in Nat : (x + 1) * y = x * y + y /\ x * y \in Nat  OBVIOUS
      <3> QED  BY ONLY <3>1, <2>3, q \in Nat
    <2> QED  BY <2>2, <2>3, <2>4
  <1> QED  BY <1>0, <1>1, <1>2, <1>3

\* Larger bins have larger sizes.
LEMMA FloatMono == ASSUME NEW f \in Nat, NEW g \in Nat, f < g PROVE floatToUint(f) < floatToUint(g)
  <1> DEFINE S == {d \in Nat : floatToUint(f) < floatToUint(f + d + 1)}
  <1>1. 0 \in S
    <2>1. f + 0 + 1 = f + 1  OBVIOUS
    <2> QED  BY <2>1, FloatNext
  <1>2. ASSUME NEW d \in Nat, d \in S PROVE d + 1 \in S
    <2>1. f + d + 1 \in Nat /\ (f + d + 1) + 1 = f + (d + 1) + 1  OBVIOUS
    <2>2. floatToUint(f + d + 1) < floatToUint((f + d + 1) + 1)  BY <2>1, FloatNext
    <2>3. floatToUint(f) < floatToUint(f + d + 1)  BY <1>2
    <2>4. floatToUint(f) \in Nat /\ floatToUint(f + d + 1) \in Nat /\ floatToUint((f + d + 1) + 1) \in Nat
      BY <2>1, FloatNext
    <2>5. floatToUint(f) < floatToUint((f + d + 1) + 1)  BY <2>2, <2>3, <2>4
    <2> QED  BY <2>1, <2>5
  <1> HIDE DEF S
  <1>3. \A d \in Nat : d \in S  BY <1>1, <1>2, NatInd
  <1>4. g - f - 1 \in Nat /\ f + (g - f - 1) + 1 = g  OBVIOUS
  <1> QED  BY <1>3, <1>4 DEF S

\* A size lies between the size of the bin it is rounded down to, and that of
\* the next one.
LEMMA RoundDownOk ==
    ASSUME NEW n \in Nat
    PROVE  /\ uintToFloatRoundDown(n) \in Nat
           /\ floatToUint(uintToFloatRoundDown(n)) <= n
           /\ n < floatToUint(uintToFloatRoundDown(n) + 1)
           /\ (n % Grain(n) = 0) <=> floatToUint(uintToFloatRoundDown(n)) = n
  <1>0. Mantissa \in Nat /\ Mantissa >= 1  BY MantissaType
  <1>1. CASE n < Mantissa
    <2>1. uintToFloatRoundDown(n) = n /\ Grain(n) = 1  BY <1>1 DEF uintToFloatRoundDown, Grain
    <2>2. floatToUint(n) = n  BY <1>1, FloatDenorm
    <2>3. n < floatToUint(n + 1)  BY <2>2, FloatNext
    <2>4. n % 1 = 0  OBVIOUS
    <2> QED  BY <2>1, <2>2, <2>3, <2>4
  <1>2. CASE n >= Mantissa
    <2>1. PICK k \in Nat, q \in Nat :
              /\ q >= Mantissa /\ q < 2 * Mantissa
              /\ uintToFloatRoundDown(n) = k * Mantissa + q
              /\ q * Pow2[k] <= n /\ n < (q + 1) * Pow2[k]
              /\ (n % Grain(n) = 0) <=> n = q * Pow2[k]
      BY <1>2, RoundShape
    <2>2. /\ floatToUint(k * Mantissa + q) = q * Pow2[k]
          /\ floatToUint(k * Mantissa + q + 1) = (q + 1) * Pow2[k]
      BY <2>1, FloatShape
    <2>3. k * Mantissa + q \in Nat  BY <1>0
    <2> QED  BY <2>1, <2>2, <2>3
  <1> QED  BY <1>0, <1>1, <1>2

\* A larger size is never in a smaller bin.
LEMMA RoundDownMono == ASSUME NEW m \in Nat, NEW n \in Nat, m <= n
                       PROVE  uintToFloatRoundDown(m) <= uintToFloatRoundDown(n)
  <1> DEFINE x == uintToFloatRoundDown(m)
             y == uintToFloatRoundDown(n)
  <1>1. x \in Nat /\ y \in Nat /\ floatToUint(x) <= m /\ n < floatToUint(y + 1)  BY RoundDownOk
  <1>2. floatToUint(x) \in Nat /\ floatToUint(y + 1) \in Nat  BY <1>1, FloatNext
  <1> HIDE DEF x, y
  <1>3. SUFFICES ASSUME y + 1 <= x PROVE FALSE  BY <1>1 DEF x, y
  <1>4. y + 1 = x \/ y + 1 < x  BY <1>1, <1>3
  <1>5. floatToUint(y + 1) <= floatToUint(x)  BY <1>1, <1>2, <1>4, FloatMono
  <1> QED  BY <1>1, <1>2, <1>5

\* The bins from the rounded up size on are exactly those whose regions are
\* large enough.
LEMMA RoundUpOk ==
    ASSUME NEW n \in Nat
    PROVE  /\ uintToFloatRoundUp(n) \in Nat
           /\ \A b \in Nat : b >= uintToFloatRoundUp(n) <=> floatToUint(b) >= n
  <1> DEFINE d == uintToFloatRoundDown(n)
             u == uintToFloatRoundUp(n)
  <1>1. /\ d \in Nat /\ floatToUint(d) <= n /\ n < floatToUint(d + 1)
        /\ (n % Grain(n) = 0) <=> floatToUint(d) = n
    BY RoundDownOk
  <1>2. u = IF n % Grain(n) # 0 THEN d + 1 ELSE d  BY <1>1 DEF uintToFloatRoundUp
  <1> HIDE DEF d, u
  <1>3. u \in Nat  BY <1>1, <1>2
  <1>4. ASSUME NEW b \in Nat PROVE b >= u <=> floatToUint(b) >= n
    <2>0. floatToUint(b) \in Nat /\ floatToUint(d) \in Nat /\ floatToUint(d + 1) \in Nat
      BY <1>1, FloatNext
    <2>1. b < d => floatToUint(b) < n
      <3>1. b < d => floatToUint(b) < floatToUint(d)  BY <1>1, FloatMono
      <3> QED  BY <3>1, <2>0, <1>1
    <2>2. b > d => floatToUint(b) >= n
      <3>1. b > d => b = d + 1 \/ d + 1 < b  BY <1>1
      <3>2. d + 1 < b => floatToUint(d + 1) < floatToUint(b)  BY <1>1, FloatMono
      <3> QED  BY <3>1, <3>2, <2>0, <1>1
    <2>3. b = d => (b >= u <=> floatToUint(b) >= n)  BY <2>0, <1>1, <1>2
    <2>4. b < d \/ b > d \/ b = d  BY <1>1
    <2>5. b < d => ~(b >= u) /\ ~(floatToUint(b) >= n)  BY <2>0, <2>1, <1>1, <1>2
    <2>6. b > d => b >= u /\ floatToUint(b) >= n  BY <2>2, <1>1, <1>2
    <2> QED  BY <2>3, <2>4, <2>5, <2>6
  <1> QED  BY <1>3, <1>4 DEF u

-----------------------------------------------------------------------------
(* The nodes, the bins and the list of free nodes of one allocator.         *)

Link == Node \cup {None}

NodeRec == [offset : Nat, size : Nat, used : BOOLEAN,
            binNext : Link, binPrev : Link, next : Link, prev : Link]

AllocRec == [nodes : [Node -> NodeRec], bins : [Bin -> Link], usedBins : SUBSET Bin,
             usedTops : SUBSET Nat, capacity : InitCapacity .. MaxCapacity,
             freeList : Seq(Node), freeStorage : Int]

\* Two contents of a node that differ in the list of the bin only.
SameRegion(n, m) ==
    /\ n.offset = m.offset /\ n.size = m.size /\ n.used = m.used
    /\ n.next = m.next /\ n.prev = m.prev

\* Two contents of a node that differ in the neighbours only.
SamePlace(n, m) ==
    /\ n.offset = m.offset /\ n.size = m.size /\ n.used = m.used
    /\ n.binNext = m.binNext /\ n.binPrev = m.binPrev

\* There is no node None, and a link is one or the other.
LEMMA LinkFacts == /\ None \notin Node /\ \A x \in Link : x # None => x \in Node
                   /\ Node \subseteq Link /\ None \in Link /\ Node \subseteq Nat
  BY DEF Link, Node, None

\* What BinNeighbours changes.
LEMMA BinNeighboursOk ==
    ASSUME NEW N \in [Node -> NodeRec], NEW i \in Link, NEW j \in Link
    PROVE  /\ BinNeighbours(N, i, j) \in [Node -> NodeRec]
           /\ \A k \in Node :
                /\ SameRegion(BinNeighbours(N, i, j)[k], N[k])
                /\ BinNeighbours(N, i, j)[k].binNext = IF k = i THEN j ELSE N[k].binNext
                /\ BinNeighbours(N, i, j)[k].binPrev = IF k = j THEN i ELSE N[k].binPrev
  <1> DEFINE R == BinNeighbours(N, i, j)
  <1>1. ASSUME NEW k \in Node
        PROVE  /\ R[k] \in NodeRec /\ SameRegion(R[k], N[k])
               /\ R[k].binNext = IF k = i THEN j ELSE N[k].binNext
               /\ R[k].binPrev = IF k = j THEN i ELSE N[k].binPrev
    <2>1. R[k] = [N[k] EXCEPT !.binNext = IF k = i THEN j ELSE @,
                              !.binPrev = IF k = j THEN i ELSE @]
      BY DEF BinNeighbours
    <2>2. N[k] \in NodeRec  OBVIOUS
    <2> HIDE DEF R
    <2>3. R[k].binNext = IF k = i THEN j ELSE N[k].binNext  BY <2>1, <2>2 DEF NodeRec
    <2>4. R[k].binPrev = IF k = j THEN i ELSE N[k].binPrev  BY <2>1, <2>2 DEF NodeRec
    <2>5. SameRegion(R[k], N[k])  BY <2>1, <2>2 DEF NodeRec, SameRegion
    <2>6. R[k] \in NodeRec  BY <2>1, <2>2 DEF NodeRec
    <2> QED  BY <2>3, <2>4, <2>5, <2>6
  <1>2. R = [k \in Node |-> R[k]]  BY DEF BinNeighbours
  <1> HIDE DEF R
  <1>3. R \in [Node -> NodeRec]  BY <1>1, <1>2
  <1> QED  BY <1>1, <1>3 DEF R

\* What Neighbours changes.
LEMMA NeighboursOk ==
    ASSUME NEW N \in [Node -> NodeRec], NEW i \in Link, NEW j \in Link
    PROVE  /\ Neighbours(N, i, j) \in [Node -> NodeRec]
           /\ \A k \in Node :
                /\ SamePlace(Neighbours(N, i, j)[k], N[k])
                /\ Neighbours(N, i, j)[k].next = IF k = i THEN j ELSE N[k].next
                /\ Neighbours(N, i, j)[k].prev = IF k = j THEN i ELSE N[k].prev
  <1> DEFINE R == Neighbours(N, i, j)
  <1>1. ASSUME NEW k \in Node
        PROVE  /\ R[k] \in NodeRec /\ SamePlace(R[k], N[k])
               /\ R[k].next = IF k = i THEN j ELSE N[k].next
               /\ R[k].prev = IF k = j THEN i ELSE N[k].prev
    <2>1. R[k] = [N[k] EXCEPT !.next = IF k = i THEN j ELSE @,
                              !.prev = IF k = j THEN i ELSE @]
      BY DEF Neighbours
    <2>2. N[k] \in NodeRec  OBVIOUS
    <2> HIDE DEF R
    <2>3. R[k].next = IF k = i THEN j ELSE N[k].next  BY <2>1, <2>2 DEF NodeRec
    <2>4. R[k].prev = IF k = j THEN i ELSE N[k].prev  BY <2>1, <2>2 DEF NodeRec
    <2>5. SamePlace(R[k], N[k])  BY <2>1, <2>2 DEF NodeRec, SamePlace
    <2>6. R[k] \in NodeRec  BY <2>1, <2>2 DEF NodeRec
    <2> QED  BY <2>3, <2>4, <2>5, <2>6
  <1>2. R = [k \in Node |-> R[k]]  BY DEF Neighbours
  <1> HIDE DEF R
  <1>3. R \in [Node -> NodeRec]  BY <1>1, <1>2
  <1> QED  BY <1>1, <1>3 DEF R

\* The free list is a stack of different nodes below the capacity.
Stack(a) ==
    /\ \A j, k \in DOMAIN a.freeList : a.freeList[j] = a.freeList[k] => j = k
    /\ Elems(a.freeList) \subseteq 0 .. a.capacity - 1

\* The bins list the nodes U, each in the bin of its size.
BinLinks(a, U) ==
    /\ U \subseteq Node
    /\ a.usedBins = {b \in Bin : a.bins[b] # None}
    /\ a.usedTops = {TopOf(b) : b \in a.usedBins}
    /\ \A b \in Bin : a.bins[b] # None => /\ a.bins[b] \in U
                                          /\ a.nodes[a.bins[b]].binPrev = None
                                          /\ uintToFloatRoundDown(a.nodes[a.bins[b]].size) = b
    /\ \A i \in U :
         /\ a.nodes[i].size \in 1 .. StorageSize
         /\ a.nodes[i].binPrev = None => a.bins[uintToFloatRoundDown(a.nodes[i].size)] = i
         /\ a.nodes[i].binPrev # None => /\ a.nodes[i].binPrev \in U
                                         /\ a.nodes[a.nodes[i].binPrev].binNext = i
         /\ a.nodes[i].binNext # None =>
              /\ a.nodes[i].binNext \in U
              /\ a.nodes[a.nodes[i].binNext].binPrev = i
              /\ uintToFloatRoundDown(a.nodes[a.nodes[i].binNext].size)
                   = uintToFloatRoundDown(a.nodes[i].size)

\* An allocator between two steps of allocate() or free().
Mid(a, U) == a \in AllocRec /\ Stack(a) /\ BinLinks(a, U)

\* The sizes of regions have bins.
LEMMA BinOf == /\ \A n \in 1 .. StorageSize : uintToFloatRoundDown(n) \in Bin
               /\ Bin \subseteq Nat /\ \A b \in Bin : TopOf(b) \in Nat
  <1>1. ASSUME NEW n \in 1 .. StorageSize PROVE uintToFloatRoundDown(n) \in Bin
    <2>1. n \in Nat /\ StorageSize \in Nat /\ n <= StorageSize  BY AllocatorAssumption
    <2>2. uintToFloatRoundDown(n) <= uintToFloatRoundDown(StorageSize)  BY <2>1, RoundDownMono
    <2>3. uintToFloatRoundDown(n) \in Nat /\ uintToFloatRoundDown(StorageSize) \in Nat
      BY <2>1, RoundDownOk
    <2> QED  BY <2>2, <2>3 DEF Bin
  <1>2. Bin \subseteq Nat  BY AllocatorAssumption, RoundDownOk DEF Bin
  <1>3. \A b \in Nat : b \div Mantissa \in Nat  BY MantissaType
  <1> QED  BY <1>1, <1>2, <1>3 DEF TopOf

\* The allocator r is a with a new node at the top of its bin.
Inserted(a, r, size, offset) ==
    LET i == Head(a.freeList)
        b == uintToFloatRoundDown(size)
    IN  /\ i \in Node /\ b \in Bin
        /\ r \in AllocRec
        /\ \A k \in Node \ {i} :
              /\ SameRegion(r.nodes[k], a.nodes[k])
              /\ r.nodes[k].binNext = a.nodes[k].binNext
              /\ r.nodes[k].binPrev = IF k = a.bins[b] THEN i ELSE a.nodes[k].binPrev
        /\ r.nodes[i].offset = offset /\ r.nodes[i].size = size /\ r.nodes[i].used = FALSE
        /\ r.nodes[i].next = None /\ r.nodes[i].prev = None
        /\ r.nodes[i].binNext = a.bins[b]
        /\ a.bins[b] # i => r.nodes[i].binPrev = None
        /\ r.bins = [a.bins EXCEPT ![b] = i]
        /\ r.usedBins = a.usedBins \cup {b}
        /\ r.usedTops = a.usedTops \cup {TopOf(b)}
        /\ r.freeList = Tail(a.freeList) /\ r.capacity = a.capacity
        /\ r.freeStorage = a.freeStorage + size

\* The fields of the allocator that insertNodeIntoBin leaves.
LEMMA InsertFields ==
    ASSUME NEW a \in AllocRec, a.freeList # <<>>, NEW size \in 1 .. StorageSize, NEW offset \in Nat
    PROVE  Inserted(a, insertNodeIntoBin(a, size, offset), size, offset)
  <1> DEFINE r == insertNodeIntoBin(a, size, offset)
             i == Head(a.freeList)
             b == uintToFloatRoundDown(size)
             new == NewNode(offset, size)
             M == [a.nodes EXCEPT ![i] = new]
             N == BinNeighbours(M, i, a.bins[b])
             B == [a.bins EXCEPT ![b] = i]
             UB == a.usedBins \cup {b}
             UT == a.usedTops \cup {TopOf(b)}
             F == Tail(a.freeList)
             S == a.freeStorage + size
  <1>1. i \in Node /\ F \in Seq(Node)  BY HeadTailProperties DEF AllocRec
  <1>2. b \in Bin /\ TopOf(b) \in Nat  BY BinOf
  <1>3. a.bins[b] \in Link /\ i \in Link  BY <1>1, <1>2, LinkFacts DEF AllocRec
  <1>4. new \in NodeRec /\ new.offset = offset /\ new.size = size /\ new.used = FALSE
        /\ new.next = None /\ new.prev = None /\ new.binNext = None /\ new.binPrev = None
    <2>1. new = [offset |-> offset, size |-> size, used |-> FALSE,
                 binNext |-> None, binPrev |-> None, next |-> None, prev |-> None]
      BY DEF NewNode
    <2>2. size \in Nat /\ None \in Link  BY LinkFacts, AllocatorAssumption
    <2> HIDE DEF new
    <2> QED  BY <2>1, <2>2 DEF NodeRec
  <1> HIDE DEF new
  <1>5. M \in [Node -> NodeRec] /\ M[i] = new /\ \A k \in Node \ {i} : M[k] = a.nodes[k]
    BY <1>1, <1>4 DEF AllocRec
  <1> HIDE DEF M
  <1>6. /\ N \in [Node -> NodeRec]
        /\ \A k \in Node : /\ SameRegion(N[k], M[k])
                           /\ N[k].binNext = IF k = i THEN a.bins[b] ELSE M[k].binNext
                           /\ N[k].binPrev = IF k = a.bins[b] THEN i ELSE M[k].binPrev
    BY <1>3, <1>5, BinNeighboursOk
  <1> HIDE DEF N
  <1>7. B \in [Bin -> Link] /\ UB \in SUBSET Bin /\ UT \in SUBSET Nat /\ S \in Int
    BY <1>2, <1>3, AllocatorAssumption DEF AllocRec
  <1>8. r = [nodes |-> N, bins |-> B, usedBins |-> UB, usedTops |-> UT, capacity |-> a.capacity,
             freeList |-> F, freeStorage |-> S]
    <2>1. a = [nodes |-> a.nodes, bins |-> a.bins, usedBins |-> a.usedBins, usedTops |-> a.usedTops,
               capacity |-> a.capacity, freeList |-> a.freeList, freeStorage |-> a.freeStorage]
      BY DEF AllocRec
    <2>2. r = [a EXCEPT !.nodes = N, !.bins = B, !.usedBins = UB, !.usedTops = UT,
                        !.freeList = F, !.freeStorage = S]
      BY DEF insertNodeIntoBin, N, M, new
    <2> HIDE DEF r, B, UB, UT, F, S
    <2> QED  BY <2>1, <2>2
  <1> HIDE DEF r
  <1>9. r.nodes = N /\ r.bins = B /\ r.usedBins = UB /\ r.usedTops = UT /\ r.capacity = a.capacity
        /\ r.freeList = F /\ r.freeStorage = S
    BY <1>8
  <1>10. r \in AllocRec
    <2>1. a.capacity \in InitCapacity .. MaxCapacity  BY DEF AllocRec
    <2> HIDE DEF B, UB, UT, F, S
    <2> QED  BY <2>1, <1>1, <1>6, <1>7, <1>8 DEF AllocRec
  <1>11. ASSUME NEW k \in Node \ {i}
         PROVE  /\ SameRegion(r.nodes[k], a.nodes[k])
                /\ r.nodes[k].binNext = a.nodes[k].binNext
                /\ r.nodes[k].binPrev = IF k = a.bins[b] THEN i ELSE a.nodes[k].binPrev
    BY <1>5, <1>6, <1>9
  <1>12. /\ r.nodes[i].offset = offset /\ r.nodes[i].size = size /\ r.nodes[i].used = FALSE
         /\ r.nodes[i].next = None /\ r.nodes[i].prev = None
    <2>1. SameRegion(N[i], new)  BY <1>1, <1>5, <1>6
    <2> QED  BY <2>1, <1>4, <1>9 DEF SameRegion
  <1>13. r.nodes[i].binNext = a.bins[b] /\ (a.bins[b] # i => r.nodes[i].binPrev = None)
    BY <1>1, <1>4, <1>5, <1>6, <1>9
  <1> HIDE DEF i, b
  <1>14. Inserted(a, r, size, offset)
    BY <1>1, <1>2, <1>9, <1>10, <1>11, <1>12, <1>13 DEF Inserted, i, b
  <1> QED  BY <1>14 DEF r

\* Taking a node from the stack.
LEMMA PopStack ==
    ASSUME NEW s \in Seq(Node), s # <<>>, \A j, k \in DOMAIN s : s[j] = s[k] => j = k
    PROVE  /\ Tail(s) \in Seq(Node) /\ Head(s) \in Node /\ Head(s) \in Elems(s)
           /\ Elems(Tail(s)) = Elems(s) \ {Head(s)}
           /\ \A j, k \in DOMAIN Tail(s) : Tail(s)[j] = Tail(s)[k] => j = k
  <1>1. /\ Len(s) \in Nat /\ Len(s) # 0 /\ DOMAIN s = 1 .. Len(s) /\ Head(s) = s[1]
        /\ Tail(s) \in Seq(Node) /\ Len(Tail(s)) = Len(s) - 1
    BY HeadTailProperties, LenProperties, EmptySeq
  <1>2. DOMAIN Tail(s) = 1 .. Len(s) - 1 /\ \A j \in 1 .. Len(s) - 1 : Tail(s)[j] = s[j + 1]
    BY <1>1, HeadTailProperties, LenProperties
  <1>3. 1 \in DOMAIN s /\ s[1] \in Node  BY <1>1
  <1>4. \A j, k \in DOMAIN Tail(s) : Tail(s)[j] = Tail(s)[k] => j = k
    <2> SUFFICES ASSUME NEW j \in 1 .. Len(s) - 1, NEW k \in 1 .. Len(s) - 1,
                        Tail(s)[j] = Tail(s)[k]
                 PROVE  j = k
      BY <1>2
    <2>1. j + 1 \in DOMAIN s /\ k + 1 \in DOMAIN s  BY <1>1
    <2>2. s[j + 1] = s[k + 1]  BY <1>2
    <2>3. j + 1 = k + 1  BY <2>1, <2>2
    <2> QED  BY <2>3
  <1>5. ASSUME NEW x \in Elems(Tail(s)) PROVE x \in Elems(s) /\ x # Head(s)
    <2>1. PICK j \in 1 .. Len(s) - 1 : x = s[j + 1]  BY <1>2 DEF Elems
    <2>2. j + 1 \in DOMAIN s /\ j + 1 # 1  BY <1>1
    <2>3. s[j + 1] # s[1]  BY <2>2, <1>3
    <2> QED  BY <2>1, <2>2, <2>3, <1>1 DEF Elems
  <1>6. ASSUME NEW x \in Elems(s), x # Head(s) PROVE x \in Elems(Tail(s))
    <2>1. PICK j \in 1 .. Len(s) : x = s[j]  BY <1>1 DEF Elems
    <2>2. j # 1  BY <2>1, <1>1, <1>6
    <2>3. j - 1 \in 1 .. Len(s) - 1 /\ (j - 1) + 1 = j  BY <2>2, <1>1
    <2>4. x = Tail(s)[j - 1]  BY <2>1, <2>3, <1>2
    <2> QED  BY <2>3, <2>4, <1>2 DEF Elems
  <1>7. Head(s) \in Elems(s)  BY <1>1, <1>3 DEF Elems
  <1>8. Elems(Tail(s)) = Elems(s) \ {Head(s)}  BY <1>5, <1>6
  <1> QED  BY <1>1, <1>3, <1>4, <1>7, <1>8

\* Putting a node on the stack.
LEMMA PushStack ==
    ASSUME NEW s \in Seq(Node), NEW i \in Node, i \notin Elems(s),
           \A j, k \in DOMAIN s : s[j] = s[k] => j = k
    PROVE  LET t == <<i>> \o s
           IN  /\ t \in Seq(Node) /\ t # <<>> /\ Head(t) = i /\ Tail(t) = s
               /\ Elems(t) = Elems(s) \cup {i}
               /\ \A j, k \in DOMAIN t : t[j] = t[k] => j = k
  <1> DEFINE t == <<i>> \o s
  <1>1. <<i>> \in Seq(Node) /\ Len(<<i>>) = 1 /\ <<i>>[1] = i  OBVIOUS
  <1>2. Len(s) \in Nat /\ DOMAIN s = 1 .. Len(s)  BY LenProperties
  <1>3. t \in Seq(Node) /\ Len(t) = 1 + Len(s)  BY <1>1, ConcatProperties
  <1>4. \A k \in 1 .. 1 + Len(s) : t[k] = IF k <= 1 THEN <<i>>[k] ELSE s[k - 1]
    BY <1>1, <1>2, ConcatProperties
  <1> HIDE DEF t
  <1>5. t[1] = i /\ \A k \in 1 .. Len(s) : t[k + 1] = s[k]
    <2>1. 1 \in 1 .. 1 + Len(s)  BY <1>2
    <2>2. t[1] = i  BY <2>1, <1>1, <1>4
    <2>3. ASSUME NEW k \in 1 .. Len(s) PROVE t[k + 1] = s[k]
      <3>1. k + 1 \in 1 .. 1 + Len(s) /\ ~(k + 1 <= 1) /\ (k + 1) - 1 = k  BY <1>2
      <3> QED  BY <3>1, <1>4
    <2> QED  BY <2>2, <2>3
  <1>6. DOMAIN t = 1 .. 1 + Len(s) /\ t # <<>>
    <2>1. DOMAIN t = 1 .. Len(t)  BY <1>3, LenProperties
    <2>2. 1 \in DOMAIN t  BY <2>1, <1>2, <1>3
    <2> QED  BY <2>1, <2>2, <1>3
  <1>7. \A k \in DOMAIN t : k = 1 \/ (k - 1 \in 1 .. Len(s) /\ t[k] = s[k - 1])
    <2> SUFFICES ASSUME NEW k \in 1 .. 1 + Len(s), k # 1
                 PROVE  k - 1 \in 1 .. Len(s) /\ t[k] = s[k - 1]
      BY <1>6
    <2>1. k - 1 \in 1 .. Len(s) /\ ~(k <= 1)  BY <1>2
    <2> QED  BY <2>1, <1>4
  <1>8. Elems(t) = Elems(s) \cup {i}
    <2>1. \A x \in Elems(t) : x \in Elems(s) \cup {i}  BY <1>2, <1>5, <1>7 DEF Elems
    <2>2. \A k \in 1 .. Len(s) : k + 1 \in DOMAIN t  BY <1>2, <1>6
    <2>3. \A x \in Elems(s) : x \in Elems(t)  BY <2>2, <1>2, <1>5 DEF Elems
    <2>4. 1 \in DOMAIN t  BY <1>2, <1>6
    <2>5. i \in Elems(t)  BY <2>4, <1>5 DEF Elems
    <2> QED  BY <2>1, <2>3, <2>5
  <1>9. \A j, k \in DOMAIN t : t[j] = t[k] => j = k
    <2> SUFFICES ASSUME NEW j \in DOMAIN t, NEW k \in DOMAIN t, t[j] = t[k] PROVE j = k  OBVIOUS
    <2>0. j \in Int /\ k \in Int  BY <1>6
    <2>1. CASE j = 1 /\ k = 1  BY <2>1
    <2>2. CASE j = 1 /\ k # 1
      <3>1. s[k - 1] = i /\ k - 1 \in DOMAIN s  BY <2>2, <1>2, <1>5, <1>7
      <3> QED  BY <3>1 DEF Elems
    <2>3. CASE j # 1 /\ k = 1
      <3>1. s[j - 1] = i /\ j - 1 \in DOMAIN s  BY <2>3, <1>2, <1>5, <1>7
      <3> QED  BY <3>1 DEF Elems
    <2>4. CASE j # 1 /\ k # 1
      <3>1. j - 1 \in DOMAIN s /\ k - 1 \in DOMAIN s /\ s[j - 1] = s[k - 1]  BY <2>4, <1>2, <1>7
      <3>2. j - 1 = k - 1  BY <3>1
      <3> QED  BY <3>2, <2>0
    <2> QED  BY <2>1, <2>2, <2>3, <2>4
  <1>10. Head(t) = i  BY <1>3, <1>5, <1>6, HeadTailProperties
  <1>11. Tail(t) = s
    <2>1. Tail(t) \in Seq(Node) /\ Len(Tail(t)) = Len(s)  BY <1>2, <1>3, <1>6, HeadTailProperties
    <2>2. \A k \in 1 .. Len(s) : Tail(t)[k] = t[k + 1]
      <3>1. \A k \in 1 .. Len(Tail(t)) : Tail(t)[k] = t[k + 1]  BY <1>3, <1>6, HeadTailProperties
      <3> QED  BY <3>1, <2>1
    <2>3. \A k \in 1 .. Len(s) : Tail(t)[k] = s[k]  BY <2>2, <1>5
    <2> QED  BY <2>1, <2>3, SeqEqual
  <1> QED  BY <1>3, <1>6, <1>8, <1>9, <1>10, <1>11 DEF t

\* Inserting a node adds it to the nodes the bins list.
LEMMA InsertLinks ==
    ASSUME NEW a, NEW U, Mid(a, U), a.freeList # <<>>, Head(a.freeList) \notin U,
           NEW size \in 1 .. StorageSize, NEW offset \in Nat
    PROVE  Mid(insertNodeIntoBin(a, size, offset), U \cup {Head(a.freeList)})
  <1> DEFINE r == insertNodeIntoBin(a, size, offset)
             i == Head(a.freeList)
             b == uintToFloatRoundDown(size)
             t == a.bins[b]
             V == U \cup {i}
  <1>0. a \in AllocRec /\ Stack(a) /\ BinLinks(a, U) /\ i \notin U  BY DEF Mid
  <1>1. /\ i \in Node /\ b \in Bin /\ r \in AllocRec
        /\ \A k \in Node \ {i} : /\ SameRegion(r.nodes[k], a.nodes[k])
                                 /\ r.nodes[k].binNext = a.nodes[k].binNext
                                 /\ r.nodes[k].binPrev = IF k = t THEN i ELSE a.nodes[k].binPrev
        /\ r.nodes[i].size = size /\ r.nodes[i].binNext = t /\ (t # i => r.nodes[i].binPrev = None)
        /\ r.bins = [a.bins EXCEPT ![b] = i]
        /\ r.usedBins = a.usedBins \cup {b}
        /\ r.usedTops = a.usedTops \cup {TopOf(b)}
        /\ r.freeList = Tail(a.freeList) /\ r.capacity = a.capacity
    <2>1. Inserted(a, r, size, offset)  BY <1>0, InsertFields
    <2> HIDE DEF r
    <2> QED  BY <2>1 DEF Inserted
  <1> HIDE DEF r, i, b
  <1>2. a.bins \in [Bin -> Link] /\ U \subseteq Node /\ i # None /\ None \notin Node
    BY <1>0, <1>1, LinkFacts DEF AllocRec, BinLinks
  <1>3. r.bins[b] = i /\ \A c \in Bin \ {b} : r.bins[c] = a.bins[c]  BY <1>1, <1>2
  <1>4. t # i /\ r.nodes[i].binPrev = None
    <2>1. t # None => t \in U  BY <1>0, <1>1 DEF BinLinks
    <2> QED  BY <2>1, <1>0, <1>1, <1>2
  <1>5. \A k \in U : /\ k # i /\ r.nodes[k].size = a.nodes[k].size
                     /\ r.nodes[k].binNext = a.nodes[k].binNext
                     /\ r.nodes[k].binPrev = IF k = t THEN i ELSE a.nodes[k].binPrev
    BY <1>0, <1>1, <1>2 DEF SameRegion
  <1>6. Stack(r)
    <2>1. a.freeList \in Seq(Node) /\ \A j, k \in DOMAIN a.freeList : a.freeList[j] = a.freeList[k] => j = k
      BY <1>0 DEF Stack, AllocRec
    <2>2. /\ Elems(Tail(a.freeList)) = Elems(a.freeList) \ {Head(a.freeList)}
          /\ \A j, k \in DOMAIN Tail(a.freeList) : Tail(a.freeList)[j] = Tail(a.freeList)[k] => j = k
      BY <2>1, PopStack
    <2> QED  BY <2>2, <1>0, <1>1 DEF Stack
  <1>7. V \subseteq Node  BY <1>1, <1>2
  <1>8. r.usedBins = {c \in Bin : r.bins[c] # None}
    <2>1. a.usedBins = {c \in Bin : a.bins[c] # None}  BY <1>0 DEF BinLinks
    <2> QED  BY <2>1, <1>1, <1>2, <1>3
  <1>9. r.usedTops = {TopOf(c) : c \in r.usedBins}
    <2>1. a.usedTops = {TopOf(c) : c \in a.usedBins}  BY <1>0 DEF BinLinks
    <2> QED  BY <2>1, <1>1
  <1>10. ASSUME NEW c \in Bin, r.bins[c] # None
         PROVE  /\ r.bins[c] \in V /\ r.nodes[r.bins[c]].binPrev = None
                /\ uintToFloatRoundDown(r.nodes[r.bins[c]].size) = c
    <2>1. CASE c = b  BY <2>1, <1>1, <1>3, <1>4 DEF b
    <2>2. CASE c # b
      <3>1. r.bins[c] = a.bins[c]  BY <2>2, <1>3
      <3>2. /\ a.bins[c] \in U /\ a.nodes[a.bins[c]].binPrev = None
            /\ uintToFloatRoundDown(a.nodes[a.bins[c]].size) = c
        BY <3>1, <1>0, <1>10 DEF BinLinks
      <3>3. a.bins[c] # t
        <4>1. t # None => uintToFloatRoundDown(a.nodes[t].size) = b  BY <1>0, <1>1 DEF BinLinks
        <4> QED  BY <4>1, <3>1, <3>2, <2>2, <1>10
      <3> QED  BY <3>1, <3>2, <3>3, <1>5
    <2> QED  BY <2>1, <2>2
  <1>11. ASSUME NEW k \in U
         PROVE  /\ r.nodes[k].size \in 1 .. StorageSize
                /\ r.nodes[k].binPrev = None => r.bins[uintToFloatRoundDown(r.nodes[k].size)] = k
                /\ r.nodes[k].binPrev # None => /\ r.nodes[k].binPrev \in V
                                                /\ r.nodes[r.nodes[k].binPrev].binNext = k
                /\ r.nodes[k].binNext # None =>
                     /\ r.nodes[k].binNext \in V
                     /\ r.nodes[r.nodes[k].binNext].binPrev = k
                     /\ uintToFloatRoundDown(r.nodes[r.nodes[k].binNext].size)
                          = uintToFloatRoundDown(r.nodes[k].size)
    <2>0. /\ a.nodes[k].size \in 1 .. StorageSize
          /\ a.nodes[k].binPrev = None => a.bins[uintToFloatRoundDown(a.nodes[k].size)] = k
          /\ a.nodes[k].binPrev # None => /\ a.nodes[k].binPrev \in U
                                          /\ a.nodes[a.nodes[k].binPrev].binNext = k
          /\ a.nodes[k].binNext # None =>
               /\ a.nodes[k].binNext \in U
               /\ a.nodes[a.nodes[k].binNext].binPrev = k
               /\ uintToFloatRoundDown(a.nodes[a.nodes[k].binNext].size)
                    = uintToFloatRoundDown(a.nodes[k].size)
      BY <1>0 DEF BinLinks
    <2>1. r.nodes[k].size = a.nodes[k].size  BY <1>5
    <2>2. uintToFloatRoundDown(a.nodes[k].size) \in Bin  BY <2>0, BinOf
    <2>3. k = t => /\ r.nodes[k].binPrev # None /\ r.nodes[k].binPrev \in V
                   /\ r.nodes[r.nodes[k].binPrev].binNext = k
      BY <1>1, <1>2, <1>5
    <2>4. k # t => /\ r.nodes[k].binPrev = None => r.bins[uintToFloatRoundDown(r.nodes[k].size)] = k
                   /\ r.nodes[k].binPrev # None => /\ r.nodes[k].binPrev \in V
                                                   /\ r.nodes[r.nodes[k].binPrev].binNext = k
      <3> SUFFICES ASSUME k # t
                   PROVE /\ r.nodes[k].binPrev = None => r.bins[uintToFloatRoundDown(r.nodes[k].size)] = k
                         /\ r.nodes[k].binPrev # None => /\ r.nodes[k].binPrev \in V
                                                         /\ r.nodes[r.nodes[k].binPrev].binNext = k
        OBVIOUS
      <3>1. r.nodes[k].binPrev = a.nodes[k].binPrev  BY <1>5
      <3>2. ASSUME a.nodes[k].binPrev = None PROVE r.bins[uintToFloatRoundDown(r.nodes[k].size)] = k
        <4>1. a.bins[uintToFloatRoundDown(a.nodes[k].size)] = k  BY <3>2, <2>0
        <4>2. uintToFloatRoundDown(a.nodes[k].size) # b  BY <4>1
        <4> QED  BY <4>1, <4>2, <2>1, <2>2, <1>3
      <3>3. ASSUME a.nodes[k].binPrev # None
            PROVE  r.nodes[k].binPrev \in V /\ r.nodes[r.nodes[k].binPrev].binNext = k
        BY <3>1, <3>3, <2>0, <1>5
      <3> QED  BY <3>1, <3>2, <3>3
    <2>5. ASSUME r.nodes[k].binNext # None
          PROVE  /\ r.nodes[k].binNext \in V
                 /\ r.nodes[r.nodes[k].binNext].binPrev = k
                 /\ uintToFloatRoundDown(r.nodes[r.nodes[k].binNext].size)
                      = uintToFloatRoundDown(r.nodes[k].size)
      <3> DEFINE n == a.nodes[k].binNext
      <3>1. r.nodes[k].binNext = n /\ n # None  BY <2>5, <1>5
      <3> HIDE DEF n
      <3>2. /\ n \in U /\ a.nodes[n].binPrev = k
            /\ uintToFloatRoundDown(a.nodes[n].size) = uintToFloatRoundDown(a.nodes[k].size)
        BY <3>1, <2>0 DEF n
      <3>3. n # t
        <4>1. t # None => a.nodes[t].binPrev = None  BY <1>0, <1>1 DEF BinLinks
        <4>2. k # None  BY <1>2
        <4> QED  BY <4>1, <4>2, <3>1, <3>2
      <3> QED  BY <3>1, <3>2, <3>3, <2>1, <1>5
    <2> QED  BY <2>0, <2>1, <2>3, <2>4, <2>5
  <1>12. /\ r.nodes[i].size \in 1 .. StorageSize
         /\ r.nodes[i].binPrev = None => r.bins[uintToFloatRoundDown(r.nodes[i].size)] = i
         /\ r.nodes[i].binPrev # None => /\ r.nodes[i].binPrev \in V
                                         /\ r.nodes[r.nodes[i].binPrev].binNext = i
         /\ r.nodes[i].binNext # None =>
              /\ r.nodes[i].binNext \in V
              /\ r.nodes[r.nodes[i].binNext].binPrev = i
              /\ uintToFloatRoundDown(r.nodes[r.nodes[i].binNext].size)
                   = uintToFloatRoundDown(r.nodes[i].size)
    <2>1. t # None => t \in U /\ uintToFloatRoundDown(a.nodes[t].size) = b
      BY <1>0, <1>1 DEF BinLinks
    <2>2. uintToFloatRoundDown(r.nodes[i].size) = b  BY <1>1 DEF b
    <2> QED  BY <2>1, <2>2, <1>1, <1>3, <1>4, <1>5
  <1>13. BinLinks(r, V)  BY <1>7, <1>8, <1>9, <1>10, <1>11, <1>12 DEF BinLinks
  <1>14. Mid(r, V)  BY <1>1, <1>6, <1>13 DEF Mid
  <1> QED  BY <1>14 DEF r, i

\* Node i of the nodes the bins list in a is in the list of no bin of r.
Unlinked(a, r, U, i) ==
    LET p == a.nodes[i].binPrev
        n == a.nodes[i].binNext
        b == uintToFloatRoundDown(a.nodes[i].size)
    IN  /\ \A c \in Bin : r.bins[c] = IF c = b /\ p = None THEN n ELSE a.bins[c]
        /\ \A k \in U \ {i} :
              /\ r.nodes[k].size = a.nodes[k].size
              /\ r.nodes[k].binNext = IF k = p THEN n ELSE a.nodes[k].binNext
              /\ r.nodes[k].binPrev = IF k = n THEN p ELSE a.nodes[k].binPrev
        /\ r.usedBins = {c \in Bin : r.bins[c] # None}
        /\ r.usedTops = {TopOf(c) : c \in r.usedBins}

\* The links of the bins without node i.
LEMMA UnlinkLinks ==
    ASSUME NEW a, NEW r, NEW U, BinLinks(a, U), NEW i \in U, Unlinked(a, r, U, i)
    PROVE  BinLinks(r, U \ {i})
  <1> DEFINE p == a.nodes[i].binPrev
             n == a.nodes[i].binNext
             b == uintToFloatRoundDown(a.nodes[i].size)
             W == U \ {i}
             R(x) == uintToFloatRoundDown(a.nodes[x].size)
  <1>0. U \subseteq Node /\ None \notin U  BY LinkFacts DEF BinLinks
  <1>1. \A c \in Bin : a.bins[c] # None => /\ a.bins[c] \in U
                                           /\ a.nodes[a.bins[c]].binPrev = None
                                           /\ R(a.bins[c]) = c
    BY DEF BinLinks
  <1>2. \A x \in U :
         /\ a.nodes[x].size \in 1 .. StorageSize
         /\ R(x) \in Bin
         /\ a.nodes[x].binPrev = None => a.bins[R(x)] = x
         /\ a.nodes[x].binPrev # None => /\ a.nodes[x].binPrev \in U
                                         /\ a.nodes[a.nodes[x].binPrev].binNext = x
         /\ a.nodes[x].binNext # None => /\ a.nodes[x].binNext \in U
                                         /\ a.nodes[a.nodes[x].binNext].binPrev = x
                                         /\ R(a.nodes[x].binNext) = R(x)
    BY BinOf DEF BinLinks
  <1>3. /\ \A c \in Bin : r.bins[c] = IF c = b /\ p = None THEN n ELSE a.bins[c]
        /\ \A k \in W :
              /\ r.nodes[k].size = a.nodes[k].size
              /\ r.nodes[k].binNext = IF k = p THEN n ELSE a.nodes[k].binNext
              /\ r.nodes[k].binPrev = IF k = n THEN p ELSE a.nodes[k].binPrev
    BY DEF Unlinked
  <1>4. /\ b = R(i) /\ b \in Bin
        /\ p = None => a.bins[b] = i
        /\ p # None => p \in U /\ a.nodes[p].binNext = i /\ R(p) = b
        /\ n # None => n \in U /\ a.nodes[n].binPrev = i /\ R(n) = b
    <2>1. p # None => p \in U /\ a.nodes[p].binNext = i  BY <1>2
    <2>2. p # None => R(p) = b
      <3>1. p # None => a.nodes[p].binNext # None  BY <2>1, <1>0
      <3>2. p # None => R(a.nodes[p].binNext) = R(p)  BY <3>1, <2>1, <1>2
      <3> QED  BY <3>2, <2>1
    <2> QED  BY <2>1, <2>2, <1>2
  <1>5. i # None  BY <1>0
  <1> HIDE DEF R, p, n, b
  <1>6. ASSUME NEW c \in Bin, r.bins[c] # None
        PROVE  r.bins[c] \in W /\ r.nodes[r.bins[c]].binPrev = None /\ R(r.bins[c]) = c
    <2>1. CASE c = b /\ p = None
      <3>1. r.bins[c] = n /\ n # None  BY <2>1, <1>3, <1>6
      <3>2. n \in U /\ a.nodes[n].binPrev = i /\ R(n) = b  BY <3>1, <1>4
      <3>3. n # i  BY <3>2, <2>1, <1>5 DEF p
      <3> QED  BY <3>1, <3>2, <3>3, <2>1, <1>3
    <2>2. CASE ~(c = b /\ p = None)
      <3>1. r.bins[c] = a.bins[c] /\ a.bins[c] # None  BY <2>2, <1>3, <1>6
      <3>2. a.bins[c] \in U /\ a.nodes[a.bins[c]].binPrev = None /\ R(a.bins[c]) = c  BY <3>1, <1>1
      <3>3. a.bins[c] # i  BY <3>2, <2>2, <1>4 DEF p
      <3>4. a.bins[c] # n  BY <3>1, <3>2, <1>4, <1>5
      <3> QED  BY <3>1, <3>2, <3>3, <3>4, <1>3
    <2> QED  BY <2>1, <2>2
  <1>7. ASSUME NEW k \in W
        PROVE  /\ r.nodes[k].binPrev = None => r.bins[R(k)] = k
               /\ r.nodes[k].binPrev # None => /\ r.nodes[k].binPrev \in W
                                               /\ r.nodes[r.nodes[k].binPrev].binNext = k
    <2>1. CASE k = n
      <3>0. r.nodes[k].binPrev = p /\ n # None  BY <2>1, <1>0, <1>3
      <3>1. p = None => r.bins[R(k)] = k  BY <3>0, <2>1, <1>3, <1>4
      <3>2. p # None => p # i /\ p \in W
        <4>1. p # None /\ p = i => n = i  BY <1>4 DEF n
        <4> QED  BY <4>1, <2>1, <1>4
      <3>3. p # None => r.nodes[p].binNext = k  BY <3>2, <2>1, <1>3
      <3> QED  BY <3>0, <3>1, <3>2, <3>3
    <2>2. CASE k # n
      <3> DEFINE q == a.nodes[k].binPrev
      <3>0. r.nodes[k].binPrev = q  BY <2>2, <1>3
      <3>1. ASSUME q = None PROVE r.bins[R(k)] = k
        <4>1. a.bins[R(k)] = k /\ R(k) \in Bin  BY <3>1, <1>2
        <4>2. ~(R(k) = b /\ p = None)  BY <4>1, <1>4
        <4> QED  BY <4>1, <4>2, <1>3
      <3>2. ASSUME q # None PROVE q \in W /\ r.nodes[q].binNext = k
        <4>1. q \in U /\ a.nodes[q].binNext = k  BY <3>2, <1>2
        <4>2. q # i  BY <4>1, <2>2 DEF n
        <4>3. q # p  BY <4>1, <3>2, <1>4
        <4> QED  BY <4>1, <4>2, <4>3, <1>3
      <3> QED  BY <3>0, <3>1, <3>2
    <2> QED  BY <2>1, <2>2
  <1>8. ASSUME NEW k \in W, r.nodes[k].binNext # None
        PROVE  /\ r.nodes[k].binNext \in W /\ r.nodes[r.nodes[k].binNext].binPrev = k
               /\ R(r.nodes[k].binNext) = R(k)
    <2>1. CASE k = p
      <3>0. r.nodes[k].binNext = n /\ n # None /\ p # None  BY <2>1, <1>0, <1>3, <1>8
      <3>1. n \in U /\ n # i
        <4>1. n = i => p = i  BY <3>0, <1>4 DEF p
        <4> QED  BY <4>1, <3>0, <2>1, <1>4
      <3> QED  BY <3>0, <3>1, <2>1, <1>3, <1>4
    <2>2. CASE k # p
      <3> DEFINE m == a.nodes[k].binNext
      <3>0. r.nodes[k].binNext = m /\ m # None  BY <2>2, <1>3, <1>8
      <3>1. m \in U /\ a.nodes[m].binPrev = k /\ R(m) = R(k)  BY <3>0, <1>2
      <3>2. m # i  BY <3>1, <2>2 DEF p
      <3>3. m # n  BY <3>0, <3>1, <1>4
      <3> HIDE DEF m
      <3> QED  BY <3>0, <3>1, <3>2, <3>3, <1>3
    <2> QED  BY <2>1, <2>2
  <1>9. \A k \in W : r.nodes[k].size = a.nodes[k].size /\ r.nodes[k].size \in 1 .. StorageSize
                     /\ uintToFloatRoundDown(r.nodes[k].size) = R(k)
    BY <1>2, <1>3 DEF R
  <1>10. r.usedBins = {c \in Bin : r.bins[c] # None} /\ r.usedTops = {TopOf(c) : c \in r.usedBins}
    BY DEF Unlinked
  <1>11. W \subseteq Node  BY <1>0
  <1>12. \A c \in Bin : r.bins[c] # None => /\ r.bins[c] \in W
                                            /\ r.nodes[r.bins[c]].binPrev = None
                                            /\ uintToFloatRoundDown(r.nodes[r.bins[c]].size) = c
    BY <1>6, <1>9
  <1>13. ASSUME NEW k \in W
         PROVE  /\ r.nodes[k].size \in 1 .. StorageSize
                /\ r.nodes[k].binPrev = None => r.bins[uintToFloatRoundDown(r.nodes[k].size)] = k
                /\ r.nodes[k].binPrev # None => /\ r.nodes[k].binPrev \in W
                                                /\ r.nodes[r.nodes[k].binPrev].binNext = k
                /\ r.nodes[k].binNext # None =>
                     /\ r.nodes[k].binNext \in W
                     /\ r.nodes[r.nodes[k].binNext].binPrev = k
                     /\ uintToFloatRoundDown(r.nodes[r.nodes[k].binNext].size)
                          = uintToFloatRoundDown(r.nodes[k].size)
    BY <1>7, <1>8, <1>9
  <1> HIDE DEF W
  <1>14. BinLinks(r, W)  BY <1>10, <1>11, <1>12, <1>13 DEF BinLinks
  <1> QED  BY <1>14 DEF W

\* The allocator r is a without node i at the top of its bin.
Popped(a, r, i) ==
    /\ r \in AllocRec
    /\ \A k \in Node : SameRegion(r.nodes[k], a.nodes[k])
    /\ r.freeList = a.freeList /\ r.capacity = a.capacity
    /\ r.freeStorage = a.freeStorage - a.nodes[i].size

\* Taking the first node of a bin.
LEMMA PopLinks ==
    ASSUME NEW a, NEW U, Mid(a, U), NEW b \in Bin, a.bins[b] # None
    PROVE  /\ Popped(a, PopBin(a, b), a.bins[b])
           /\ Mid(PopBin(a, b), U \ {a.bins[b]})
  <1> DEFINE r == PopBin(a, b)
             i == a.bins[b]
             n == a.nodes[i].binNext
             N == BinNeighbours(a.nodes, None, n)
             B == [a.bins EXCEPT ![b] = n]
             UB == IF n = None THEN a.usedBins \ {b} ELSE a.usedBins
             UT == IF \E c \in UB : TopOf(c) = TopOf(b) THEN a.usedTops
                   ELSE a.usedTops \ {TopOf(b)}
             S == a.freeStorage - a.nodes[i].size
  <1>0. a \in AllocRec /\ Stack(a) /\ BinLinks(a, U)  BY DEF Mid
  <1>1. i \in U /\ i \in Node /\ a.nodes[i].binPrev = None
        /\ uintToFloatRoundDown(a.nodes[i].size) = b /\ i # None
    BY <1>0, LinkFacts DEF BinLinks
  <1>2. n \in Link /\ None \in Link /\ a.nodes \in [Node -> NodeRec] /\ a.bins \in [Bin -> Link]
        /\ a.nodes[i].size \in Nat /\ a.freeStorage \in Int
    BY <1>0, <1>1, LinkFacts DEF AllocRec, NodeRec
  <1> HIDE DEF i, n
  <1>3. /\ N \in [Node -> NodeRec]
        /\ \A k \in Node : /\ SameRegion(N[k], a.nodes[k])
                           /\ N[k].binNext = IF k = None THEN n ELSE a.nodes[k].binNext
                           /\ N[k].binPrev = IF k = n THEN None ELSE a.nodes[k].binPrev
    BY <1>2, BinNeighboursOk
  <1> HIDE DEF N
  <1>4. B \in [Bin -> Link] /\ UB \in SUBSET Bin /\ UT \in SUBSET Nat /\ S \in Int
    <2>1. a.usedBins \in SUBSET Bin /\ a.usedTops \in SUBSET Nat  BY <1>0 DEF AllocRec
    <2> QED  BY <2>1, <1>2
  <1>5. r = [nodes |-> N, bins |-> B, usedBins |-> UB, usedTops |-> UT, capacity |-> a.capacity,
             freeList |-> a.freeList, freeStorage |-> S]
    <2>1. a = [nodes |-> a.nodes, bins |-> a.bins, usedBins |-> a.usedBins, usedTops |-> a.usedTops,
               capacity |-> a.capacity, freeList |-> a.freeList, freeStorage |-> a.freeStorage]
      BY <1>0 DEF AllocRec
    <2>2. r = [a EXCEPT !.nodes = N, !.bins = B, !.usedBins = UB, !.usedTops = UT,
                        !.freeStorage = S]
      BY DEF PopBin, N, n, i
    <2> HIDE DEF r, B, UB, UT, S
    <2> QED  BY <2>1, <2>2
  <1> HIDE DEF r
  <1>6. r.nodes = N /\ r.bins = B /\ r.usedBins = UB /\ r.usedTops = UT /\ r.capacity = a.capacity
        /\ r.freeList = a.freeList /\ r.freeStorage = S
    BY <1>5
  <1>7. r \in AllocRec
    <2>1. a.capacity \in InitCapacity .. MaxCapacity /\ a.freeList \in Seq(Node)
      BY <1>0 DEF AllocRec
    <2> HIDE DEF B, UB, UT, S
    <2> QED  BY <2>1, <1>3, <1>4, <1>5 DEF AllocRec
  <1>8. Popped(a, r, i)  BY <1>3, <1>6, <1>7 DEF Popped
  <1>9. Stack(r)  BY <1>0, <1>6 DEF Stack
  <1>10. r.usedBins = {c \in Bin : r.bins[c] # None}
    <2>1. a.usedBins = {c \in Bin : a.bins[c] # None}  BY <1>0 DEF BinLinks
    <2>2. r.bins[b] = n /\ \A c \in Bin \ {b} : r.bins[c] = a.bins[c]  BY <1>2, <1>6
    <2>3. b \in a.usedBins  BY <2>1, <1>1 DEF i
    <2>4. CASE n = None  BY <2>1, <2>2, <2>4, <1>6
    <2>5. CASE n # None  BY <2>1, <2>2, <2>3, <2>5, <1>6
    <2> QED  BY <2>4, <2>5
  <1>11. r.usedTops = {TopOf(c) : c \in r.usedBins}
    <2>1. a.usedTops = {TopOf(c) : c \in a.usedBins} /\ a.usedBins = {c \in Bin : a.bins[c] # None}
      BY <1>0 DEF BinLinks
    <2>2. UB \subseteq a.usedBins /\ a.usedBins \subseteq UB \cup {b}  OBVIOUS
    <2>3. b \in a.usedBins  BY <2>1, <1>1 DEF i
    <2> HIDE DEF UB
    <2>4. UT = {TopOf(c) : c \in UB}
      <3>1. CASE \E c \in UB : TopOf(c) = TopOf(b)
        <4>1. UT = a.usedTops  BY <3>1
        <4> QED  BY <4>1, <3>1, <2>1, <2>2
      <3>2. CASE ~\E c \in UB : TopOf(c) = TopOf(b)
        <4>1. UT = a.usedTops \ {TopOf(b)}  BY <3>2
        <4> QED  BY <4>1, <3>2, <2>1, <2>2
      <3> QED  BY <3>1, <3>2
    <2> HIDE DEF UT
    <2> QED  BY <2>4, <1>6
  <1>12. \A c \in Bin : r.bins[c] = IF c = b THEN n ELSE a.bins[c]  BY <1>2, <1>6
  <1>13. \A k \in U \ {i} : /\ r.nodes[k].size = a.nodes[k].size
                            /\ r.nodes[k].binNext = IF k = None THEN n ELSE a.nodes[k].binNext
                            /\ r.nodes[k].binPrev = IF k = n THEN None ELSE a.nodes[k].binPrev
    <2>1. U \subseteq Node  BY <1>0 DEF BinLinks
    <2> QED  BY <2>1, <1>3, <1>6 DEF SameRegion
  <1>14. Unlinked(a, r, U, i)
    BY <1>1, <1>10, <1>11, <1>12, <1>13 DEF Unlinked, n
  <1>15. BinLinks(r, U \ {i})  BY <1>0, <1>1, <1>14, UnlinkLinks
  <1>16. Mid(r, U \ {i})  BY <1>7, <1>9, <1>15 DEF Mid
  <1> QED  BY <1>8, <1>16 DEF r, i

\* Nodes that keep their size and place in the lists of the bins can change
\* otherwise.
LEMMA SetNodes ==
    ASSUME NEW a, NEW U, Mid(a, U), NEW N \in [Node -> NodeRec],
           \A k \in U : /\ N[k].size = a.nodes[k].size
                        /\ N[k].binNext = a.nodes[k].binNext /\ N[k].binPrev = a.nodes[k].binPrev
    PROVE  LET r == [a EXCEPT !.nodes = N]
           IN  /\ Mid(r, U) /\ r.nodes = N /\ r.bins = a.bins /\ r.freeList = a.freeList
               /\ r.capacity = a.capacity /\ r.freeStorage = a.freeStorage
  <1> DEFINE r == [a EXCEPT !.nodes = N]
  <1>0. a \in AllocRec /\ Stack(a) /\ BinLinks(a, U)  BY DEF Mid
  <1>1. /\ r \in AllocRec /\ r.nodes = N /\ r.bins = a.bins /\ r.freeList = a.freeList
        /\ r.capacity = a.capacity /\ r.freeStorage = a.freeStorage
        /\ r.usedBins = a.usedBins /\ r.usedTops = a.usedTops
    BY <1>0 DEF AllocRec
  <1> HIDE DEF r
  <1>2. Stack(r)  BY <1>0, <1>1 DEF Stack
  <1>3. BinLinks(r, U)
    <2>1. U \subseteq Node /\ r.usedBins = {b \in Bin : r.bins[b] # None}
          /\ r.usedTops = {TopOf(b) : b \in r.usedBins}
      BY <1>0, <1>1 DEF BinLinks
    <2>2. \A b \in Bin : r.bins[b] # None => /\ r.bins[b] \in U
                                             /\ r.nodes[r.bins[b]].binPrev = None
                                             /\ uintToFloatRoundDown(r.nodes[r.bins[b]].size) = b
      BY <1>0, <1>1 DEF BinLinks
    <2>3. ASSUME NEW i \in U
          PROVE  /\ r.nodes[i].size \in 1 .. StorageSize
                 /\ r.nodes[i].binPrev = None => r.bins[uintToFloatRoundDown(r.nodes[i].size)] = i
                 /\ r.nodes[i].binPrev # None => /\ r.nodes[i].binPrev \in U
                                                 /\ r.nodes[r.nodes[i].binPrev].binNext = i
                 /\ r.nodes[i].binNext # None =>
                      /\ r.nodes[i].binNext \in U
                      /\ r.nodes[r.nodes[i].binNext].binPrev = i
                      /\ uintToFloatRoundDown(r.nodes[r.nodes[i].binNext].size)
                           = uintToFloatRoundDown(r.nodes[i].size)
      BY <1>0, <1>1 DEF BinLinks
    <2> QED  BY <2>1, <2>2, <2>3 DEF BinLinks
  <1>4. Mid(r, U)  BY <1>1, <1>2, <1>3 DEF Mid
  <1> QED  BY <1>1, <1>4 DEF r

\* The allocator r is a with another free list and capacity.
Restacked(a, r, U, s, c) ==
    /\ Mid(r, U) /\ r.nodes = a.nodes /\ r.bins = a.bins /\ r.freeList = s
    /\ r.capacity = c /\ r.freeStorage = a.freeStorage
    /\ r.usedBins = a.usedBins /\ r.usedTops = a.usedTops

\* The free list and the capacity do not matter to the bins.
LEMMA SetStack ==
    ASSUME NEW a, NEW U, Mid(a, U), NEW s \in Seq(Node),
           \A j, k \in DOMAIN s : s[j] = s[k] => j = k,
           NEW c \in InitCapacity .. MaxCapacity, Elems(s) \subseteq 0 .. c - 1
    PROVE  Restacked(a, [a EXCEPT !.freeList = s, !.capacity = c], U, s, c)
  <1> DEFINE r == [a EXCEPT !.freeList = s, !.capacity = c]
  <1>0. a \in AllocRec /\ Stack(a) /\ BinLinks(a, U)  BY DEF Mid
  <1>1. /\ r \in AllocRec /\ r.nodes = a.nodes /\ r.bins = a.bins /\ r.freeList = s
        /\ r.capacity = c /\ r.freeStorage = a.freeStorage
        /\ r.usedBins = a.usedBins /\ r.usedTops = a.usedTops
    BY <1>0 DEF AllocRec
  <1> HIDE DEF r
  <1>2. Stack(r)  BY <1>1 DEF Stack
  <1>3. BinLinks(r, U)
    <2>1. BinLinks(a, U)  BY <1>0
    <2> QED  BY <2>1, <1>1 DEF BinLinks
  <1>4. Mid(r, U)  BY <1>1, <1>2, <1>3 DEF Mid
  <1>5. Restacked(a, r, U, s, c)  BY <1>1, <1>4 DEF Restacked
  <1> QED  BY <1>5 DEF r

\* A node goes back to the free list.
LEMMA PushNode ==
    ASSUME NEW a, NEW U, Mid(a, U), NEW i \in 0 .. a.capacity - 1, i \notin Elems(a.freeList)
    PROVE  LET r == [a EXCEPT !.freeList = <<i>> \o @]
           IN  /\ Mid(r, U) /\ r.nodes = a.nodes /\ r.freeList = <<i>> \o a.freeList
               /\ r.capacity = a.capacity /\ r.freeStorage = a.freeStorage
               /\ r.freeList # <<>> /\ Head(r.freeList) = i /\ Tail(r.freeList) = a.freeList
               /\ Elems(r.freeList) = Elems(a.freeList) \cup {i}
  <1> DEFINE s == <<i>> \o a.freeList
             r == [a EXCEPT !.freeList = s]
             x == [a EXCEPT !.freeList = s, !.capacity = a.capacity]
  <1>0. a \in AllocRec /\ Stack(a)  BY DEF Mid
  <1>1. /\ a.freeList \in Seq(Node) /\ i \in Node
        /\ \A j, k \in DOMAIN a.freeList : a.freeList[j] = a.freeList[k] => j = k
        /\ a.capacity \in InitCapacity .. MaxCapacity /\ Elems(a.freeList) \subseteq 0 .. a.capacity - 1
    BY <1>0, AllocatorAssumption DEF AllocRec, Stack, Node
  <1>2. /\ s \in Seq(Node) /\ s # <<>> /\ Head(s) = i /\ Tail(s) = a.freeList
        /\ Elems(s) = Elems(a.freeList) \cup {i}
        /\ \A j, k \in DOMAIN s : s[j] = s[k] => j = k
    BY <1>1, PushStack
  <1> HIDE DEF s
  <1>3. Elems(s) \subseteq 0 .. a.capacity - 1  BY <1>1, <1>2
  <1>4. /\ Mid(x, U) /\ x.nodes = a.nodes /\ x.freeList = s
        /\ x.capacity = a.capacity /\ x.freeStorage = a.freeStorage
    <2>1. Restacked(a, x, U, s, a.capacity)  BY <1>1, <1>2, <1>3, SetStack
    <2> HIDE DEF x
    <2> QED  BY <2>1 DEF Restacked
  <1>5. r = x  BY <1>0 DEF AllocRec
  <1> HIDE DEF r, x
  <1>6. /\ Mid(r, U) /\ r.nodes = a.nodes /\ r.freeList = s /\ r.capacity = a.capacity
        /\ r.freeStorage = a.freeStorage
    BY <1>4, <1>5
  <1> QED  BY <1>2, <1>6 DEF r, s

\* The allocator r is a without node i, which is on the free list.
Removed(a, r, i) ==
    /\ \A k \in Node \ {i} : SameRegion(r.nodes[k], a.nodes[k])
    /\ r.freeList = <<i>> \o a.freeList /\ r.capacity = a.capacity
    /\ Elems(r.freeList) = Elems(a.freeList) \cup {i}
    /\ r.freeStorage = a.freeStorage - a.nodes[i].size

\* A node leaves the middle of the list of its bin.
LEMMA SkipLinks ==
    ASSUME NEW a, NEW U, Mid(a, U), NEW i \in U, a.nodes[i].binPrev # None
    PROVE  LET r == [a EXCEPT !.nodes = BinNeighbours(@, a.nodes[i].binPrev, a.nodes[i].binNext),
                              !.freeStorage = @ - a.nodes[i].size]
           IN  Popped(a, r, i) /\ Mid(r, U \ {i})
  <1> DEFINE p == a.nodes[i].binPrev
             n == a.nodes[i].binNext
             N == BinNeighbours(a.nodes, p, n)
             S == a.freeStorage - a.nodes[i].size
             r == [a EXCEPT !.nodes = N, !.freeStorage = S]
  <1>0. a \in AllocRec /\ Stack(a) /\ BinLinks(a, U)  BY DEF Mid
  <1>1. i \in Node /\ U \subseteq Node /\ a.nodes[i] \in NodeRec  BY <1>0 DEF BinLinks, AllocRec
  <1>2. n \in Link /\ p \in Link /\ a.nodes \in [Node -> NodeRec] /\ S \in Int
    BY <1>0, <1>1 DEF AllocRec, NodeRec
  <1> HIDE DEF p, n
  <1>3. /\ N \in [Node -> NodeRec]
        /\ \A k \in Node : /\ SameRegion(N[k], a.nodes[k])
                           /\ N[k].binNext = IF k = p THEN n ELSE a.nodes[k].binNext
                           /\ N[k].binPrev = IF k = n THEN p ELSE a.nodes[k].binPrev
    BY <1>2, BinNeighboursOk
  <1> HIDE DEF N
  <1>4. r = [nodes |-> N, bins |-> a.bins, usedBins |-> a.usedBins, usedTops |-> a.usedTops,
             capacity |-> a.capacity, freeList |-> a.freeList, freeStorage |-> S]
    <2>1. a = [nodes |-> a.nodes, bins |-> a.bins, usedBins |-> a.usedBins, usedTops |-> a.usedTops,
               capacity |-> a.capacity, freeList |-> a.freeList, freeStorage |-> a.freeStorage]
      BY <1>0 DEF AllocRec
    <2>2. r = [a EXCEPT !.nodes = N, !.freeStorage = S]  OBVIOUS
    <2> HIDE DEF S, r
    <2> QED  BY <2>1, <2>2
  <1> HIDE DEF r
  <1>5. r.nodes = N /\ r.bins = a.bins /\ r.usedBins = a.usedBins /\ r.usedTops = a.usedTops
        /\ r.capacity = a.capacity /\ r.freeList = a.freeList /\ r.freeStorage = S
    BY <1>4
  <1>6. r \in AllocRec
    <2> HIDE DEF S
    <2> QED  BY <1>0, <1>2, <1>3, <1>4 DEF AllocRec
  <1>7. Popped(a, r, i)  BY <1>3, <1>5, <1>6 DEF Popped
  <1>8. Stack(r)  BY <1>0, <1>5 DEF Stack
  <1>9. Unlinked(a, r, U, i)
    <2>1. p # None  BY DEF p
    <2>2. r.usedBins = {c \in Bin : r.bins[c] # None} /\ r.usedTops = {TopOf(c) : c \in r.usedBins}
      BY <1>0, <1>5 DEF BinLinks
    <2>3. \A k \in U \ {i} : /\ r.nodes[k].size = a.nodes[k].size
                             /\ r.nodes[k].binNext = IF k = p THEN n ELSE a.nodes[k].binNext
                             /\ r.nodes[k].binPrev = IF k = n THEN p ELSE a.nodes[k].binPrev
      BY <1>1, <1>3, <1>5 DEF SameRegion
    <2> QED  BY <2>1, <2>2, <2>3, <1>5 DEF Unlinked, p, n
  <1>10. BinLinks(r, U \ {i})  BY <1>0, <1>9, UnlinkLinks
  <1>11. Mid(r, U \ {i})  BY <1>6, <1>8, <1>10 DEF Mid
  <1> QED  BY <1>7, <1>11 DEF r, N, S, p, n

\* Removing a node from its bin.
LEMMA RemoveLinks ==
    ASSUME NEW a, NEW U, Mid(a, U), NEW i \in U, i \notin Elems(a.freeList), i < a.capacity
    PROVE  Removed(a, removeNodeFromBin(a, i), i) /\ Mid(removeNodeFromBin(a, i), U \ {i})
  <1> DEFINE n == a.nodes[i]
             u == IF n.binPrev = None THEN PopBin(a, uintToFloatRoundDown(n.size))
                  ELSE [a EXCEPT !.nodes = BinNeighbours(@, n.binPrev, n.binNext),
                                 !.freeStorage = @ - n.size]
             x == [u EXCEPT !.freeList = <<i>> \o @]
             N == [x.nodes EXCEPT ![i] = NoNode]
             r == [x EXCEPT !.nodes = N]
             W == U \ {i}
  <1>0. a \in AllocRec /\ BinLinks(a, U) /\ i \in Node /\ i \in Nat  BY LinkFacts DEF Mid, BinLinks
  <1>1. Popped(a, u, i) /\ Mid(u, W)
    <2>1. CASE n.binPrev = None
      <3> DEFINE b == uintToFloatRoundDown(n.size)
      <3>1. b \in Bin /\ a.bins[b] = i /\ i # None
        BY <1>0, <2>1, BinOf, LinkFacts DEF BinLinks
      <3>2. Popped(a, PopBin(a, b), i) /\ Mid(PopBin(a, b), W)  BY <3>1, PopLinks
      <3> QED  BY <3>2, <2>1
    <2>2. CASE n.binPrev # None
      <3> DEFINE v == [a EXCEPT !.nodes = BinNeighbours(@, n.binPrev, n.binNext),
                                !.freeStorage = @ - n.size]
      <3>1. Popped(a, v, i) /\ Mid(v, W)  BY <2>2, SkipLinks
      <3>2. u = v  BY <2>2
      <3> HIDE DEF u, v
      <3> QED  BY <3>1, <3>2
    <2> QED  BY <2>1, <2>2
  <1>2. removeNodeFromBin(a, i) = r
    <2>1. removeNodeFromBin(a, i) = [u EXCEPT !.freeList = <<i>> \o @, !.nodes[i] = NoNode]
      BY DEF removeNodeFromBin
    <2> HIDE DEF u
    <2> QED  BY <2>1
  <1> HIDE DEF u
  <1>3. /\ \A k \in Node : SameRegion(u.nodes[k], a.nodes[k])
        /\ u.freeList = a.freeList /\ u.capacity = a.capacity
        /\ u.freeStorage = a.freeStorage - a.nodes[i].size
    BY <1>1 DEF Popped
  <1>4. a.capacity \in Nat /\ i \in 0 .. u.capacity - 1 /\ i \notin Elems(u.freeList)
    <2>1. a.capacity \in Nat  BY <1>0, AllocatorAssumption DEF AllocRec
    <2> QED  BY <2>1, <1>0, <1>3
  <1>5. /\ Mid(x, W) /\ x.nodes = u.nodes /\ x.freeList = <<i>> \o u.freeList
        /\ x.capacity = u.capacity /\ x.freeStorage = u.freeStorage
        /\ Elems(x.freeList) = Elems(u.freeList) \cup {i}
    BY <1>1, <1>4, PushNode
  <1> HIDE DEF x
  <1>6. NoNode \in NodeRec  BY LinkFacts DEF NoNode, NewNode, NodeRec
  <1>7. x.nodes \in [Node -> NodeRec]  BY <1>5 DEF Mid, AllocRec
  <1>8. N \in [Node -> NodeRec] /\ \A k \in Node \ {i} : N[k] = x.nodes[k]  BY <1>6, <1>7
  <1> HIDE DEF N
  <1>9. W \subseteq Node \ {i}  BY <1>0 DEF BinLinks
  <1>10. /\ Mid(r, W) /\ r.nodes = N /\ r.freeList = x.freeList
         /\ r.capacity = x.capacity /\ r.freeStorage = x.freeStorage
    BY <1>5, <1>8, <1>9, SetNodes
  <1> HIDE DEF r
  <1>11. Removed(a, r, i)
    BY <1>3, <1>5, <1>8, <1>10 DEF Removed
  <1> QED  BY <1>2, <1>10, <1>11

-----------------------------------------------------------------------------
(* The regions of the nodes.                                                *)

From(N, i) == N[i].offset
To(N, i) == N[i].offset + N[i].size
Apart(N, i, j) == To(N, i) <= From(N, j) \/ To(N, j) <= From(N, i)
Has(N, i, x) == From(N, i) <= x /\ x < To(N, i)

\* The regions of the nodes L are not empty, lie in the storage and apart.
Regions(N, L) ==
    /\ L \subseteq Node
    /\ \A i \in L : N[i].size >= 1 /\ To(N, i) <= StorageSize
    /\ \A i, j \in L : i # j => Apart(N, i, j)

\* The links to the neighbours.
Linked(N, L) ==
    \A i \in L :
      /\ N[i].prev = None => From(N, i) = 0
      /\ N[i].prev # None => N[i].prev \in L /\ N[N[i].prev].next = i
      /\ N[i].next = None => To(N, i) = StorageSize
      /\ N[i].next # None => /\ N[i].next \in L /\ N[N[i].next].prev = i
                             /\ To(N, i) = From(N, N[i].next)

\* Nothing of the storage is lost.
Covered(N, L) == \A x \in 0 .. StorageSize - 1 : \E i \in L : Has(N, i, x)

\* No two free neighbours.
Merged(N, L) == \A i \in L : ~N[i].used /\ N[i].next # None => N[N[i].next].used

Cut(N, L) == Regions(N, L) /\ Linked(N, L) /\ Covered(N, L) /\ Merged(N, L)

\* The numbers of a region.
LEMMA RegionType ==
    ASSUME NEW N \in [Node -> NodeRec], NEW i \in Node
    PROVE  /\ From(N, i) \in Nat /\ N[i].size \in Nat /\ To(N, i) \in Nat
           /\ To(N, i) = From(N, i) + N[i].size
           /\ N[i].used \in BOOLEAN /\ N[i].prev \in Link /\ N[i].next \in Link
  <1>1. N[i] \in NodeRec  OBVIOUS
  <1>2. N[i].offset \in Nat /\ N[i].size \in Nat  BY <1>1 DEF NodeRec
  <1>3. N[i].used \in BOOLEAN /\ N[i].prev \in Link /\ N[i].next \in Link  BY <1>1 DEF NodeRec
  <1> QED  BY <1>2, <1>3 DEF From, To

\* The node i of N is cut in two in K: it keeps size units, new is the rest.
Halved(N, K, L, i, new, size) ==
    /\ From(K, i) = From(N, i) /\ K[i].size = size /\ K[i].used
    /\ K[i].prev = N[i].prev /\ K[i].next = new
    /\ From(K, new) = From(N, i) + size /\ K[new].size = N[i].size - size /\ ~K[new].used
    /\ K[new].prev = i /\ K[new].next = N[i].next
    /\ \A k \in L \ {i} :
          /\ From(K, k) = From(N, k) /\ K[k].size = N[k].size /\ K[k].used = N[k].used
          /\ K[k].next = N[k].next
          /\ K[k].prev = IF k = N[i].next THEN new ELSE N[k].prev

\* Cutting a free node in two.
LEMMA HalvedCut ==
    ASSUME NEW N \in [Node -> NodeRec], NEW K \in [Node -> NodeRec], NEW L, Cut(N, L),
           NEW i \in L, ~N[i].used, NEW new \in Node \ L,
           NEW size \in Nat \ {0}, size < N[i].size, Halved(N, K, L, i, new, size)
    PROVE  Cut(K, L \cup {new})
  <1> DEFINE q == N[i].next
             M == L \cup {new}
  <1>0. /\ Regions(N, L) /\ Linked(N, L) /\ Covered(N, L) /\ Merged(N, L)
        /\ L \subseteq Node /\ i \in Node /\ new \notin L /\ StorageSize \in Nat
        /\ None \notin L /\ None # new
    BY LinkFacts, AllocatorAssumption DEF Cut, Regions
  <1>1. /\ \A k \in L : /\ From(N, k) \in Nat /\ N[k].size \in Nat /\ To(N, k) \in Nat
                        /\ To(N, k) = From(N, k) + N[k].size /\ N[k].size >= 1
                        /\ To(N, k) <= StorageSize
        /\ \A k \in M : /\ From(K, k) \in Nat /\ K[k].size \in Nat /\ To(K, k) \in Nat
                        /\ To(K, k) = From(K, k) + K[k].size
    BY <1>0, RegionType DEF Regions
  <1>2. /\ From(K, i) = From(N, i) /\ To(K, i) = From(N, i) + size /\ K[i].size = size
        /\ From(K, new) = From(N, i) + size /\ To(K, new) = To(N, i)
        /\ K[new].size = N[i].size - size
        /\ \A k \in L \ {i} : From(K, k) = From(N, k) /\ To(K, k) = To(N, k) /\ K[k].size = N[k].size
    BY <1>1 DEF Halved
  <1>3. /\ K[i].prev = N[i].prev /\ K[i].next = new /\ K[new].prev = i /\ K[new].next = q
        /\ \A k \in L \ {i} : /\ K[k].next = N[k].next
                              /\ K[k].prev = IF k = q THEN new ELSE N[k].prev
    BY DEF Halved
  <1>4. K[i].used /\ ~K[new].used /\ \A k \in L \ {i} : K[k].used = N[k].used
    BY DEF Halved
  <1>5. /\ q # i
        /\ q # None => q \in L /\ N[q].prev = i /\ To(N, i) = From(N, q)
        /\ q = None => To(N, i) = StorageSize
    <2>1. /\ q # None => q \in L /\ N[q].prev = i /\ To(N, i) = From(N, q)
          /\ q = None => To(N, i) = StorageSize
      BY <1>0 DEF Linked
    <2>2. To(N, i) # From(N, i)  BY <1>1
    <2> QED  BY <2>1, <2>2, <1>0
  <1> HIDE DEF q
  <1>6. Regions(K, M)
    <2>1. M \subseteq Node  BY <1>0
    <2>2. \A k \in M : K[k].size >= 1 /\ To(K, k) <= StorageSize  BY <1>0, <1>1, <1>2
    <2>3. \A k \in L \ {i} : Apart(N, i, k)  BY <1>0 DEF Regions
    <2>4. \A k \in L \ {i} : Apart(K, i, k) /\ Apart(K, new, k) /\ Apart(K, k, i) /\ Apart(K, k, new)
      BY <2>3, <1>1, <1>2 DEF Apart
    <2>5. Apart(K, i, new) /\ Apart(K, new, i)  BY <1>1, <1>2 DEF Apart
    <2>6. \A j, k \in L \ {i} : j # k => Apart(K, j, k)
      <3>1. \A j, k \in L \ {i} : j # k => Apart(N, j, k)  BY <1>0 DEF Regions
      <3> QED  BY <3>1, <1>2 DEF Apart
    <2>7. \A j, k \in M : j # k => Apart(K, j, k)  BY <2>4, <2>5, <2>6
    <2> QED  BY <2>1, <2>2, <2>7 DEF Regions
  <1>7. Linked(K, M)
    <2>1. ASSUME NEW k \in L \ {i}
          PROVE  /\ K[k].prev = None => From(K, k) = 0
                 /\ K[k].prev # None => K[k].prev \in M /\ K[K[k].prev].next = k
                 /\ K[k].next = None => To(K, k) = StorageSize
                 /\ K[k].next # None => /\ K[k].next \in M /\ K[K[k].next].prev = k
                                        /\ To(K, k) = From(K, K[k].next)
      <3>1. /\ N[k].prev = None => From(N, k) = 0
            /\ N[k].prev # None => N[k].prev \in L /\ N[N[k].prev].next = k
            /\ N[k].next = None => To(N, k) = StorageSize
            /\ N[k].next # None => /\ N[k].next \in L /\ N[N[k].next].prev = k
                                   /\ To(N, k) = From(N, N[k].next)
        BY <1>0 DEF Linked
      <3>2. CASE k = q
        <4>1. K[k].prev = new /\ K[new].next = k  BY <3>2, <1>3
        <4>2. N[k].next # None => N[k].next # q
          <5>1. To(N, q) # From(N, q)  BY <3>2, <1>1
          <5> QED  BY <5>1, <3>1, <3>2
        <4>3. N[k].next # None => N[k].next # i  BY <3>1, <3>2, <1>0, <1>1, <1>5 DEF Regions, Apart
        <4> QED  BY <3>1, <3>2, <4>1, <4>2, <4>3, <1>0, <1>2, <1>3
      <3>3. CASE k # q
        <4>1. K[k].prev = N[k].prev /\ K[k].next = N[k].next  BY <3>3, <1>3
        <4>2. N[k].prev # None => N[k].prev # i
          <5>1. N[k].prev = i => N[i].next = k  BY <3>1, <1>0
          <5> QED  BY <5>1, <3>3 DEF q
        <4>3. N[k].next # None => N[k].next # q
          <5>1. N[k].next = q /\ q # None => k = i  BY <3>1, <1>5
          <5> QED  BY <5>1
        <4>4. N[k].prev # None => N[k].prev \in L \ {i} /\ K[N[k].prev].next = k
          BY <4>2, <3>1, <1>3
        <4>5. N[k].next = i => K[i].prev = k  BY <3>1, <1>0, <1>3
        <4>6. N[k].next # None => /\ K[N[k].next].prev = k
                                  /\ From(K, N[k].next) = From(N, N[k].next)
          BY <4>3, <4>5, <3>1, <1>2, <1>3
        <4> QED  BY <3>1, <4>1, <4>4, <4>6, <1>2
      <3> QED  BY <3>2, <3>3
    <2>2. /\ K[i].prev = None => From(K, i) = 0
          /\ K[i].prev # None => K[i].prev \in M /\ K[K[i].prev].next = i
          /\ K[i].next # None /\ K[i].next \in M /\ K[K[i].next].prev = i
          /\ To(K, i) = From(K, K[i].next)
      <3>1. /\ N[i].prev = None => From(N, i) = 0
            /\ N[i].prev # None => N[i].prev \in L /\ N[N[i].prev].next = i
        BY <1>0 DEF Linked
      <3>2. N[i].prev # i
        <4>1. N[i].prev = i => q = i  BY <3>1, <1>0 DEF q
        <4> QED  BY <4>1, <1>5
      <3> QED  BY <3>1, <3>2, <1>0, <1>2, <1>3
    <2>3. /\ K[new].prev # None /\ K[new].prev \in M /\ K[K[new].prev].next = new
          /\ K[new].next = None => To(K, new) = StorageSize
          /\ K[new].next # None => /\ K[new].next \in M /\ K[K[new].next].prev = new
                                   /\ To(K, new) = From(K, K[new].next)
      BY <1>0, <1>2, <1>3, <1>5
    <2> QED  BY <2>1, <2>2, <2>3 DEF Linked
  <1>8. Covered(K, M)
    <2> SUFFICES ASSUME NEW x \in 0 .. StorageSize - 1 PROVE \E k \in M : Has(K, k, x)
      BY DEF Covered
    <2>1. PICK k \in L : Has(N, k, x)  BY <1>0 DEF Covered
    <2>2. CASE k = i
      <3>1. Has(K, i, x) \/ Has(K, new, x)  BY <2>1, <2>2, <1>0, <1>1, <1>2 DEF Has
      <3> QED  BY <3>1
    <2>3. CASE k # i
      <3>1. Has(K, k, x)  BY <2>1, <2>3, <1>2 DEF Has
      <3> QED  BY <3>1
    <2> QED  BY <2>2, <2>3
  <1>9. Merged(K, M)
    <2>1. q # None => N[q].used  BY <1>0 DEF Merged, q
    <2>2. q # None => K[q].used  BY <2>1, <1>4, <1>5
    <2>3. ASSUME NEW k \in L \ {i}, ~K[k].used, K[k].next # None PROVE K[K[k].next].used
      <3>1. ~N[k].used /\ N[k].next # None /\ K[k].next = N[k].next  BY <2>3, <1>3, <1>4
      <3>2. N[N[k].next].used /\ N[k].next \in L  BY <3>1, <1>0 DEF Merged, Linked
      <3> QED  BY <3>1, <3>2, <1>4
    <2> QED  BY <2>2, <2>3, <1>3, <1>4 DEF Merged
  <1> QED  BY <1>6, <1>7, <1>8, <1>9 DEF Cut

\* The region before node i takes in the nodes A: it starts at bo, has bs units
\* and P comes before it.
Before(N, L, i, A, bo, bs, P) ==
    /\ A \subseteq L \ {i} /\ \A k \in A : ~N[k].used
    /\ bo \in Nat /\ bs \in Nat /\ bo + bs = From(N, i)
    /\ P = None => bo = 0
    /\ P # None => P \in L \ A /\ P # i /\ N[P].used /\ To(N, P) = bo
    /\ \A j \in L \ A : j # i /\ j # P => N[j].next \notin A \cup {i}
    /\ \A j \in L \ A : j # i => N[j].prev \notin A
    /\ \A j \in L \ A : j # i => To(N, j) <= bo \/ bo + bs <= From(N, j)
    /\ \A k \in A : \A x \in Nat : Has(N, k, x) => bo <= x /\ x < bo + bs

\* The region behind node i takes in the nodes B: it has es units and Q comes
\* behind it.
Behind(N, L, i, B, es, Q) ==
    /\ B \subseteq L \ {i} /\ \A k \in B : ~N[k].used
    /\ es \in Nat
    /\ Q = None => To(N, i) + es = StorageSize
    /\ Q # None => Q \in L \ B /\ Q # i /\ N[Q].used /\ From(N, Q) = To(N, i) + es
    /\ \A j \in L \ B : j # i /\ j # Q => N[j].prev \notin B \cup {i}
    /\ \A j \in L \ B : j # i => N[j].next \notin B
    /\ \A j \in L \ B : j # i => To(N, j) <= To(N, i) \/ To(N, i) + es <= From(N, j)
    /\ \A k \in B : \A x \in Nat : Has(N, k, x) => To(N, i) <= x /\ x < To(N, i) + es
    /\ To(N, i) + es <= StorageSize

\* What a used node and its neighbour before it give.
LEMMA BeforeOk ==
    ASSUME NEW N \in [Node -> NodeRec], NEW L, Cut(N, L), NEW i \in L, N[i].used
    PROVE  LET p == N[i].prev
               m == p # None /\ ~N[p].used
           IN  /\ m => Before(N, L, i, {p}, From(N, p), N[p].size, N[p].prev)
               /\ ~m => Before(N, L, i, {}, From(N, i), 0, p)
  <1> DEFINE p == N[i].prev
  <1>0. /\ Regions(N, L) /\ Linked(N, L) /\ Merged(N, L)
        /\ L \subseteq Node /\ StorageSize \in Nat /\ None \notin L
    BY LinkFacts, AllocatorAssumption DEF Cut, Regions
  <1>1. \A k \in L : /\ From(N, k) \in Nat /\ N[k].size \in Nat /\ To(N, k) \in Nat
                     /\ To(N, k) = From(N, k) + N[k].size /\ N[k].size >= 1
                     /\ To(N, k) <= StorageSize
    BY <1>0, RegionType DEF Regions
  <1>2. \A j, k \in L : j # k => To(N, j) <= From(N, k) \/ To(N, k) <= From(N, j)
    BY <1>0 DEF Regions, Apart
  <1>3. \A k \in L :
          /\ N[k].prev = None => From(N, k) = 0
          /\ N[k].prev # None => /\ N[k].prev \in L /\ N[N[k].prev].next = k
                                 /\ To(N, N[k].prev) = From(N, k) /\ N[k].prev # k
          /\ N[k].next # None => N[k].next \in L /\ N[N[k].next].prev = k
    <2> SUFFICES ASSUME NEW k \in L
                 PROVE  /\ N[k].prev = None => From(N, k) = 0
                        /\ N[k].prev # None => /\ N[k].prev \in L /\ N[N[k].prev].next = k
                                               /\ To(N, N[k].prev) = From(N, k) /\ N[k].prev # k
                        /\ N[k].next # None => N[k].next \in L /\ N[N[k].next].prev = k
      OBVIOUS
    <2>1. /\ N[k].prev = None => From(N, k) = 0
          /\ N[k].prev # None => N[k].prev \in L /\ N[N[k].prev].next = k
          /\ N[k].next # None => N[k].next \in L /\ N[N[k].next].prev = k
      BY <1>0 DEF Linked
    <2>2. N[k].prev # None => To(N, N[k].prev) = From(N, N[N[k].prev].next)
      BY <2>1, <1>0 DEF Linked
    <2>3. N[k].prev # None => To(N, N[k].prev) = From(N, k)  BY <2>1, <2>2
    <2>4. To(N, k) # From(N, k)  BY <1>1
    <2> QED  BY <2>1, <2>3, <2>4
  <1>4. ASSUME p # None, ~N[p].used
        PROVE  Before(N, L, i, {p}, From(N, p), N[p].size, N[p].prev)
    <2> DEFINE P == N[p].prev
    <2>1. p \in L /\ N[p].next = i /\ To(N, p) = From(N, i) /\ p # i  BY <1>3, <1>4
    <2>2. From(N, p) \in Nat /\ N[p].size \in Nat /\ From(N, p) + N[p].size = From(N, i)
      BY <2>1, <1>1
    <2>3. P = None => From(N, p) = 0  BY <2>1, <1>3
    <2>4. P # None => P \in L /\ N[P].next = p /\ To(N, P) = From(N, p) /\ P # p
      BY <2>1, <1>3
    <2>5. P # None => P # i
      <3>1. P = i => To(N, i) = From(N, p)  BY <2>4, <1>0
      <3> QED  BY <3>1, <2>1, <1>1
    <2>6. P # None => N[P].used
      <3>1. P # None /\ ~N[P].used => N[N[P].next].used  BY <2>1, <2>4, <1>0 DEF Merged
      <3>2. P # None => N[N[P].next].used = N[p].used  BY <2>4
      <3> QED  BY <3>1, <3>2, <1>4
    <2>7. ASSUME NEW j \in L \ {p}, j # i, j # P PROVE N[j].next \notin {p} \cup {i}
      <3>1. N[j].next = p => P = j  BY <2>1, <1>0, <1>3
      <3>2. N[j].next = i => p = j  BY <1>0, <1>3
      <3> QED  BY <3>1, <3>2, <2>7
    <2>8. ASSUME NEW j \in L \ {p}, j # i PROVE N[j].prev \notin {p}
      <3>1. N[j].prev = p => N[p].next = j  BY <1>3, <1>4
      <3> QED  BY <3>1, <2>1, <2>8
    <2>9. ASSUME NEW j \in L \ {p} PROVE To(N, j) <= From(N, p) \/ From(N, p) + N[p].size <= From(N, j)
      BY <2>1, <1>1, <1>2
    <2>10. \A x \in Nat : Has(N, p, x) => From(N, p) <= x /\ x < From(N, p) + N[p].size
      BY <2>1, <1>1 DEF Has
    <2> QED  BY <2>1, <2>2, <2>3, <2>4, <2>5, <2>6, <2>7, <2>8, <2>9, <2>10, <1>4 DEF Before
  <1>5. ASSUME ~(p # None /\ ~N[p].used) PROVE Before(N, L, i, {}, From(N, i), 0, p)
    <2>1. From(N, i) \in Nat /\ From(N, i) + 0 = From(N, i)  BY <1>1
    <2>2. p = None => From(N, i) = 0  BY <1>3
    <2>3. p # None => p \in L /\ p # i /\ N[p].used /\ To(N, p) = From(N, i)  BY <1>3, <1>5
    <2>4. ASSUME NEW j \in L, j # i, j # p PROVE N[j].next \notin {} \cup {i}
      <3>1. N[j].next = i => p = j  BY <1>0, <1>3
      <3> QED  BY <3>1, <2>4
    <2>5. ASSUME NEW j \in L, j # i PROVE To(N, j) <= From(N, i) \/ From(N, i) + 0 <= From(N, j)
      BY <2>5, <1>1, <1>2
    <2> QED  BY <2>1, <2>2, <2>3, <2>4, <2>5 DEF Before
  <1> QED  BY <1>4, <1>5

\* What a used node and its neighbour behind it give.
LEMMA BehindOk ==
    ASSUME NEW N \in [Node -> NodeRec], NEW L, Cut(N, L), NEW i \in L, N[i].used
    PROVE  LET q == N[i].next
               m == q # None /\ ~N[q].used
           IN  /\ m => Behind(N, L, i, {q}, N[q].size, N[q].next)
               /\ ~m => Behind(N, L, i, {}, 0, q)
  <1> DEFINE q == N[i].next
  <1>0. /\ Regions(N, L) /\ Linked(N, L) /\ Merged(N, L)
        /\ L \subseteq Node /\ StorageSize \in Nat /\ None \notin L
    BY LinkFacts, AllocatorAssumption DEF Cut, Regions
  <1>1. \A k \in L : /\ From(N, k) \in Nat /\ N[k].size \in Nat /\ To(N, k) \in Nat
                     /\ To(N, k) = From(N, k) + N[k].size /\ N[k].size >= 1
                     /\ To(N, k) <= StorageSize
    BY <1>0, RegionType DEF Regions
  <1>2. \A j, k \in L : j # k => To(N, j) <= From(N, k) \/ To(N, k) <= From(N, j)
    BY <1>0 DEF Regions, Apart
  <1>3. \A k \in L :
          /\ N[k].next = None => To(N, k) = StorageSize
          /\ N[k].next # None => /\ N[k].next \in L /\ N[N[k].next].prev = k
                                 /\ To(N, k) = From(N, N[k].next) /\ N[k].next # k
          /\ N[k].prev # None => N[k].prev \in L /\ N[N[k].prev].next = k
    <2> SUFFICES ASSUME NEW k \in L
                 PROVE  /\ N[k].next = None => To(N, k) = StorageSize
                        /\ N[k].next # None => /\ N[k].next \in L /\ N[N[k].next].prev = k
                                               /\ To(N, k) = From(N, N[k].next) /\ N[k].next # k
                        /\ N[k].prev # None => N[k].prev \in L /\ N[N[k].prev].next = k
      OBVIOUS
    <2>1. /\ N[k].next = None => To(N, k) = StorageSize
          /\ N[k].next # None => /\ N[k].next \in L /\ N[N[k].next].prev = k
                                 /\ To(N, k) = From(N, N[k].next)
          /\ N[k].prev # None => N[k].prev \in L /\ N[N[k].prev].next = k
      BY <1>0 DEF Linked
    <2>2. To(N, k) # From(N, k)  BY <1>1
    <2> QED  BY <2>1, <2>2
  <1>4. ASSUME q # None, ~N[q].used
        PROVE  Behind(N, L, i, {q}, N[q].size, N[q].next)
    <2> DEFINE Q == N[q].next
    <2>1. q \in L /\ N[q].prev = i /\ To(N, i) = From(N, q) /\ q # i  BY <1>3, <1>4
    <2>2. N[q].size \in Nat /\ To(N, i) + N[q].size = To(N, q) /\ To(N, q) <= StorageSize
      BY <2>1, <1>1
    <2>3. Q = None => To(N, i) + N[q].size = StorageSize  BY <2>1, <2>2, <1>3
    <2>4. Q # None => Q \in L /\ N[Q].prev = q /\ From(N, Q) = To(N, q) /\ Q # q
      BY <2>1, <1>3
    <2>5. Q # None => Q # i
      <3>1. Q = i => From(N, i) = To(N, q)  BY <2>4, <1>0
      <3> QED  BY <3>1, <2>1, <1>1
    <2>6. Q # None => N[Q].used
      BY <2>1, <1>0, <1>4 DEF Merged
    <2>7. ASSUME NEW j \in L \ {q}, j # i, j # Q PROVE N[j].prev \notin {q} \cup {i}
      <3>1. N[j].prev = q => Q = j  BY <2>1, <1>0, <1>3
      <3>2. N[j].prev = i => q = j  BY <1>0, <1>3
      <3> QED  BY <3>1, <3>2, <2>7
    <2>8. ASSUME NEW j \in L \ {q}, j # i PROVE N[j].next \notin {q}
      <3>1. N[j].next = q => N[q].prev = j  BY <1>3, <1>4
      <3> QED  BY <3>1, <2>1, <2>8
    <2>9. ASSUME NEW j \in L \ {q} PROVE To(N, j) <= To(N, i) \/ To(N, i) + N[q].size <= From(N, j)
      BY <2>1, <2>2, <1>1, <1>2
    <2>10. \A x \in Nat : Has(N, q, x) => To(N, i) <= x /\ x < To(N, i) + N[q].size
      BY <2>1, <1>1 DEF Has
    <2> QED  BY <2>1, <2>2, <2>3, <2>4, <2>5, <2>6, <2>7, <2>8, <2>9, <2>10, <1>4 DEF Behind
  <1>5. ASSUME ~(q # None /\ ~N[q].used) PROVE Behind(N, L, i, {}, 0, q)
    <2>1. To(N, i) + 0 = To(N, i) /\ To(N, i) <= StorageSize  BY <1>1
    <2>2. q = None => To(N, i) = StorageSize  BY <1>3
    <2>3. q # None => q \in L /\ q # i /\ N[q].used /\ From(N, q) = To(N, i)  BY <1>3, <1>5
    <2>4. ASSUME NEW j \in L, j # i, j # q PROVE N[j].prev \notin {} \cup {i}
      <3>1. N[j].prev = i => q = j  BY <1>0, <1>3
      <3> QED  BY <3>1, <2>4
    <2>5. ASSUME NEW j \in L, j # i PROVE To(N, j) <= To(N, i) \/ To(N, i) + 0 <= From(N, j)
      BY <2>5, <1>1, <1>2
    <2> QED  BY <2>1, <2>2, <2>3, <2>4, <2>5 DEF Behind
  <1> QED  BY <1>4, <1>5

\* In K, node i is the free region that joins A, node i of N and B.
Joined(N, K, L, i, A, B, bo, bs, P, es, Q) ==
    /\ From(K, i) = bo /\ K[i].size = bs + N[i].size + es /\ ~K[i].used
    /\ K[i].prev = P /\ K[i].next = Q
    /\ \A k \in L \ (A \cup B \cup {i}) :
          /\ From(K, k) = From(N, k) /\ K[k].size = N[k].size /\ K[k].used = N[k].used
          /\ K[k].next = IF k = P THEN i ELSE N[k].next
          /\ K[k].prev = IF k = Q THEN i ELSE N[k].prev

\* Joining a node with its free neighbours.
LEMMA JoinedCut ==
    ASSUME NEW N \in [Node -> NodeRec], NEW K \in [Node -> NodeRec], NEW L, Cut(N, L), NEW i \in L,
           NEW A, NEW B, NEW bo, NEW bs, NEW P, NEW es, NEW Q,
           Before(N, L, i, A, bo, bs, P), Behind(N, L, i, B, es, Q),
           Joined(N, K, L, i, A, B, bo, bs, P, es, Q)
    PROVE  Cut(K, L \ (A \cup B))
  <1> DEFINE M == L \ (A \cup B)
             O == M \ {i}
  <1>0. /\ Regions(N, L) /\ Linked(N, L) /\ Covered(N, L) /\ Merged(N, L)
        /\ L \subseteq Node /\ i \in Node /\ StorageSize \in Nat /\ None \notin L
    BY LinkFacts, AllocatorAssumption DEF Cut, Regions
  <1>1. i \in M /\ M \subseteq L /\ O \subseteq L  BY DEF Before, Behind
  <1>2. /\ \A k \in L : /\ From(N, k) \in Nat /\ N[k].size \in Nat /\ To(N, k) \in Nat
                        /\ To(N, k) = From(N, k) + N[k].size /\ N[k].size >= 1
                        /\ To(N, k) <= StorageSize
        /\ \A k \in M : /\ From(K, k) \in Nat /\ K[k].size \in Nat /\ To(K, k) \in Nat
                        /\ To(K, k) = From(K, k) + K[k].size
    BY <1>0, <1>1, RegionType DEF Regions
  <1>3. /\ bo \in Nat /\ bs \in Nat /\ es \in Nat /\ bo + bs = From(N, i)
        /\ P = None => bo = 0
        /\ P # None => P \in L \ A /\ P # i /\ N[P].used /\ To(N, P) = bo
        /\ \A j \in L \ A : j # i /\ j # P => N[j].next \notin A \cup {i}
        /\ \A j \in L \ A : j # i => N[j].prev \notin A
        /\ \A j \in L \ A : j # i => To(N, j) <= bo \/ bo + bs <= From(N, j)
        /\ \A k \in A : \A x \in Nat : Has(N, k, x) => bo <= x /\ x < bo + bs
        /\ \A k \in A : ~N[k].used
    BY DEF Before, Behind
  <1>4. /\ Q = None => To(N, i) + es = StorageSize
        /\ Q # None => Q \in L \ B /\ Q # i /\ N[Q].used /\ From(N, Q) = To(N, i) + es
        /\ \A j \in L \ B : j # i /\ j # Q => N[j].prev \notin B \cup {i}
        /\ \A j \in L \ B : j # i => N[j].next \notin B
        /\ \A j \in L \ B : j # i => To(N, j) <= To(N, i) \/ To(N, i) + es <= From(N, j)
        /\ \A k \in B : \A x \in Nat : Has(N, k, x) => To(N, i) <= x /\ x < To(N, i) + es
        /\ To(N, i) + es <= StorageSize
        /\ \A k \in B : ~N[k].used
    BY DEF Behind
  <1>5. /\ From(K, i) = bo /\ K[i].size = bs + N[i].size + es /\ ~K[i].used
        /\ K[i].prev = P /\ K[i].next = Q
        /\ \A k \in O : /\ From(K, k) = From(N, k) /\ K[k].size = N[k].size /\ K[k].used = N[k].used
                        /\ K[k].next = IF k = P THEN i ELSE N[k].next
                        /\ K[k].prev = IF k = Q THEN i ELSE N[k].prev
    BY DEF Joined
  <1>6. To(K, i) = To(N, i) + es /\ K[i].size >= 1 /\ \A k \in O : To(K, k) = To(N, k)
    <2>1. bo + (bs + N[i].size + es) = To(N, i) + es /\ bs + N[i].size + es >= 1
      BY <1>2, <1>3
    <2>2. To(K, i) = bo + (bs + N[i].size + es)  BY <1>1, <1>2, <1>5
    <2> QED  BY <2>1, <2>2, <1>1, <1>2, <1>5
  <1>7. /\ P # None => P \in O
        /\ Q # None => Q \in O
    BY <1>3, <1>4
  <1> HIDE DEF M, O
  <1>8. O = M \ {i} /\ i \notin O /\ O \subseteq L \ A /\ O \subseteq L \ B  BY DEF M, O
  <1>9. Regions(K, M)
    <2>1. M \subseteq Node  BY <1>0, <1>1
    <2>2. \A k \in O : K[k].size >= 1 /\ To(K, k) <= StorageSize  BY <1>1, <1>2, <1>5, <1>6
    <2>3. \A k \in M : K[k].size >= 1 /\ To(K, k) <= StorageSize  BY <2>2, <1>4, <1>6, <1>8
    <2>4. \A j, k \in O : j # k => Apart(K, j, k)
      <3>1. \A j, k \in O : j # k => Apart(N, j, k)  BY <1>0, <1>1 DEF Regions
      <3> QED  BY <3>1, <1>5, <1>6 DEF Apart
    <2>5. ASSUME NEW k \in O PROVE Apart(K, i, k) /\ Apart(K, k, i)
      <3>1. To(N, k) <= bo \/ bo + bs <= From(N, k)  BY <1>3, <1>8
      <3>2. To(N, k) <= To(N, i) \/ To(N, i) + es <= From(N, k)  BY <1>4, <1>8
      <3>3. To(N, k) <= From(N, i) \/ To(N, i) <= From(N, k)  BY <1>0, <1>1, <1>8 DEF Regions, Apart
      <3>4. k \in L /\ i \in L  BY <1>1
      <3>5. To(N, k) <= bo \/ To(N, i) + es <= From(N, k)
        BY <3>1, <3>2, <3>3, <3>4, <1>2, <1>3
      <3> QED  BY <3>5, <1>5, <1>6 DEF Apart
    <2>6. \A j, k \in M : j # k => Apart(K, j, k)  BY <2>4, <2>5, <1>8
    <2> QED  BY <2>1, <2>3, <2>6 DEF Regions
  <1>10. Linked(K, M)
    <2>1. ASSUME NEW k \in O
          PROVE  /\ K[k].prev = None => From(K, k) = 0
                 /\ K[k].prev # None => K[k].prev \in M /\ K[K[k].prev].next = k
      <3>1. /\ N[k].prev = None => From(N, k) = 0
            /\ N[k].prev # None => N[k].prev \in L /\ N[N[k].prev].next = k
        BY <1>0, <1>1 DEF Linked
      <3>2. CASE k = Q
        <4>1. K[k].prev = i  BY <3>2, <1>5
        <4> QED  BY <4>1, <3>2, <1>0, <1>1, <1>5
      <3>3. CASE k # Q
        <4> DEFINE p == N[k].prev
        <4>1. K[k].prev = p  BY <3>3, <1>5
        <4>2. p \notin A /\ p \notin B /\ p # i  BY <3>3, <1>3, <1>4, <1>8
        <4>3. p # None => p \in O  BY <3>1, <4>2 DEF O, M
        <4>4. p # None => p # P
          <5>1. p = P /\ p # None => N[P].next = k  BY <3>1
          <5>2. P # None => N[P].next \in A \cup {i}
            <6>1. P # None => N[P].next # None /\ N[P].next \in L
              <7>1. P # None => To(N, P) # StorageSize  BY <1>1, <1>2, <1>3
              <7> QED  BY <7>1, <1>0, <1>1, <1>7 DEF Linked
            <6>2. P # None => From(N, N[P].next) = bo
              BY <6>1, <1>0, <1>1, <1>3, <1>7 DEF Linked
            <6>3. ASSUME P # None, N[P].next \in L \ A, N[P].next # i PROVE FALSE
              <7> DEFINE y == N[P].next
              <7>1. y \in L /\ From(N, y) = bo /\ To(N, y) > bo  BY <6>2, <6>3, <1>2, <1>3
              <7>2. bo + bs <= From(N, y)  BY <7>1, <6>3, <1>2, <1>3
              <7>3. bs = 0 /\ From(N, i) = bo  BY <7>1, <7>2, <1>3
              <7>4. To(N, y) <= From(N, i) \/ To(N, i) <= From(N, y)
                BY <7>1, <6>3, <1>0 DEF Regions, Apart
              <7> QED  BY <7>1, <7>3, <7>4, <1>2
            <6> QED  BY <6>1, <6>3
          <5> QED  BY <5>1, <5>2, <1>8
        <4>5. p # None => K[p].next = k  BY <4>3, <4>4, <3>1, <1>5
        <4>6. p = None => From(K, k) = 0  BY <3>1, <1>5
        <4> HIDE DEF p
        <4> QED  BY <4>1, <4>3, <4>5, <4>6, <1>8
      <3> QED  BY <3>2, <3>3
    <2>2. ASSUME NEW k \in O
          PROVE  /\ K[k].next = None => To(K, k) = StorageSize
                 /\ K[k].next # None => /\ K[k].next \in M /\ K[K[k].next].prev = k
                                        /\ To(K, k) = From(K, K[k].next)
      <3>1. /\ N[k].next = None => To(N, k) = StorageSize
            /\ N[k].next # None => /\ N[k].next \in L /\ N[N[k].next].prev = k
                                   /\ To(N, k) = From(N, N[k].next)
        BY <1>0, <1>1 DEF Linked
      <3>2. CASE k = P
        <4>1. K[k].next = i  BY <3>2, <1>5
        <4> QED  BY <4>1, <3>2, <1>0, <1>1, <1>3, <1>5, <1>6
      <3>3. CASE k # P
        <4> DEFINE q == N[k].next
        <4>1. K[k].next = q  BY <3>3, <1>5
        <4>2. q \notin A /\ q \notin B /\ q # i  BY <3>3, <1>3, <1>4, <1>8
        <4>3. q # None => q \in O  BY <3>1, <4>2 DEF O, M
        <4>4. q # None => q # Q
          <5>1. q = Q /\ q # None => N[Q].prev = k  BY <3>1
          <5>2. Q # None => N[Q].prev \in B \cup {i}
            <6>1. Q # None => N[Q].prev # None /\ N[Q].prev \in L /\ To(N, N[Q].prev) = From(N, Q)
              <7>0. To(N, i) \in Nat /\ To(N, i) >= 1 /\ es \in Nat  BY <1>2, <1>3
              <7>1. Q # None => From(N, Q) # 0  BY <7>0, <1>4
              <7>2. Q # None => N[Q].prev # None /\ N[Q].prev \in L /\ N[N[Q].prev].next = Q
                BY <7>1, <1>0, <1>1, <1>7 DEF Linked
              <7>3. Q # None => To(N, N[Q].prev) = From(N, N[N[Q].prev].next)
                BY <7>2, <1>0 DEF Linked
              <7> QED  BY <7>2, <7>3
            <6>3. ASSUME Q # None, N[Q].prev \in L \ B, N[Q].prev # i PROVE FALSE
              <7> DEFINE y == N[Q].prev
              <7>1. y \in L /\ To(N, y) = To(N, i) + es /\ From(N, y) < To(N, i) + es
                BY <6>1, <6>3, <1>2, <1>4
              <7>2. To(N, y) <= To(N, i)  BY <7>1, <6>3, <1>2, <1>4
              <7>3. es = 0 /\ To(N, y) = To(N, i)  BY <7>1, <7>2, <1>2, <1>3
              <7>4. To(N, y) <= From(N, i) \/ To(N, i) <= From(N, y)
                BY <7>1, <6>3, <1>0 DEF Regions, Apart
              <7> QED  BY <7>1, <7>3, <7>4, <1>2
            <6> QED  BY <6>1, <6>3
          <5> QED  BY <5>1, <5>2, <1>8
        <4>5. q # None => K[q].prev = k /\ From(K, q) = From(N, q)  BY <4>3, <4>4, <3>1, <1>5
        <4> HIDE DEF q
        <4>6. q = None => To(N, k) = StorageSize  BY <3>1 DEF q
        <4>7. q # None => To(N, k) = From(N, q)  BY <3>1 DEF q
        <4> QED  BY <4>1, <4>3, <4>5, <4>6, <4>7, <1>6, <1>8
      <3> QED  BY <3>2, <3>3
    <2>3. /\ K[i].prev = None => From(K, i) = 0
          /\ K[i].prev # None => K[i].prev \in M /\ K[K[i].prev].next = i
      BY <1>3, <1>5, <1>7, <1>8
    <2>4. /\ K[i].next = None => To(K, i) = StorageSize
          /\ K[i].next # None => /\ K[i].next \in M /\ K[K[i].next].prev = i
                                 /\ To(K, i) = From(K, K[i].next)
      BY <1>4, <1>5, <1>6, <1>7, <1>8
    <2> QED  BY <2>1, <2>2, <2>3, <2>4, <1>8 DEF Linked
  <1>11. Covered(K, M)
    <2> SUFFICES ASSUME NEW x \in 0 .. StorageSize - 1 PROVE \E k \in M : Has(K, k, x)
      BY DEF Covered
    <2>0. x \in Nat  OBVIOUS
    <2>1. PICK k \in L : Has(N, k, x)  BY <1>0 DEF Covered
    <2>2. CASE k \in A
      <3>1. bo <= x /\ x < bo + bs  BY <2>0, <2>1, <2>2, <1>3
      <3>2. Has(K, i, x)  BY <3>1, <2>0, <1>2, <1>3, <1>5, <1>6 DEF Has
      <3> QED  BY <3>2, <1>1
    <2>3. CASE k \in B
      <3>1. To(N, i) <= x /\ x < To(N, i) + es  BY <2>0, <2>1, <2>3, <1>4
      <3>2. Has(K, i, x)  BY <3>1, <2>0, <1>2, <1>3, <1>5, <1>6 DEF Has
      <3> QED  BY <3>2, <1>1
    <2>4. CASE k = i
      <3>1. Has(K, i, x)  BY <2>0, <2>1, <2>4, <1>2, <1>3, <1>5, <1>6 DEF Has
      <3> QED  BY <3>1, <1>1
    <2>5. CASE k \in O
      <3>1. Has(K, k, x)  BY <2>1, <2>5, <1>5, <1>6 DEF Has
      <3> QED  BY <3>1, <2>5, <1>8
    <2> QED  BY <2>2, <2>3, <2>4, <2>5 DEF O, M
  <1>12. Merged(K, M)
    <2>1. ASSUME NEW k \in O, ~K[k].used, K[k].next # None PROVE K[K[k].next].used
      <3>1. ~N[k].used  BY <2>1, <1>5
      <3>2. k # P  BY <3>1, <1>1, <1>0, <1>3
      <3>3. K[k].next = N[k].next  BY <3>2, <1>5
      <3>4. N[N[k].next].used /\ N[k].next \in L  BY <3>1, <3>3, <2>1, <1>0, <1>1 DEF Merged, Linked
      <3>5. N[k].next \notin A /\ N[k].next \notin B /\ N[k].next # i
        BY <3>2, <1>3, <1>4, <1>8
      <3>6. N[k].next \in O  BY <3>4, <3>5 DEF O, M
      <3>7. K[N[k].next].used = N[N[k].next].used  BY <3>6, <1>5
      <3> QED  BY <3>3, <3>4, <3>7
    <2>2. Q # None => K[Q].used
      <3>1. Q # None => K[Q].used = N[Q].used  BY <1>5, <1>7
      <3> QED  BY <3>1, <1>4
    <2> QED  BY <2>1, <2>2, <1>5, <1>8 DEF Merged
  <1> QED  BY <1>9, <1>10, <1>11, <1>12 DEF Cut, M

-----------------------------------------------------------------------------
(* What the bins have for a request, and what the report says.              *)

\* Lowest and Highest of the bits that are set.
LEMMA LowestOk == ASSUME NEW S \in SUBSET Nat, S # {} PROVE Lowest(S) \in S /\ \A y \in S : Lowest(S) <= y
  <1>1. \E x \in S : \A y \in S : x <= y  BY Smallest
  <1> QED  BY <1>1 DEF Lowest

\* A bounded set of naturals has a greatest element.
LEMMA HighestOk == ASSUME NEW S \in SUBSET Nat, S # {}, NEW m \in Nat, \A x \in S : x <= m
                   PROVE  Highest(S) \in S /\ \A y \in S : y <= Highest(S)
  <1> DEFINE T == {k \in Nat : \A x \in S : x <= k}
  <1>1. m \in T  OBVIOUS
  <1>2. PICK k \in T : \A y \in T : k <= y  BY <1>1, Smallest
  <1>3. k \in S
    <2> SUFFICES ASSUME k \notin S PROVE FALSE  OBVIOUS
    <2>1. \A x \in S : x < k  BY <1>2
    <2>2. PICK z \in S : z < k /\ z \in Nat  BY <2>1
    <2>3. k - 1 \in Nat /\ \A x \in S : x <= k - 1  BY <2>1, <2>2
    <2>4. k - 1 \in T  BY <2>3
    <2>5. k <= k - 1  BY <2>4, <1>2
    <2> QED  BY <2>3, <2>5
  <1>4. \E x \in S : \A y \in S : y <= x  BY <1>2, <1>3
  <1> QED  BY <1>4 DEF Highest

\* Top bins are in the order of the bins.
LEMMA TopMono == \A x, y \in Nat : x <= y => TopOf(x) <= TopOf(y) /\ TopOf(x) \in Nat /\ TopOf(y) \in Nat
  <1> DEFINE M == Mantissa
  <1>0. M \in Nat /\ M >= 1  BY MantissaType
  <1> SUFFICES ASSUME NEW x \in Nat, NEW y \in Nat, x <= y
               PROVE  x \div M <= y \div M /\ x \div M \in Nat /\ y \div M \in Nat
    BY DEF TopOf
  <1> HIDE DEF M
  <1>1. /\ x \div M \in Nat /\ x % M \in Nat /\ x % M < M /\ x = (x \div M) * M + (x % M)
        /\ y \div M \in Nat /\ y % M \in Nat /\ y % M < M /\ y = (y \div M) * M + (y % M)
    BY <1>0
  <1>2. \A u, v, c, d \in Nat : c < M /\ d < M /\ u * M + c <= v * M + d => u <= v
    <2> SUFFICES ASSUME NEW u \in Nat, NEW v \in Nat, NEW c \in Nat, NEW d \in Nat,
                        c < M, d < M, u * M + c <= v * M + d, v + 1 <= u
                 PROVE  FALSE
      OBVIOUS
    <2>1. (v + 1) * M <= u * M /\ (v + 1) * M = v * M + M /\ v * M \in Nat /\ u * M \in Nat  BY <1>0
    <2> QED  BY <2>1, <1>0
  <1> DEFINE u == x \div M
             c == x % M
             v == y \div M
             d == y % M
  <1>3. u \in Nat /\ v \in Nat /\ c \in Nat /\ d \in Nat /\ c < M /\ d < M /\ u * M + c <= v * M + d
    BY <1>1
  <1> HIDE DEF u, v, c, d
  <1>4. u <= v  BY <1>2, <1>3
  <1> QED  BY <1>3, <1>4 DEF u, v

\* allocate() finds a bin exactly when some bin in use is large enough, and
\* then finds such a bin.
LEMMA FindBinOk ==
    ASSUME NEW a, NEW U, Mid(a, U), NEW size \in Nat
    PROVE  LET f == FindBin(a, size)
               min == uintToFloatRoundUp(size)
           IN  /\ f # None => f \in a.usedBins /\ f >= min
               /\ (\E b \in a.usedBins : b >= min) => f # None
  <1> DEFINE f == FindBin(a, size)
             min == uintToFloatRoundUp(size)
             leaves == {b \in a.usedBins : TopOf(b) = TopOf(min) /\ b >= min}
             tops == {t \in a.usedTops : t > TopOf(min)}
             these == {b \in a.usedBins : TopOf(b) = Lowest(tops)}
  <1>1. a.usedBins \in SUBSET Nat /\ a.usedTops \in SUBSET Nat
    BY BinOf DEF Mid, AllocRec
  <1>2. a.usedTops = {TopOf(b) : b \in a.usedBins}  BY DEF Mid, BinLinks
  <1>3. min \in Nat  BY RoundUpOk
  <1>4. f = IF TopOf(min) \in a.usedTops /\ leaves # {} THEN Lowest(leaves)
            ELSE IF tops # {} THEN Lowest(these) ELSE None
    BY DEF FindBin
  <1> HIDE DEF f, min
  <1>5. CASE TopOf(min) \in a.usedTops /\ leaves # {}
    <2>1. leaves \in SUBSET Nat  BY <1>1
    <2>2. Lowest(leaves) \in leaves  BY <2>1, <1>5, LowestOk
    <2>3. f \in leaves  BY <2>2, <1>4, <1>5
    <2>4. f # None  BY <2>1, <2>3 DEF None
    <2> QED  BY <2>3, <2>4 DEF f, min
  <1>6. CASE ~(TopOf(min) \in a.usedTops /\ leaves # {}) /\ tops # {}
    <2>1. tops \in SUBSET Nat  BY <1>1
    <2>2. Lowest(tops) \in tops  BY <2>1, <1>6, LowestOk
    <2>3. these # {} /\ these \in SUBSET Nat  BY <2>2, <1>1, <1>2
    <2>4. Lowest(these) \in these  BY <2>3, LowestOk
    <2>5. f \in these  BY <2>4, <1>4, <1>6
    <2>6. f \in a.usedBins /\ f \in Nat /\ f # None  BY <2>3, <2>5 DEF None
    <2>7. TopOf(f) > TopOf(min)  BY <2>2, <2>5
    <2>8. f >= min
      <3>1. f <= min => TopOf(f) <= TopOf(min) /\ TopOf(f) \in Nat /\ TopOf(min) \in Nat
        BY <2>6, <1>3, TopMono
      <3> QED  BY <3>1, <2>6, <2>7, <1>3
    <2> QED  BY <2>6, <2>8 DEF f, min
  <1>7. CASE ~(TopOf(min) \in a.usedTops /\ leaves # {}) /\ tops = {}
    <2>1. f = None  BY <1>4, <1>7
    <2>2. ASSUME NEW b \in a.usedBins, b >= min PROVE FALSE
      <3>1. b \in Nat /\ TopOf(b) \in a.usedTops  BY <1>1, <1>2
      <3>2. TopOf(min) <= TopOf(b) /\ TopOf(min) \in Nat /\ TopOf(b) \in Nat
        BY <3>1, <2>2, <1>3, TopMono
      <3>3. CASE TopOf(b) = TopOf(min)
        <4>1. b \in leaves /\ TopOf(min) \in a.usedTops  BY <3>1, <3>3, <2>2
        <4> QED  BY <4>1, <1>7
      <3>4. CASE TopOf(b) > TopOf(min)
        <4>1. TopOf(b) \in tops  BY <3>1, <3>4
        <4> QED  BY <4>1, <1>7
      <3> QED  BY <3>2, <3>3, <3>4
    <2> QED  BY <2>1, <2>2 DEF f, min
  <1> QED  BY <1>5, <1>6, <1>7

\* The largest free region of the report decides whether allocate() succeeds.
LEMMA ReportOk ==
    ASSUME NEW a, NEW U, Mid(a, U), NEW n \in Nat \ {0}
    PROVE  CanAllocate(a, n) <=> LargestFreeRegion(a) >= n
  <1> DEFINE f == FindBin(a, n)
             min == uintToFloatRoundUp(n)
             T == Highest(a.usedTops)
             these == {b \in a.usedBins : TopOf(b) = T}
             h == Highest(these)
  <1>1. /\ a.usedBins \in SUBSET Nat /\ a.usedTops \in SUBSET Nat /\ a.usedBins \subseteq Bin
        /\ a.usedTops = {TopOf(b) : b \in a.usedBins}
    BY BinOf DEF Mid, AllocRec, BinLinks
  <1>2. /\ f # None => f \in a.usedBins /\ f >= min
        /\ (\E b \in a.usedBins : b >= min) => f # None
    BY FindBinOk
  <1>3. /\ min \in Nat
        /\ \A b \in Nat : b >= min <=> floatToUint(b) >= n
    BY RoundUpOk
  <1> HIDE DEF f, min
  <1>4. CASE OutOfNodes(a)
    <2>1. LargestFreeRegion(a) = 0  BY <1>4 DEF LargestFreeRegion
    <2> QED  BY <2>1, <1>4 DEF CanAllocate
  <1>5. CASE ~OutOfNodes(a) /\ a.usedTops = {}
    <2>1. LargestFreeRegion(a) = 0  BY <1>5 DEF LargestFreeRegion
    <2>2. f = None  BY <1>1, <1>2, <1>5
    <2> QED  BY <2>1, <2>2 DEF CanAllocate, f
  <1>6. CASE ~OutOfNodes(a) /\ a.usedTops # {}
    <2>1. LargestFreeRegion(a) = floatToUint(h)  BY <1>6 DEF LargestFreeRegion
    <2>0. PICK m \in Nat : \A b \in Bin : b \in Nat /\ b <= m
      <3>1. uintToFloatRoundDown(StorageSize) \in Nat  BY AllocatorAssumption, RoundDownOk
      <3> QED  BY <3>1 DEF Bin
    <2>2. TopOf(m) \in Nat /\ \A t \in a.usedTops : t <= TopOf(m)
      <3>1. \A b \in a.usedBins : TopOf(b) <= TopOf(m)  BY <2>0, <1>1, TopMono
      <3>2. TopOf(m) \in Nat  BY <2>0, TopMono
      <3> QED  BY <3>1, <3>2, <1>1
    <2>3. T \in a.usedTops /\ \A t \in a.usedTops : t <= T  BY <2>2, <1>1, <1>6, HighestOk
    <2> HIDE DEF T
    <2>4. these # {} /\ these \in SUBSET Nat /\ \A b \in these : b <= m  BY <2>0, <2>3, <1>1
    <2>5. h \in these /\ \A b \in these : b <= h  BY <2>0, <2>4, HighestOk
    <2> HIDE DEF h
    <2>6. h \in a.usedBins /\ h \in Nat /\ TopOf(h) = T  BY <2>4, <2>5
    <2>7. ASSUME NEW b \in a.usedBins PROVE b <= h
      <3>1. b \in Nat /\ TopOf(b) \in a.usedTops  BY <1>1
      <3>2. CASE TopOf(b) = T  BY <3>2, <2>5
      <3>3. CASE TopOf(b) # T
        <4>1. h <= b => TopOf(h) <= TopOf(b) /\ TopOf(h) \in Nat /\ TopOf(b) \in Nat
          BY <2>6, <3>1, TopMono
        <4>2. TopOf(b) <= T  BY <2>3, <3>1
        <4> QED  BY <4>1, <4>2, <3>1, <3>3, <2>6
      <3> QED  BY <3>2, <3>3
    <2>8. CASE h >= min
      <3>1. floatToUint(h) >= n /\ f # None  BY <2>6, <2>8, <1>2, <1>3
      <3> QED  BY <3>1, <2>1, <1>6 DEF CanAllocate, f
    <2>9. CASE ~(h >= min)
      <3>1. ~(floatToUint(h) >= n)  BY <2>6, <2>9, <1>3
      <3>2. f # None => f \in Nat /\ f <= h /\ f >= min  BY <2>7, <1>1, <1>2
      <3>3. f = None  BY <3>2, <2>6, <2>9, <1>3
      <3> QED  BY <3>1, <3>3, <2>1 DEF CanAllocate, f
    <2> QED  BY <2>8, <2>9
  <1> QED  BY <1>4, <1>5, <1>6

-----------------------------------------------------------------------------
(* Counting units.                                                          *)

\* An interval adds its length to a set it does not meet.
LEMMA AddUnits ==
    ASSUME NEW S, IsFiniteSet(S), NEW lo \in Nat, NEW n \in Nat, S \cap (lo .. lo + n - 1) = {}
    PROVE  /\ IsFiniteSet(S \cup (lo .. lo + n - 1))
           /\ Cardinality(S \cup (lo .. lo + n - 1)) = Cardinality(S) + n
  <1> DEFINE I == lo .. lo + n - 1
  <1>0. lo \in Int /\ lo + n - 1 \in Int  OBVIOUS
  <1>1. IsFiniteSet(I) /\ Cardinality(I) = IF lo > lo + n - 1 THEN 0 ELSE (lo + n - 1) - lo + 1
    BY <1>0, FS_Interval
  <1>2. Cardinality(I) = n  BY <1>1
  <1> HIDE DEF I
  <1>3. IsFiniteSet(S \cup I) /\ Cardinality(S \cup I)
           = Cardinality(S) + Cardinality(I) - Cardinality(S \cap I)
    BY <1>1, FS_Union
  <1>4. Cardinality(S \cap I) = 0  BY FS_EmptySet DEF I
  <1>5. Cardinality(S) \in Nat  BY FS_CardinalityType
  <1>6. Cardinality(S \cup I) = Cardinality(S) + n  BY <1>2, <1>3, <1>4, <1>5
  <1> QED  BY <1>3, <1>6 DEF I

\* The units of the nodes S, by node.
Part(N, S) == UNION {From(N, i) .. To(N, i) - 1 : i \in S}

\* They are those of Units.
LEMMA UnitsIsPart == ASSUME NEW a, NEW S PROVE Units(a, S) = Part(a.nodes, S)
  BY DEF Units, EndOf, Part, From, To

\* Which units these are.
LEMMA PartHas == ASSUME NEW N \in [Node -> NodeRec], NEW S \in SUBSET Node, NEW x
                 PROVE  x \in Part(N, S) <=> x \in Nat /\ \E i \in S : Has(N, i, x)
  <1>1. ASSUME NEW i \in S PROVE x \in From(N, i) .. To(N, i) - 1 <=> x \in Nat /\ Has(N, i, x)
    <2>1. From(N, i) \in Nat /\ To(N, i) \in Nat  BY RegionType
    <2> QED  BY <2>1 DEF Has
  <1>2. x \in Part(N, S) <=> \E i \in S : x \in From(N, i) .. To(N, i) - 1  BY DEF Part
  <1> QED  BY <1>1, <1>2

\* The units of nodes in the storage are finitely many.
LEMMA PartFinite == ASSUME NEW N \in [Node -> NodeRec], NEW S \in SUBSET Node,
                           \A i \in S : To(N, i) <= StorageSize
                    PROVE  IsFiniteSet(Part(N, S)) /\ Cardinality(Part(N, S)) \in 0 .. StorageSize
  <1> DEFINE I == 0 .. StorageSize - 1
  <1>0. StorageSize \in Nat /\ StorageSize - 1 \in Int /\ StorageSize # 0  BY AllocatorAssumption
  <1>1. IsFiniteSet(I) /\ Cardinality(I) = IF 0 > StorageSize - 1 THEN 0 ELSE (StorageSize - 1) - 0 + 1
    BY <1>0, FS_Interval
  <1>2. Cardinality(I) = StorageSize  BY <1>0, <1>1
  <1>3. Part(N, S) \subseteq I
    <2> SUFFICES ASSUME NEW x \in Part(N, S) PROVE x \in I  OBVIOUS
    <2>1. x \in Nat  BY PartHas
    <2>2. PICK i \in S : Has(N, i, x)  BY PartHas
    <2>3. From(N, i) \in Nat /\ To(N, i) \in Nat /\ To(N, i) <= StorageSize  BY RegionType
    <2> QED  BY <2>1, <2>2, <2>3, <1>0 DEF Has
  <1> HIDE DEF I
  <1>4. IsFiniteSet(Part(N, S)) /\ Cardinality(Part(N, S)) <= Cardinality(I)
    BY <1>1, <1>3, FS_Subset
  <1>5. Cardinality(Part(N, S)) \in Nat  BY <1>4, FS_CardinalityType
  <1> QED  BY <1>0, <1>2, <1>4, <1>5

\* A region that is apart from the others adds its size.
LEMMA AddPart ==
    ASSUME NEW N \in [Node -> NodeRec], NEW S \in SUBSET Node, NEW lo \in Nat, NEW n \in Nat,
           \A i \in S : To(N, i) <= StorageSize,
           \A i \in S : To(N, i) <= lo \/ lo + n <= From(N, i)
    PROVE  Cardinality(Part(N, S) \cup (lo .. lo + n - 1)) = Cardinality(Part(N, S)) + n
  <1>1. IsFiniteSet(Part(N, S))  BY PartFinite
  <1>2. ASSUME NEW x \in Part(N, S), x \in lo .. lo + n - 1 PROVE FALSE
    <2>1. PICK i \in S : Has(N, i, x)  BY PartHas
    <2>2. From(N, i) \in Nat /\ To(N, i) \in Nat /\ x \in Nat  BY RegionType, PartHas
    <2> QED  BY <2>1, <2>2, <1>2 DEF Has
  <1>3. Part(N, S) \cap (lo .. lo + n - 1) = {}  BY <1>2
  <1> QED  BY <1>1, <1>3, AddUnits

-----------------------------------------------------------------------------
(* An allocator between two calls.                                          *)

Used(a) == {i \in Live(a) : a.nodes[i].used}

Whole(a) ==
    /\ Mid(a, FreeNodes(a)) /\ Cut(a.nodes, Live(a))
    /\ a.freeStorage = Cardinality(Part(a.nodes, FreeNodes(a)))

\* Types in an allocator.
LEMMA WholeFacts ==
    ASSUME NEW a, Whole(a)
    PROVE  /\ a \in AllocRec /\ a.nodes \in [Node -> NodeRec] /\ Live(a) \subseteq Node
           /\ FreeNodes(a) \subseteq Live(a) /\ Used(a) \subseteq Live(a)
           /\ a.capacity \in InitCapacity .. MaxCapacity /\ a.capacity \in Nat
           /\ a.freeStorage \in 0 .. StorageSize
           /\ \A i \in Live(a) : /\ From(a.nodes, i) \in Nat /\ To(a.nodes, i) \in Nat
                                 /\ To(a.nodes, i) = From(a.nodes, i) + a.nodes[i].size
                                 /\ a.nodes[i].size \in Nat /\ a.nodes[i].size >= 1
                                 /\ To(a.nodes, i) <= StorageSize
                                 /\ i < a.capacity /\ i \notin Elems(a.freeList)
           /\ \A i, j \in Live(a) : i # j => Apart(a.nodes, i, j)
  <1>1. a \in AllocRec /\ Regions(a.nodes, Live(a))  BY DEF Whole, Mid, Cut
  <1>2. /\ a.nodes \in [Node -> NodeRec] /\ a.capacity \in InitCapacity .. MaxCapacity
        /\ Live(a) \subseteq Node /\ FreeNodes(a) \subseteq Live(a) /\ Used(a) \subseteq Live(a)
    BY <1>1 DEF AllocRec, Regions, FreeNodes, Used
  <1>3. a.capacity \in Nat  BY <1>2, AllocatorAssumption
  <1>4. ASSUME NEW i \in Live(a)
        PROVE  /\ From(a.nodes, i) \in Nat /\ To(a.nodes, i) \in Nat
               /\ To(a.nodes, i) = From(a.nodes, i) + a.nodes[i].size
               /\ a.nodes[i].size \in Nat /\ a.nodes[i].size >= 1
               /\ To(a.nodes, i) <= StorageSize
               /\ i < a.capacity /\ i \notin Elems(a.freeList)
    <2>1. i \in 0 .. a.capacity - 1 /\ i \notin Elems(a.freeList)  BY DEF Live
    <2>2. i < a.capacity  BY <2>1, <1>3
    <2>3. a.nodes[i].size >= 1 /\ To(a.nodes, i) <= StorageSize  BY <1>1 DEF Regions
    <2> QED  BY <2>1, <2>2, <2>3, <1>2, RegionType
  <1>5. a.freeStorage \in 0 .. StorageSize
    <2>1. FreeNodes(a) \in SUBSET Node /\ \A i \in FreeNodes(a) : To(a.nodes, i) <= StorageSize
      BY <1>2, <1>4
    <2>2. Cardinality(Part(a.nodes, FreeNodes(a))) \in 0 .. StorageSize  BY <2>1, <1>2, PartFinite
    <2> QED  BY <2>2 DEF Whole
  <1>6. \A i, j \in Live(a) : i # j => Apart(a.nodes, i, j)  BY <1>1 DEF Regions
  <1> QED  BY <1>1, <1>2, <1>3, <1>4, <1>5, <1>6

\* A whole allocator is sound.
LEMMA WholeSound == ASSUME NEW a, Whole(a) PROVE Sound(a)
  <1> DEFINE L == Live(a)
             N == a.nodes
  <1>0. Cut(N, L) /\ Mid(a, FreeNodes(a))  BY DEF Whole
  <1>1. /\ N \in [Node -> NodeRec] /\ L \subseteq Node /\ StorageSize \in Nat
        /\ \A i \in L : /\ From(N, i) \in Nat /\ To(N, i) \in Nat /\ N[i].size \in Nat
                        /\ N[i].size >= 1 /\ To(N, i) <= StorageSize
    BY WholeFacts, AllocatorAssumption
  <1>2. \A i : EndOf(a, i) = To(N, i) /\ From(N, i) = N[i].offset  BY DEF EndOf, To, From
  <1>3. Tiled(a)
    <2>1. Units(a, L) = 0 .. StorageSize - 1
      <3>1. Units(a, L) = Part(N, L)  BY UnitsIsPart
      <3>2. ASSUME NEW x \in Part(N, L) PROVE x \in 0 .. StorageSize - 1
        <4>1. x \in Nat  BY <1>1, PartHas
        <4>2. PICK i \in L : Has(N, i, x)  BY <1>1, PartHas
        <4> QED  BY <4>1, <4>2, <1>1 DEF Has
      <3>3. ASSUME NEW x \in 0 .. StorageSize - 1 PROVE x \in Part(N, L)
        <4>1. \E i \in L : Has(N, i, x)  BY <1>0 DEF Cut, Covered
        <4>2. x \in Nat  OBVIOUS
        <4> QED  BY <4>1, <4>2, <1>1, PartHas
      <3> QED  BY <3>1, <3>2, <3>3
    <2>2. \A i, j \in L : i # j => EndOf(a, i) <= N[j].offset \/ EndOf(a, j) <= N[i].offset
      BY <1>0, <1>2 DEF Cut, Regions, Apart
    <2>3. \A i \in L :
             /\ N[i].size > 0
             /\ IF N[i].prev = None THEN N[i].offset = 0
                ELSE N[i].prev \in L /\ N[N[i].prev].next = i
             /\ IF N[i].next = None THEN EndOf(a, i) = StorageSize
                ELSE /\ N[i].next \in L /\ N[N[i].next].prev = i
                     /\ EndOf(a, i) = N[N[i].next].offset
      <3>1. Linked(N, L)  BY <1>0 DEF Cut
      <3>2. \A i \in L : N[i].size > 0  BY <1>1
      <3> QED  BY <3>1, <3>2, <1>2 DEF Linked
    <2> QED  BY <2>1, <2>2, <2>3 DEF Tiled
  <1>4. Coalesced(a)
    <2>1. Merged(N, L)  BY <1>0 DEF Cut
    <2> QED  BY <2>1 DEF Merged, Coalesced, FreeNodes
  <1>5. Binned(a)
    <2>1. BinLinks(a, FreeNodes(a))  BY <1>0 DEF Mid
    <2>2. /\ a.usedBins = {b \in Bin : a.bins[b] # None}
          /\ a.usedTops = {TopOf(b) : b \in a.usedBins}
      BY <2>1 DEF BinLinks
    <2>3. \A b \in a.usedBins : /\ a.bins[b] \in FreeNodes(a)
                                /\ a.nodes[a.bins[b]].binPrev = None
                                /\ uintToFloatRoundDown(a.nodes[a.bins[b]].size) = b
      BY <2>1, <2>2 DEF BinLinks
    <2>4. \A i \in FreeNodes(a) :
             /\ IF a.nodes[i].binPrev = None THEN a.bins[uintToFloatRoundDown(a.nodes[i].size)] = i
                ELSE /\ a.nodes[i].binPrev \in FreeNodes(a)
                     /\ a.nodes[a.nodes[i].binPrev].binNext = i
             /\ a.nodes[i].binNext # None =>
                  /\ a.nodes[i].binNext \in FreeNodes(a)
                  /\ a.nodes[a.nodes[i].binNext].binPrev = i
                  /\ uintToFloatRoundDown(a.nodes[a.nodes[i].binNext].size)
                       = uintToFloatRoundDown(a.nodes[i].size)
      BY <2>1 DEF BinLinks
    <2> QED  BY <2>2, <2>3, <2>4 DEF Binned
  <1>6. a.freeStorage = Cardinality(Units(a, FreeNodes(a)))
    BY UnitsIsPart DEF Whole
  <1> QED  BY <1>3, <1>4, <1>5, <1>6 DEF Sound

-----------------------------------------------------------------------------
(* allocate() and free() of a whole allocator.                              *)

\* Adding a node when none is free changes nothing else.
LEMMA GrownOk ==
    ASSUME NEW a, Whole(a)
    PROVE  /\ Whole(Grown(a)) /\ Grown(a).nodes = a.nodes /\ Grown(a).bins = a.bins
           /\ Grown(a).freeStorage = a.freeStorage /\ Live(Grown(a)) = Live(a)
           /\ ~OutOfNodes(a) => Grown(a).freeList # <<>>
  <1> DEFINE r == Grown(a)
             s == <<a.capacity>>
             c == a.capacity + 1
  <1>0. /\ a \in AllocRec /\ Mid(a, FreeNodes(a)) /\ a.capacity \in InitCapacity .. MaxCapacity
        /\ a.capacity \in Nat /\ MaxCapacity \in Nat /\ InitCapacity \in Nat
    BY WholeFacts, AllocatorAssumption DEF Whole
  <1>1. CASE a.freeList # <<>> \/ OutOfNodes(a)
    <2>1. r = a  BY <1>1 DEF Grown
    <2>2. ~OutOfNodes(a) => a.freeList # <<>>  BY <1>1
    <2> HIDE DEF r
    <2>3. /\ Whole(r) /\ r.nodes = a.nodes /\ r.bins = a.bins
          /\ r.freeStorage = a.freeStorage /\ Live(r) = Live(a)
          /\ ~OutOfNodes(a) => r.freeList # <<>>
      BY <2>1, <2>2
    <2> QED  BY <2>3 DEF r
  <1>2. CASE a.freeList = <<>> /\ ~OutOfNodes(a)
    <2>1. r = [a EXCEPT !.freeList = s, !.capacity = c]
      <3>1. r = [a EXCEPT !.freeList = s, !.capacity = @ + 1]  BY <1>2 DEF Grown
      <3> QED  BY <3>1
    <2>2. c \in InitCapacity .. MaxCapacity /\ a.capacity \in Node
      BY <1>0, <1>2 DEF OutOfNodes, Node
    <2>3. s \in Seq(Node) /\ DOMAIN s = {1} /\ s[1] = a.capacity /\ s # <<>>  BY <2>2
    <2>4. Elems(s) = {a.capacity}  BY <2>3 DEF Elems
    <2>5. Elems(s) \subseteq 0 .. c - 1 /\ \A j, k \in DOMAIN s : s[j] = s[k] => j = k
      BY <2>3, <2>4, <1>0
    <2> HIDE DEF s, c
    <2> HIDE DEF r
    <2>6. Restacked(a, r, FreeNodes(a), s, c)
      <3> DEFINE x == [a EXCEPT !.freeList = s, !.capacity = c]
      <3>1. Restacked(a, x, FreeNodes(a), s, c)  BY <1>0, <2>2, <2>3, <2>5, SetStack
      <3>2. r = x  BY <2>1
      <3> HIDE DEF x
      <3> QED  BY <3>1, <3>2
    <2>7. /\ Mid(r, FreeNodes(a)) /\ r.nodes = a.nodes /\ r.bins = a.bins /\ r.freeList = s
          /\ r.capacity = c /\ r.freeStorage = a.freeStorage
      BY <2>6 DEF Restacked
    <2>8. Live(r) = Live(a)
      <3>1. Elems(a.freeList) = {}  BY <1>2 DEF Elems
      <3>2. (0 .. c - 1) \ {a.capacity} = 0 .. a.capacity - 1  BY <1>0 DEF c
      <3> QED  BY <3>1, <3>2, <2>4, <2>7 DEF Live
    <2>9. FreeNodes(r) = FreeNodes(a)  BY <2>7, <2>8 DEF FreeNodes
    <2>10. Whole(r)  BY <2>7, <2>8, <2>9 DEF Whole
    <2> QED  BY <2>3, <2>7, <2>8, <2>10 DEF r
  <1> QED  BY <1>1, <1>2

\* A free node that is used as a whole.
LEMMA UsedCut ==
    ASSUME NEW N \in [Node -> NodeRec], NEW K \in [Node -> NodeRec], NEW L, Cut(N, L), NEW i \in L,
           \A k \in L : /\ From(K, k) = From(N, k) /\ K[k].size = N[k].size
                        /\ K[k].next = N[k].next /\ K[k].prev = N[k].prev
                        /\ K[k].used = (N[k].used \/ k = i)
    PROVE  Cut(K, L)
  <1>0. Regions(N, L) /\ Linked(N, L) /\ Covered(N, L) /\ Merged(N, L) /\ L \subseteq Node
    BY DEF Cut, Regions
  <1>1. \A k \in L : To(K, k) = To(N, k)  BY DEF To, From
  <1>2. Regions(K, L)  BY <1>0, <1>1 DEF Regions, Apart
  <1>3. Linked(K, L)  BY <1>0, <1>1 DEF Linked
  <1>4. Covered(K, L)  BY <1>0, <1>1 DEF Covered, Has
  <1>5. Merged(K, L)
    <2> SUFFICES ASSUME NEW k \in L, ~K[k].used, K[k].next # None PROVE K[K[k].next].used
      BY DEF Merged
    <2>1. ~N[k].used /\ N[k].next # None /\ K[k].next = N[k].next  OBVIOUS
    <2>2. N[N[k].next].used /\ N[k].next \in L  BY <2>1, <1>0 DEF Merged, Linked
    <2> QED  BY <2>1, <2>2
  <1> QED  BY <1>2, <1>3, <1>4, <1>5 DEF Cut

\* Units of nodes that are the same in two tables.
LEMMA SamePart ==
    ASSUME NEW N, NEW K, NEW S, \A k \in S : From(K, k) = From(N, k) /\ K[k].size = N[k].size
    PROVE  Part(K, S) = Part(N, S)
  BY DEF Part, To, From

\* The units of one more node.
LEMMA MorePart == ASSUME NEW N, NEW S, NEW i
                  PROVE  Part(N, S \cup {i}) = Part(N, S) \cup (From(N, i) .. To(N, i) - 1)
  BY DEF Part

\* In r, the free node i of a is in use with at least size units.
Allocated(a, r, i, size) ==
    /\ Whole(r) /\ i \in FreeNodes(a) /\ Used(r) = Used(a) \cup {i}
    /\ r.nodes[i].offset = a.nodes[i].offset /\ r.nodes[i].size >= size
    /\ \A k \in Used(a) : /\ r.nodes[k].offset = a.nodes[k].offset
                          /\ r.nodes[k].size = a.nodes[k].size

\* allocate() marks a free node that is large enough as used.
LEMMA AllocOk ==
    ASSUME NEW a, Whole(a), NEW size \in Nat \ {0}, CanAllocate(a, size)
    PROVE  Allocated(a, allocate(a, size), NodeFor(a, size), size)
  <1> DEFINE N == a.nodes
             L == Live(a)
             U == FreeNodes(a)
             g == Grown(a)
             f == FindBin(a, size)
             i == NodeFor(a, size)
             u == uintToFloatRoundUp(size)
             z == floatToUint(u)
             W == U \ {i}
             p == PopBin(g, f)
             rest == N[i].size - z
             lo == From(N, i) + z
             r == allocate(a, size)
  <1>0. /\ a \in AllocRec /\ N \in [Node -> NodeRec] /\ L \subseteq Node /\ U \subseteq L
        /\ Mid(a, U) /\ Cut(N, L) /\ a.freeStorage = Cardinality(Part(N, U))
        /\ \A k \in L : /\ From(N, k) \in Nat /\ To(N, k) \in Nat
                        /\ To(N, k) = From(N, k) + N[k].size
                        /\ N[k].size \in Nat /\ N[k].size >= 1 /\ To(N, k) <= StorageSize
        /\ \A j, k \in L : j # k => Apart(N, j, k)
        /\ StorageSize \in Nat /\ \A k \in U : ~N[k].used
    BY WholeFacts, AllocatorAssumption DEF Whole, FreeNodes
  <1>1. /\ Whole(g) /\ g.nodes = N /\ g.bins = a.bins /\ g.freeStorage = a.freeStorage
        /\ Live(g) = L /\ g.freeList # <<>> /\ FreeNodes(g) = U /\ Mid(g, U)
    <2>1. /\ Whole(g) /\ g.nodes = N /\ g.bins = a.bins /\ g.freeStorage = a.freeStorage
          /\ Live(g) = L /\ g.freeList # <<>>
      BY GrownOk DEF CanAllocate
    <2> HIDE DEF g
    <2>2. FreeNodes(g) = U  BY <2>1 DEF FreeNodes
    <2> QED  BY <2>1, <2>2 DEF Whole
  <1>2. /\ f \in a.usedBins /\ f >= u /\ f \in Bin /\ f \in Nat /\ a.bins[f] # None /\ i = a.bins[f]
        /\ i \in U /\ uintToFloatRoundDown(N[i].size) = f
    <2>1. f \in a.usedBins /\ f >= u  BY <1>0, FindBinOk DEF CanAllocate
    <2>2. i = a.bins[f]  BY DEF NodeFor
    <2> HIDE DEF f, i, u
    <2>3. f \in Bin /\ a.bins[f] # None /\ i \in U /\ uintToFloatRoundDown(N[i].size) = f
      BY <2>1, <2>2, <1>0 DEF Mid, BinLinks
    <2> QED  BY <2>1, <2>2, <2>3, BinOf
  <1>3. z \in Nat /\ z # 0 /\ size <= z /\ z <= N[i].size
    <2>0. u \in Nat /\ z \in Nat /\ floatToUint(f) \in Nat /\ N[i].size \in Nat
      <3>1. u \in Nat  BY RoundUpOk
      <3>2. N[i].size \in Nat  BY <1>0, <1>2
      <3> QED  BY <3>1, <3>2, <1>2, FloatNext
    <2>1. z >= size  BY <2>0, RoundUpOk
    <2>2. floatToUint(f) <= N[i].size  BY <2>0, <1>2, RoundDownOk
    <2>3. u = f \/ u < f  BY <2>0, <1>2
    <2>4. z <= floatToUint(f)  BY <2>0, <2>3, <1>2, FloatMono
    <2> HIDE DEF z
    <2> QED  BY <2>0, <2>1, <2>2, <2>4
  <1> DEFINE X == p.nodes
             M == [X EXCEPT ![i] = [@ EXCEPT !.size = z, !.used = TRUE, !.binNext = None]]
             b == [p EXCEPT !.nodes = M]
             new == Head(p.freeList)
             c == insertNodeIntoBin(b, rest, lo)
             K == Neighbours(Neighbours(c.nodes, i, new), new, N[i].next)
  <1>4. /\ Mid(p, W) /\ p \in AllocRec /\ \A k \in Node : SameRegion(X[k], N[k])
        /\ p.freeList = g.freeList /\ p.capacity = g.capacity
        /\ p.freeStorage = a.freeStorage - N[i].size
    <2> HIDE DEF g, f, i
    <2>1. Popped(g, p, i) /\ Mid(p, W)  BY <1>1, <1>2, PopLinks
    <2> HIDE DEF p
    <2> QED  BY <2>1, <1>1 DEF Popped
  <1>5. r = IF rest = 0 THEN b ELSE [c EXCEPT !.nodes = K]
    <2>1. r = Split(p, i, z)  BY DEF allocate
    <2>2. /\ X[i].size = N[i].size /\ X[i].offset = From(N, i) /\ X[i].next = N[i].next
      BY <1>0, <1>2, <1>4 DEF SameRegion, From
    <2>3. b = [p EXCEPT !.nodes[i] = [@ EXCEPT !.size = z, !.used = TRUE, !.binNext = None]]
      OBVIOUS
    <2> HIDE DEF p, i, z, r
    <2> QED  BY <2>1, <2>2, <2>3 DEF Split
  <1> HIDE DEF p, i, z, g, f, u, r
  <1>6. /\ M \in [Node -> NodeRec] /\ \A k \in Node \ {i} : M[k] = X[k]
        /\ M[i].offset = N[i].offset /\ M[i].size = z /\ M[i].used
        /\ M[i].next = N[i].next /\ M[i].prev = N[i].prev
    <2>1. X \in [Node -> NodeRec] /\ i \in Node /\ X[i] \in NodeRec
      BY <1>0, <1>2, <1>4 DEF AllocRec
    <2> DEFINE m == [X[i] EXCEPT !.size = z, !.used = TRUE, !.binNext = None]
    <2>2. M = [X EXCEPT ![i] = m]  OBVIOUS
    <2>3. /\ m \in NodeRec /\ m.offset = X[i].offset /\ m.size = z /\ m.used = TRUE
          /\ m.next = X[i].next /\ m.prev = X[i].prev
      BY <2>1, <1>3, LinkFacts DEF NodeRec
    <2> HIDE DEF m, M
    <2>4. M[i] = m /\ \A k \in Node \ {i} : M[k] = X[k]  BY <2>1, <2>2
    <2>5. M \in [Node -> NodeRec]  BY <2>1, <2>2, <2>3
    <2> QED  BY <2>1, <2>3, <2>4, <2>5, <1>4 DEF SameRegion
  <1> HIDE DEF M
  <1>7. /\ Mid(b, W) /\ b.nodes = M /\ b.bins = p.bins /\ b.freeList = p.freeList
        /\ b.capacity = p.capacity /\ b.freeStorage = p.freeStorage
    <2>1. W \subseteq Node \ {i}  BY <1>0
    <2>2. \A k \in W : /\ M[k].size = p.nodes[k].size /\ M[k].binNext = p.nodes[k].binNext
                       /\ M[k].binPrev = p.nodes[k].binPrev
      BY <2>1, <1>6
    <2> QED  BY <2>2, <1>4, <1>6, SetNodes
  <1> HIDE DEF b
  <1>8. /\ i \in L /\ i \in Node /\ ~N[i].used /\ W \subseteq L /\ W \in SUBSET Node
        /\ \A k \in Node \ {i} : SameRegion(M[k], N[k])
    BY <1>0, <1>2, <1>4, <1>6
  <1>9. a.freeStorage = Cardinality(Part(N, W)) + N[i].size
    <2> DEFINE o == From(N, i)
               s == N[i].size
    <2>1. \A k \in W : To(N, k) <= StorageSize  BY <1>0, <1>8
    <2>2. \A k \in W : To(N, k) <= o \/ o + s <= From(N, k)
      BY <1>0, <1>8 DEF Apart
    <2>3. o \in Nat /\ s \in Nat /\ To(N, i) = o + s  BY <1>0, <1>8
    <2>4. U = W \cup {i}  BY <1>2
    <2>5. Part(N, W \cup {i}) = Part(N, W) \cup (From(N, i) .. To(N, i) - 1)  BY MorePart
    <2>9. N \in [Node -> NodeRec] /\ W \in SUBSET Node  BY <1>0, <1>8
    <2> HIDE DEF W, U, o, N
    <2>10. From(N, i) = o  BY DEF o
    <2> HIDE DEF s
    <2>6. Part(N, U) = Part(N, W) \cup (o .. o + s - 1)
      <3>1. From(N, i) .. To(N, i) - 1 = o .. o + s - 1  BY <2>3, <2>10
      <3>2. Part(N, U) = Part(N, W) \cup (From(N, i) .. To(N, i) - 1)  BY <2>4, <2>5
      <3> QED  BY <3>1, <3>2
    <2>7. Cardinality(Part(N, W) \cup (o .. o + s - 1)) = Cardinality(Part(N, W)) + s
      BY <2>1, <2>2, <2>3, <2>9, AddPart
    <2>8. a.freeStorage = Cardinality(Part(N, W)) + s  BY <2>6, <2>7, <1>0
    <2> QED  BY <2>8 DEF s
  <1>10. Cardinality(Part(N, W)) \in Nat /\ p.freeStorage = Cardinality(Part(N, W))
    <2>1. \A k \in W : To(N, k) <= StorageSize  BY <1>0, <1>8
    <2>2. Cardinality(Part(N, W)) \in 0 .. StorageSize  BY <2>1, <1>0, <1>8, PartFinite
    <2>3. N[i].size \in Nat  BY <1>0, <1>8
    <2> QED  BY <2>2, <2>3, <1>0, <1>4, <1>9
  <1>11. Elems(g.freeList) \subseteq 0 .. g.capacity - 1 /\ L = (0 .. g.capacity - 1) \ Elems(g.freeList)
    BY <1>1 DEF Mid, Stack, Live
  <1>12. CASE rest = 0
    <2>1. r = b  BY <1>5, <1>12
    <2>2. N[i].size = z  BY <1>0, <1>3, <1>8, <1>12
    <2>3. /\ \A k \in L : /\ From(M, k) = From(N, k) /\ M[k].size = N[k].size
                          /\ M[k].next = N[k].next /\ M[k].prev = N[k].prev
          /\ \A k \in L \ {i} : M[k].used = N[k].used
      BY <2>2, <1>0, <1>6, <1>8 DEF SameRegion, From
    <2>4. \A k \in L : M[k].used = (N[k].used \/ k = i)
      <3>1. \A k \in L : N[k].used \in BOOLEAN /\ M[k].used \in BOOLEAN  BY <1>0, <1>6, RegionType
      <3> QED  BY <3>1, <2>3, <1>6
    <2>5. Cut(M, L)  BY <2>3, <2>4, <1>0, <1>6, <1>8, UsedCut
    <2>6. Live(r) = L /\ r.nodes = M  BY <2>1, <1>4, <1>7, <1>11 DEF Live
    <2>7. FreeNodes(r) = W
      <3>1. FreeNodes(r) = {k \in L : ~M[k].used}  BY <2>6 DEF FreeNodes
      <3>2. W = {k \in L : ~N[k].used /\ k # i}  BY DEF FreeNodes
      <3> HIDE DEF W
      <3> QED  BY <3>1, <3>2, <2>4
    <2>8. Used(r) = Used(a) \cup {i}
      <3>1. Used(r) = {k \in L : M[k].used}  BY <2>6 DEF Used
      <3>2. Used(a) = {k \in L : N[k].used}  BY DEF Used
      <3> QED  BY <3>1, <3>2, <2>4, <1>8
    <2>9. Part(M, W) = Part(N, W)  BY <2>3, <1>8, SamePart
    <2>10. Whole(r)  BY <2>1, <2>5, <2>6, <2>7, <2>9, <1>7, <1>10 DEF Whole
    <2>11. \A k \in L : M[k].offset = N[k].offset /\ M[k].size = N[k].size  BY <2>3 DEF From
    <2>12. Used(a) \subseteq L  BY DEF Used
    <2>13. M[i].offset = N[i].offset /\ M[i].size >= size  BY <2>2, <2>11, <1>3, <1>8
    <2>14. Allocated(a, r, i, size)
      BY <2>6, <2>8, <2>10, <2>11, <2>12, <2>13, <1>2 DEF Allocated
    <2> QED  BY <2>14 DEF r, i
  <1>13. CASE rest # 0
    <2> DEFINE V == W \cup {new}
               q == N[i].next
               Y == Neighbours(c.nodes, i, new)
    <2>1. /\ rest \in 1 .. StorageSize /\ lo \in Nat /\ z < N[i].size /\ q \in Link
          /\ From(N, i) \in Nat /\ N[i].size \in Nat /\ lo = From(N, i) + z
          /\ rest = N[i].size - z /\ lo + rest = To(N, i)
      <3>1. /\ From(N, i) \in Nat /\ N[i].size \in Nat /\ To(N, i) = From(N, i) + N[i].size
            /\ To(N, i) <= StorageSize
        BY <1>0, <1>8
      <3>2. q \in Link  BY <1>0, <1>8, RegionType
      <3> QED  BY <3>1, <3>2, <1>0, <1>3, <1>13
    <2>2. /\ new \in Node /\ new \in Elems(p.freeList) /\ p.freeList # <<>>
          /\ Elems(Tail(p.freeList)) = Elems(p.freeList) \ {new}
      <3>1. p.freeList \in Seq(Node) /\ p.freeList # <<>>  BY <1>1, <1>4 DEF AllocRec
      <3>2. \A j, k \in DOMAIN p.freeList : p.freeList[j] = p.freeList[k] => j = k
        BY <1>4 DEF Mid, Stack
      <3> QED  BY <3>1, <3>2, PopStack
    <2>3. new \notin L /\ new # i /\ new \notin W /\ q # new
      <3>1. new \notin L  BY <2>2, <1>4, <1>11
      <3>2. q # None => q \in L  BY <1>0, <1>8 DEF Cut, Linked
      <3> QED  BY <3>1, <3>2, <2>2, <1>8, LinkFacts
    <2> HIDE DEF rest, lo
    <2>4. Inserted(b, c, rest, lo) /\ Mid(c, V)
      <3>1. b \in AllocRec /\ b.freeList # <<>> /\ Head(b.freeList) = new
        BY <2>2, <1>7 DEF Mid
      <3>2. Inserted(b, c, rest, lo)  BY <3>1, <2>1, InsertFields
      <3>3. Mid(c, W \cup {Head(b.freeList)})  BY <3>1, <2>1, <2>3, <1>7, InsertLinks
      <3> QED  BY <3>1, <3>2, <3>3
    <2> HIDE DEF c
    <2>5. /\ c.nodes \in [Node -> NodeRec]
          /\ \A k \in Node \ {new} : SameRegion(c.nodes[k], M[k])
          /\ c.nodes[new].offset = lo /\ c.nodes[new].size = rest /\ ~c.nodes[new].used
          /\ c.freeList = Tail(p.freeList) /\ c.capacity = g.capacity
          /\ c.freeStorage = p.freeStorage + rest
      <3>1. Head(b.freeList) = new  BY <1>7
      <3> HIDE DEF new
      <3>2. c \in AllocRec  BY <2>4 DEF Mid
      <3> QED  BY <3>1, <3>2, <2>4, <1>4, <1>7 DEF Inserted, AllocRec
    <2> HIDE DEF new, q
    <2>6. /\ Y \in [Node -> NodeRec]
          /\ \A k \in Node : /\ SamePlace(Y[k], c.nodes[k])
                             /\ Y[k].next = IF k = i THEN new ELSE c.nodes[k].next
                             /\ Y[k].prev = IF k = new THEN i ELSE c.nodes[k].prev
      BY <2>2, <2>5, <1>8, LinkFacts, NeighboursOk
    <2> HIDE DEF Y
    <2>7. /\ K \in [Node -> NodeRec]
          /\ \A k \in Node : /\ SamePlace(K[k], Y[k])
                             /\ K[k].next = IF k = new THEN q ELSE Y[k].next
                             /\ K[k].prev = IF k = q THEN new ELSE Y[k].prev
      <3> DEFINE Z == Neighbours(Y, new, q)
      <3>1. K = Z  BY DEF Y, q
      <3>2. /\ Z \in [Node -> NodeRec]
            /\ \A k \in Node : /\ SamePlace(Z[k], Y[k])
                               /\ Z[k].next = IF k = new THEN q ELSE Y[k].next
                               /\ Z[k].prev = IF k = q THEN new ELSE Y[k].prev
        BY <2>1, <2>2, <2>6, LinkFacts, NeighboursOk
      <3> HIDE DEF K, Z
      <3> QED  BY <3>1, <3>2
    <2> HIDE DEF K
    <2>8. /\ Mid(r, V) /\ r.nodes = K /\ r.freeList = c.freeList
          /\ r.capacity = c.capacity /\ r.freeStorage = c.freeStorage
      <3>1. V \subseteq Node  BY <2>2, <1>8
      <3>2. \A k \in V : /\ K[k].size = c.nodes[k].size /\ K[k].binNext = c.nodes[k].binNext
                         /\ K[k].binPrev = c.nodes[k].binPrev
        BY <3>1, <2>6, <2>7 DEF SamePlace
      <3> DEFINE x == [c EXCEPT !.nodes = K]
      <3>3. /\ Mid(x, V) /\ x.nodes = K /\ x.freeList = c.freeList
            /\ x.capacity = c.capacity /\ x.freeStorage = c.freeStorage
        BY <3>2, <2>4, <2>7, SetNodes
      <3>4. r = x  BY <1>5, <1>13 DEF rest
      <3> HIDE DEF x
      <3> QED  BY <3>3, <3>4
    <2>9. /\ \A k \in L \ {i} : /\ K[k].offset = N[k].offset /\ K[k].size = N[k].size
                                /\ K[k].used = N[k].used /\ K[k].next = N[k].next
                                /\ K[k].prev = IF k = q THEN new ELSE N[k].prev
          /\ K[i].offset = N[i].offset /\ K[i].size = z /\ K[i].used
          /\ K[i].next = new
          /\ K[new].offset = lo /\ K[new].size = rest /\ ~K[new].used
          /\ K[new].next = q /\ K[new].prev = i
      <3>1. \A k \in L \ {i} : k \in Node /\ k # new /\ k # i  BY <2>3, <1>0
      <3>2. \A k \in L \ {i} : /\ K[k].offset = N[k].offset /\ K[k].size = N[k].size
                                /\ K[k].used = N[k].used /\ K[k].next = N[k].next
                                /\ K[k].prev = IF k = q THEN new ELSE N[k].prev
        BY <3>1, <2>5, <2>6, <2>7, <1>8 DEF SamePlace, SameRegion
      <3>3. /\ K[i].offset = N[i].offset /\ K[i].size = z /\ K[i].used /\ K[i].next = new
        BY <2>3, <2>5, <2>6, <2>7, <1>6, <1>8 DEF SamePlace, SameRegion
      <3>4. /\ K[new].offset = lo /\ K[new].size = rest /\ ~K[new].used
            /\ K[new].next = q /\ K[new].prev = i
        BY <2>2, <2>3, <2>5, <2>6, <2>7 DEF SamePlace
      <3> QED  BY <3>2, <3>3, <3>4
    <2>10. K[i].prev = N[i].prev
      <3>1. i # q
        <4>1. q # None => To(N, i) = From(N, q)  BY <1>0, <1>8 DEF Cut, Linked, q
        <4> QED  BY <4>1, <1>0, <1>8, LinkFacts
      <3> QED  BY <3>1, <2>3, <2>5, <2>6, <2>7, <1>6, <1>8 DEF SameRegion
    <2>11. Cut(K, L \cup {new})
      <3>1. Halved(N, K, L, i, new, z)  BY <2>1, <2>9, <2>10 DEF Halved, From, q
      <3> HIDE DEF N, L
      <3> QED  BY <3>1, <2>1, <2>2, <2>3, <2>7, <1>0, <1>3, <1>8, HalvedCut
    <2>12. Live(r) = L \cup {new}
      <3>1. Elems(r.freeList) = Elems(g.freeList) \ {new} /\ r.capacity = g.capacity
        BY <2>2, <2>5, <2>8, <1>4
      <3>2. new \in 0 .. g.capacity - 1  BY <2>2, <1>4, <1>11
      <3>3. L = (0 .. g.capacity - 1) \ Elems(g.freeList)  BY <1>11
      <3>4. Live(r) = (0 .. g.capacity - 1) \ (Elems(g.freeList) \ {new})  BY <3>1 DEF Live
      <3> HIDE DEF L
      <3> QED  BY <3>2, <3>3, <3>4
    <2>13. FreeNodes(r) = V
      <3>1. FreeNodes(r) = {k \in L \cup {new} : ~K[k].used}  BY <2>8, <2>12 DEF FreeNodes
      <3>2. W = {k \in L : ~N[k].used /\ k # i}  BY DEF FreeNodes
      <3> HIDE DEF W, L, N
      <3> QED  BY <3>1, <3>2, <2>3, <2>9
    <2>14. Used(r) = Used(a) \cup {i}
      <3>1. Used(r) = {k \in L \cup {new} : K[k].used}  BY <2>8, <2>12 DEF Used
      <3>2. Used(a) = {k \in L : N[k].used}  BY DEF Used
      <3> HIDE DEF L, N
      <3> QED  BY <3>1, <3>2, <2>3, <2>9, <1>8
    <2>15. r.freeStorage = Cardinality(Part(K, V))
      <3>1. W \subseteq L \ {i}  BY <1>8
      <3>2. Part(K, W) = Part(N, W)  BY <3>1, <2>9, SamePart DEF From
      <3>3. Part(K, V) = Part(K, W) \cup (From(K, new) .. To(K, new) - 1)  BY MorePart
      <3>4. From(K, new) = lo /\ To(K, new) = lo + rest  BY <2>9 DEF From, To
      <3>5. From(K, new) .. To(K, new) - 1 = lo .. lo + rest - 1  BY <3>4, <2>1
      <3>6. \A k \in W : To(N, k) <= StorageSize  BY <1>0, <1>8
      <3>7. \A k \in W : To(N, k) <= lo \/ lo + rest <= From(N, k)
        <4>1. \A k \in W : To(N, k) <= From(N, i) \/ To(N, i) <= From(N, k)
          BY <1>0, <1>8 DEF Apart
        <4>2. \A k \in W : To(N, k) \in Nat /\ From(N, k) \in Nat  BY <1>0, <1>8
        <4>3. From(N, i) <= lo  BY <2>1, <1>3
        <4> HIDE DEF W, N
        <4> QED  BY <4>1, <4>2, <4>3, <2>1
      <3>8. N \in [Node -> NodeRec] /\ W \in SUBSET Node /\ rest \in Nat  BY <1>0, <1>8, <2>1
      <3> HIDE DEF W, V, N
      <3>9. Cardinality(Part(N, W) \cup (lo .. lo + rest - 1)) = Cardinality(Part(N, W)) + rest
        BY <3>6, <3>7, <3>8, <2>1, AddPart
      <3>10. Part(K, V) = Part(N, W) \cup (lo .. lo + rest - 1)  BY <3>2, <3>3, <3>5
      <3> QED  BY <3>9, <3>10, <2>5, <2>8, <1>10
    <2>16. Whole(r)  BY <2>8, <2>11, <2>12, <2>13, <2>15 DEF Whole
    <2>17. Used(a) \subseteq L \ {i}  BY <1>8 DEF Used
    <2>18. /\ r.nodes[i].offset = a.nodes[i].offset /\ r.nodes[i].size >= size
           /\ \A k \in Used(a) : /\ r.nodes[k].offset = a.nodes[k].offset
                                 /\ r.nodes[k].size = a.nodes[k].size
      BY <2>8, <2>9, <2>17, <1>3
    <2>19. Allocated(a, r, i, size)  BY <2>14, <2>16, <2>18, <1>2 DEF Allocated
    <2> QED  BY <2>19 DEF r, i
  <1> QED  BY <1>12, <1>13

\* In b, the nodes A of a have left their bins; w is the number of their units.
Taken(a, U, b, A, w) ==
    /\ Mid(b, U \ A) /\ \A k \in Node \ A : SameRegion(b.nodes[k], a.nodes[k])
    /\ Elems(b.freeList) = Elems(a.freeList) \cup A /\ b.capacity = a.capacity
    /\ b.freeStorage = a.freeStorage - w

\* free() takes a neighbour out of its bin if it is free.
LEMMA TakenOk ==
    ASSUME NEW a, NEW U, Mid(a, U), NEW j,
           NEW m \in BOOLEAN, m => j \in U /\ j \notin Elems(a.freeList) /\ j < a.capacity
    PROVE  Taken(a, U, IF m THEN removeNodeFromBin(a, j) ELSE a, IF m THEN {j} ELSE {},
                 IF m THEN a.nodes[j].size ELSE 0)
  <1>1. CASE m
    <2> DEFINE b == removeNodeFromBin(a, j)
    <2>1. Removed(a, b, j) /\ Mid(b, U \ {j})  BY <1>1, RemoveLinks
    <2> HIDE DEF b
    <2>2. Taken(a, U, b, {j}, a.nodes[j].size)  BY <2>1 DEF Removed, Taken
    <2> QED  BY <2>2, <1>1 DEF b
  <1>2. CASE ~m
    <2>1. a.freeStorage \in Int  BY DEF Mid, AllocRec
    <2>2. a.freeStorage = a.freeStorage - 0 /\ U \ {} = U  BY <2>1
    <2>3. Taken(a, U, a, {}, 0)  BY <2>2 DEF Taken, SameRegion
    <2> QED  BY <2>3, <1>2
  <1> QED  BY <1>1, <1>2

\* In r, the used node i of a is free.
Freed(a, r, i) ==
    /\ Whole(r) /\ Used(r) = Used(a) \ {i}
    /\ \A k \in Used(r) : /\ r.nodes[k].offset = a.nodes[k].offset
                          /\ r.nodes[k].size = a.nodes[k].size

\* free() gives the units of a used node back and joins them with its free
\* neighbours.
LEMMA FreeOk ==
    ASSUME NEW a, Whole(a), NEW i \in Used(a)
    PROVE  Freed(a, free(a, i), i)
  <1> DEFINE N == a.nodes
             L == Live(a)
             U == FreeNodes(a)
             j == N[i].prev
             l == N[i].next
             mj == j # None /\ ~N[j].used
             ml == l # None /\ ~N[l].used
             A == IF mj THEN {j} ELSE {}
             B == IF ml THEN {l} ELSE {}
             bo == IF mj THEN From(N, j) ELSE From(N, i)
             bs == IF mj THEN N[j].size ELSE 0
             P == IF mj THEN N[j].prev ELSE j
             es == IF ml THEN N[l].size ELSE 0
             Q == IF ml THEN N[l].next ELSE l
             b == IF mj THEN removeNodeFromBin(a, j) ELSE a
             c == IF ml THEN removeNodeFromBin(b, l) ELSE b
             sum == bs + N[i].size + es
             e == [c EXCEPT !.freeList = <<i>> \o @]
             d == insertNodeIntoBin(e, sum, bo)
             K == Neighbours(Neighbours(d.nodes, P, i), i, Q)
             r == free(a, i)
  <1>0. /\ a \in AllocRec /\ N \in [Node -> NodeRec] /\ L \subseteq Node /\ U \subseteq L
        /\ Mid(a, U) /\ Cut(N, L) /\ a.freeStorage = Cardinality(Part(N, U))
        /\ \A k \in L : /\ From(N, k) \in Nat /\ To(N, k) \in Nat
                        /\ To(N, k) = From(N, k) + N[k].size
                        /\ N[k].size \in Nat /\ N[k].size >= 1 /\ To(N, k) <= StorageSize
                        /\ k < a.capacity /\ k \notin Elems(a.freeList)
        /\ \A x, y \in L : x # y => Apart(N, x, y)
        /\ StorageSize \in Nat /\ \A k \in U : ~N[k].used
        /\ i \in L /\ i \in Node /\ N[i].used /\ i \notin U /\ None \notin Node
    BY WholeFacts, AllocatorAssumption, LinkFacts DEF Whole, FreeNodes, Used
  <1>1. r = [d EXCEPT !.nodes = K]
    <2> DEFINE before == IF mj THEN N[j] ELSE [offset |-> N[i].offset, size |-> 0, prev |-> N[i].prev]
               behind == IF ml THEN N[l] ELSE [size |-> 0, next |-> N[i].next]
               d0 == insertNodeIntoBin(e, before.size + N[i].size + behind.size, before.offset)
    <2>1. r = [d0 EXCEPT !.nodes = Neighbours(Neighbours(@, before.prev, i), i, behind.next)]
      BY DEF free
    <2>2. before.size = bs /\ before.offset = bo /\ before.prev = P  BY DEF From
    <2>3. behind.size = es /\ behind.next = Q  OBVIOUS
    <2> HIDE DEF r, before, behind, e, bs, es, bo, P, Q
    <2> QED  BY <2>1, <2>2, <2>3
  <1>2. Before(N, L, i, A, bo, bs, P)
    <2>1. /\ mj => Before(N, L, i, {j}, From(N, j), N[j].size, N[j].prev)
          /\ ~mj => Before(N, L, i, {}, From(N, i), 0, j)
      BY <1>0, BeforeOk
    <2> HIDE DEF mj, j
    <2>2. CASE mj  BY <2>1, <2>2
    <2>3. CASE ~mj  BY <2>1, <2>3
    <2> QED  BY <2>2, <2>3
  <1>3. Behind(N, L, i, B, es, Q)
    <2>1. /\ ml => Behind(N, L, i, {l}, N[l].size, N[l].next)
          /\ ~ml => Behind(N, L, i, {}, 0, l)
      BY <1>0, BehindOk
    <2> HIDE DEF ml, l
    <2>2. CASE ml  BY <2>1, <2>2
    <2>3. CASE ~ml  BY <2>1, <2>3
    <2> QED  BY <2>2, <2>3
  <1>4. /\ mj \in BOOLEAN /\ ml \in BOOLEAN
        /\ mj => j \in U /\ j \notin Elems(a.freeList) /\ j < a.capacity /\ j # i
        /\ ml => l \in U /\ l \notin Elems(a.freeList) /\ l < a.capacity /\ l # i
        /\ A \subseteq U /\ B \subseteq U /\ j \in Link /\ l \in Link
    <2>1. (j # None => j \in L) /\ (l # None => l \in L)  BY <1>0 DEF Cut, Linked
    <2>2. /\ mj => j \in U
          /\ ml => l \in U
      BY <2>1 DEF FreeNodes
    <2>3. j \in Link /\ l \in Link  BY <1>0, RegionType
    <2>4. mj \in BOOLEAN /\ ml \in BOOLEAN  OBVIOUS
    <2>5. /\ mj => j \notin Elems(a.freeList) /\ j < a.capacity /\ j # i
          /\ ml => l \notin Elems(a.freeList) /\ l < a.capacity /\ l # i
      BY <2>2, <1>0
    <2> HIDE DEF mj, ml, j, l
    <2> QED  BY <2>2, <2>3, <2>4, <2>5
  <1>5. A \cap B = {}
    <2> SUFFICES ASSUME NEW k \in A, k \in B PROVE FALSE  OBVIOUS
    <2>1. k \in L /\ From(N, k) \in Nat /\ Has(N, k, From(N, k))
      BY <1>0, <1>4 DEF Has
    <2>2. From(N, k) < bo + bs /\ bo + bs = From(N, i)  BY <2>1, <1>2 DEF Before
    <2>3. To(N, i) <= From(N, k)  BY <2>1, <1>3 DEF Behind
    <2> QED  BY <2>1, <2>2, <2>3, <1>0
  <1>6. Taken(a, U, b, A, bs)  BY <1>0, <1>4, TakenOk
  <1> HIDE DEF b
  <1>7. Taken(b, U \ A, c, B, es)
    <2>1. Mid(b, U \ A)  BY <1>6 DEF Taken
    <2>2. ml => /\ l \in U \ A /\ l \notin Elems(b.freeList) /\ l < b.capacity
                /\ b.nodes[l].size = N[l].size
      <3> SUFFICES ASSUME ml PROVE /\ l \in U \ A /\ l \notin Elems(b.freeList) /\ l < b.capacity
                                   /\ b.nodes[l].size = N[l].size
        OBVIOUS
      <3>1. l \in U /\ l \notin A /\ l \notin Elems(a.freeList) /\ l < a.capacity /\ l \in Node
        BY <1>0, <1>4, <1>5
      <3> HIDE DEF A, U, l, N
      <3> QED  BY <3>1, <1>6 DEF Taken, SameRegion, N
    <2>3. Taken(b, U \ A, c, B, IF ml THEN b.nodes[l].size ELSE 0)
      <3> HIDE DEF A, U, l, N, ml
      <3> QED  BY <2>1, <2>2, <1>4, TakenOk
    <2>4. es = IF ml THEN b.nodes[l].size ELSE 0  BY <2>2
    <2> HIDE DEF es, ml
    <2> QED  BY <2>3, <2>4
  <1>8. /\ \A x \in Nat : (\E k \in A : Has(N, k, x)) <=> bo <= x /\ x < bo + bs
        /\ \A x \in Nat : (\E k \in B : Has(N, k, x)) <=> To(N, i) <= x /\ x < To(N, i) + es
    <2>1. \A x \in Nat : (\E k \in A : Has(N, k, x)) <=> bo <= x /\ x < bo + bs
      <3>1. CASE mj
        <4>1. \A x \in Nat : Has(N, j, x) <=> bo <= x /\ x < bo + bs
          BY <3>1, <1>0, <1>4 DEF Has
        <4>2. A = {j}  BY <3>1
        <4> HIDE DEF A, bs, bo, N, j
        <4> QED  BY <4>1, <4>2
      <3>2. CASE ~mj
        <4>1. A = {} /\ bs = 0 /\ bo = From(N, i) /\ From(N, i) \in Nat  BY <3>2, <1>0
        <4> HIDE DEF A, bs, bo, N
        <4> QED  BY <4>1
      <3> QED  BY <3>1, <3>2
    <2>2. \A x \in Nat : (\E k \in B : Has(N, k, x)) <=> To(N, i) <= x /\ x < To(N, i) + es
      <3>1. CASE ml
        <4>1. From(N, l) = To(N, i)  BY <3>1, <1>0 DEF Cut, Linked
        <4>2. \A x \in Nat : Has(N, l, x) <=> To(N, i) <= x /\ x < To(N, i) + es
          BY <4>1, <3>1, <1>0, <1>4 DEF Has
        <4>3. B = {l}  BY <3>1
        <4> HIDE DEF B, es, N, l
        <4> QED  BY <4>2, <4>3
      <3>2. CASE ~ml
        <4>1. B = {} /\ es = 0 /\ To(N, i) \in Nat  BY <3>2, <1>0
        <4> HIDE DEF B, es, N
        <4> QED  BY <4>1
      <3> QED  BY <3>1, <3>2
    <2> QED  BY <2>1, <2>2
  <1> HIDE DEF c, A, B, bs, es, bo, P, Q, j, l, mj, ml
  <1> DEFINE W == U \ (A \cup B)
             V == W \cup {i}
             M == L \ (A \cup B)
             Y == Neighbours(d.nodes, P, i)
  <1>9. /\ Mid(c, W) /\ \A k \in Node \ (A \cup B) : SameRegion(c.nodes[k], N[k])
        /\ Elems(c.freeList) = Elems(a.freeList) \cup A \cup B /\ c.capacity = a.capacity
        /\ c.freeStorage = (a.freeStorage - bs) - es
    <2>1. W = (U \ A) \ B  OBVIOUS
    <2> HIDE DEF W, U
    <2>2. Mid(c, W)  BY <2>1, <1>7 DEF Taken
    <2>3. \A k \in Node \ (A \cup B) : SameRegion(c.nodes[k], N[k])
      BY <1>6, <1>7 DEF Taken, SameRegion
    <2> QED  BY <2>2, <2>3, <1>6, <1>7 DEF Taken
  <1>10. /\ A \subseteq L \ {i} /\ B \subseteq L \ {i} /\ i \notin A \cup B
         /\ bo \in Nat /\ bs \in Nat /\ es \in Nat /\ bo + bs = From(N, i)
         /\ To(N, i) + es <= StorageSize
         /\ (P # None => P \in L /\ P # i) /\ (Q # None => Q \in L /\ Q # i)
         /\ P \in Link /\ Q \in Link /\ P # i /\ Q # i
    <2>1. /\ A \subseteq L \ {i} /\ bo \in Nat /\ bs \in Nat /\ bo + bs = From(N, i)
          /\ P # None => P \in L /\ P # i
      BY <1>2 DEF Before
    <2>2. /\ B \subseteq L \ {i} /\ es \in Nat /\ To(N, i) + es <= StorageSize
          /\ Q # None => Q \in L /\ Q # i
      BY <1>3 DEF Behind
    <2> QED  BY <2>1, <2>2, <1>0, LinkFacts
  <1>11. /\ From(N, i) \in Nat /\ N[i].size \in Nat /\ To(N, i) = From(N, i) + N[i].size
         /\ sum \in 1 .. StorageSize /\ bo + sum = To(N, i) + es
    <2>1. /\ From(N, i) \in Nat /\ N[i].size \in Nat /\ To(N, i) = From(N, i) + N[i].size
          /\ N[i].size >= 1 /\ StorageSize \in Nat
      BY <1>0
    <2> HIDE DEF N
    <2> QED  BY <2>1, <1>10
  <1>12. /\ Mid(e, W) /\ e.nodes = c.nodes /\ e.capacity = c.capacity /\ e.freeStorage = c.freeStorage
         /\ e.freeList # <<>> /\ Head(e.freeList) = i /\ Tail(e.freeList) = c.freeList
    <2>1. a.capacity \in Nat /\ i \in Nat /\ i < a.capacity
      BY <1>0, AllocatorAssumption, LinkFacts DEF AllocRec
    <2>2. i \in 0 .. c.capacity - 1  BY <2>1, <1>9
    <2>3. i \notin Elems(c.freeList)  BY <1>0, <1>9, <1>10
    <2> HIDE DEF W
    <2> QED  BY <2>2, <2>3, <1>9, PushNode
  <1> HIDE DEF e, sum
  <1>13. Inserted(e, d, sum, bo) /\ Mid(d, V)
    <2>1. e \in AllocRec /\ i \notin W  BY <1>0, <1>12 DEF Mid
    <2> HIDE DEF W
    <2>2. Inserted(e, d, sum, bo)  BY <2>1, <1>10, <1>11, <1>12, InsertFields
    <2>3. Mid(d, W \cup {Head(e.freeList)})  BY <2>1, <1>10, <1>11, <1>12, InsertLinks
    <2> QED  BY <2>2, <2>3, <1>12
  <1> HIDE DEF d
  <1>14. /\ d.nodes \in [Node -> NodeRec]
         /\ \A k \in Node \ {i} : SameRegion(d.nodes[k], c.nodes[k])
         /\ d.nodes[i].offset = bo /\ d.nodes[i].size = sum /\ ~d.nodes[i].used
         /\ d.freeList = c.freeList /\ d.capacity = a.capacity
         /\ d.freeStorage = ((a.freeStorage - bs) - es) + sum
    <2>1. d \in AllocRec  BY <1>13 DEF Mid
    <2> QED  BY <2>1, <1>9, <1>12, <1>13 DEF Inserted, AllocRec
  <1>15. /\ Y \in [Node -> NodeRec]
         /\ \A k \in Node : /\ SamePlace(Y[k], d.nodes[k])
                            /\ Y[k].next = IF k = P THEN i ELSE d.nodes[k].next
                            /\ Y[k].prev = IF k = i THEN P ELSE d.nodes[k].prev
    <2>1. d.nodes \in [Node -> NodeRec] /\ P \in Link /\ i \in Link  BY <1>0, <1>10, <1>14, LinkFacts
    <2> QED  BY <2>1, NeighboursOk
  <1>16. /\ K \in [Node -> NodeRec]
         /\ \A k \in Node : /\ SamePlace(K[k], Y[k])
                            /\ K[k].next = IF k = i THEN Q ELSE Y[k].next
                            /\ K[k].prev = IF k = Q THEN i ELSE Y[k].prev
    <2> DEFINE Z == Neighbours(Y, i, Q)
    <2>1. K = Z  OBVIOUS
    <2> HIDE DEF Y
    <2>2. /\ Z \in [Node -> NodeRec]
          /\ \A k \in Node : /\ SamePlace(Z[k], Y[k])
                             /\ Z[k].next = IF k = i THEN Q ELSE Y[k].next
                             /\ Z[k].prev = IF k = Q THEN i ELSE Y[k].prev
      BY <1>0, <1>10, <1>15, LinkFacts, NeighboursOk
    <2> HIDE DEF K, Z
    <2> QED  BY <2>1, <2>2
  <1> HIDE DEF Y, K
  <1>17. /\ Mid(r, V) /\ r.nodes = K /\ r.freeList = d.freeList
         /\ r.capacity = d.capacity /\ r.freeStorage = d.freeStorage
    <2>1. V \subseteq Node  BY <1>0
    <2>2. \A k \in V : /\ K[k].size = d.nodes[k].size /\ K[k].binNext = d.nodes[k].binNext
                       /\ K[k].binPrev = d.nodes[k].binPrev
      BY <2>1, <1>15, <1>16 DEF SamePlace
    <2> DEFINE x == [d EXCEPT !.nodes = K]
    <2> HIDE DEF V
    <2>3. /\ Mid(x, V) /\ x.nodes = K /\ x.freeList = d.freeList
          /\ x.capacity = d.capacity /\ x.freeStorage = d.freeStorage
      BY <2>2, <1>13, <1>16, SetNodes
    <2>4. r = x  BY <1>1
    <2> HIDE DEF x, r
    <2> QED  BY <2>3, <2>4
  <1> HIDE DEF r
  <1>18. /\ \A k \in M \ {i} : /\ K[k].offset = N[k].offset /\ K[k].size = N[k].size
                               /\ K[k].used = N[k].used
                               /\ K[k].next = IF k = P THEN i ELSE N[k].next
                               /\ K[k].prev = IF k = Q THEN i ELSE N[k].prev
         /\ K[i].offset = bo /\ K[i].size = sum /\ ~K[i].used
         /\ K[i].next = Q /\ K[i].prev = P
    <2>1. \A k \in M \ {i} : k \in Node /\ k # i /\ k \in Node \ (A \cup B)  BY <1>0
    <2> HIDE DEF M, N
    <2>2. \A k \in M \ {i} : /\ K[k].offset = N[k].offset /\ K[k].size = N[k].size
                             /\ K[k].used = N[k].used
                             /\ K[k].next = IF k = P THEN i ELSE N[k].next
                             /\ K[k].prev = IF k = Q THEN i ELSE N[k].prev
      BY <2>1, <1>9, <1>14, <1>15, <1>16 DEF SamePlace, SameRegion
    <2>3. /\ K[i].offset = bo /\ K[i].size = sum /\ ~K[i].used /\ K[i].next = Q /\ K[i].prev = P
      BY <1>0, <1>10, <1>14, <1>15, <1>16 DEF SamePlace
    <2> QED  BY <2>2, <2>3
  <1>19. Cut(K, M)
    <2>1. Joined(N, K, L, i, A, B, bo, bs, P, es, Q)
      <3>1. L \ (A \cup B \cup {i}) = M \ {i}  OBVIOUS
      <3> HIDE DEF M, N, L
      <3> QED  BY <3>1, <1>18 DEF Joined, From, sum
    <2> HIDE DEF N, L
    <2> QED  BY <2>1, <1>0, <1>2, <1>3, <1>16, JoinedCut
  <1>20. Live(r) = M
    <2>1. Elems(r.freeList) = Elems(a.freeList) \cup A \cup B /\ r.capacity = a.capacity
      BY <1>9, <1>14, <1>17
    <2> QED  BY <2>1 DEF Live
  <1>21. FreeNodes(r) = V
    <2>1. FreeNodes(r) = {k \in M : ~K[k].used}  BY <1>17, <1>20 DEF FreeNodes
    <2>2. i \in M  BY <1>0, <1>10
    <2>3. W = {k \in M \ {i} : ~N[k].used}  BY <1>0 DEF FreeNodes
    <2> HIDE DEF W, M, N
    <2> QED  BY <2>1, <2>2, <2>3, <1>18
  <1>22. Used(r) = Used(a) \ {i}
    <2>1. Used(r) = {k \in M : K[k].used}  BY <1>17, <1>20 DEF Used
    <2>2. \A k \in A \cup B : ~N[k].used  BY <1>2, <1>3 DEF Before, Behind
    <2>3. Used(a) \ {i} = {k \in M \ {i} : N[k].used}  BY <2>2 DEF Used
    <2> HIDE DEF M, N
    <2> QED  BY <2>1, <2>3, <1>18
  <1>23. r.freeStorage = Cardinality(Part(K, V))
    <2> DEFINE o == From(N, i)
               s == N[i].size
    <2>1. ASSUME NEW x PROVE x \in Part(K, V) <=> x \in Part(N, U) \cup (o .. o + s - 1)
      <3>1. x \in Part(K, V) <=> x \in Nat /\ \E k \in V : Has(K, k, x)
        BY <1>0, <1>16, PartHas
      <3>2. x \in Part(N, U) <=> x \in Nat /\ \E k \in U : Has(N, k, x)
        BY <1>0, PartHas
      <3>3. ASSUME NEW k \in W PROVE Has(K, k, x) <=> Has(N, k, x)
        <4>1. k \in M \ {i}  BY <1>0
        <4> HIDE DEF M, N
        <4> QED  BY <4>1, <1>18 DEF Has, From, To
      <3>4. Has(K, i, x) <=> bo <= x /\ x < bo + sum  BY <1>18 DEF Has, From, To
      <3>5. U = W \cup (A \cup B)  BY <1>4
      <3>6. x \in o .. o + s - 1 <=> x \in Nat /\ From(N, i) <= x /\ x < To(N, i)
        <4>1. o \in Nat /\ s \in Nat /\ To(N, i) = o + s /\ o = From(N, i)  BY <1>11
        <4> HIDE DEF o, s
        <4> QED  BY <4>1
      <3>7. CASE x \in Nat
        <4>1. /\ (\E k \in A : Has(N, k, x)) <=> bo <= x /\ x < bo + bs
              /\ (\E k \in B : Has(N, k, x)) <=> To(N, i) <= x /\ x < To(N, i) + es
          BY <3>7, <1>8
        <4>2. (bo <= x /\ x < bo + sum)
                <=> ((bo <= x /\ x < bo + bs) \/ (From(N, i) <= x /\ x < To(N, i))
                      \/ (To(N, i) <= x /\ x < To(N, i) + es))
          <5> HIDE DEF N
          <5> QED  BY <3>7, <1>10, <1>11
        <4> HIDE DEF W, U, N, o, s
        <4>3. (\E k \in V : Has(K, k, x)) <=> ((\E k \in W : Has(N, k, x)) \/ Has(K, i, x))
          BY <3>3
        <4>4. (\E k \in U : Has(N, k, x))
                <=> ((\E k \in W : Has(N, k, x)) \/ (\E k \in A : Has(N, k, x))
                      \/ (\E k \in B : Has(N, k, x)))
          BY <3>5
        <4> HIDE DEF V
        <4>5. (\E k \in V : Has(K, k, x))
                <=> ((\E k \in U : Has(N, k, x)) \/ (From(N, i) <= x /\ x < To(N, i)))
          BY <4>1, <4>2, <4>3, <4>4, <3>4
        <4> QED  BY <4>5, <3>1, <3>2, <3>6, <3>7
      <3>8. CASE x \notin Nat  BY <3>1, <3>2, <3>6, <3>8
      <3> QED  BY <3>7, <3>8
    <2>2. Part(K, V) = Part(N, U) \cup (o .. o + s - 1)
      <3> HIDE DEF V, U, N, o, s
      <3> QED  BY <2>1
    <2>3. /\ o \in Nat /\ s \in Nat /\ N \in [Node -> NodeRec] /\ U \in SUBSET Node
          /\ \A k \in U : To(N, k) <= StorageSize
      BY <1>0
    <2>4. \A k \in U : To(N, k) <= o \/ o + s <= From(N, k)
      <3>1. \A k \in U : k \in L /\ k # i  BY <1>0
      <3>2. o + s = To(N, i)  BY <1>0
      <3> QED  BY <3>1, <3>2, <1>0 DEF Apart
    <2>5. a.freeStorage \in Int  BY <1>0 DEF AllocRec
    <2>6. r.freeStorage = a.freeStorage + s
      <3>1. r.freeStorage = ((a.freeStorage - bs) - es) + sum /\ sum = bs + s + es
        BY <1>14, <1>17 DEF sum
      <3> HIDE DEF s
      <3> QED  BY <3>1, <2>3, <2>5, <1>10
    <2> HIDE DEF N, U, V, o, s
    <2>7. Cardinality(Part(N, U) \cup (o .. o + s - 1)) = Cardinality(Part(N, U)) + s
      BY <2>3, <2>4, AddPart
    <2> QED  BY <2>2, <2>6, <2>7, <1>0
  <1>24. Whole(r)  BY <1>17, <1>19, <1>20, <1>21, <1>23 DEF Whole
  <1>25. Used(r) \subseteq M \ {i}  BY <1>20, <1>22 DEF Used
  <1>26. \A k \in Used(r) : /\ r.nodes[k].offset = a.nodes[k].offset
                            /\ r.nodes[k].size = a.nodes[k].size
    BY <1>17, <1>18, <1>25
  <1>27. Freed(a, r, i)  BY <1>22, <1>24, <1>26 DEF Freed
  <1> QED  BY <1>27 DEF r

\* A new allocator is one free region.
LEMMA NewOk == Whole(NewAllocator) /\ Used(NewAllocator) = {}
  <1> DEFINE F == [k \in 1 .. InitCapacity |-> k - 1]
             z == [nodes |-> [k \in Node |-> NoNode], bins |-> [b \in Bin |-> None],
                   usedBins |-> {}, usedTops |-> {}, capacity |-> InitCapacity,
                   freeList |-> F, freeStorage |-> 0]
             r == insertNodeIntoBin(z, StorageSize, 0)
             K == r.nodes
  <1>0. /\ StorageSize \in Nat /\ StorageSize >= 1 /\ StorageSize \in 1 .. StorageSize /\ 0 \in Nat
        /\ InitCapacity \in Nat /\ InitCapacity >= 1 /\ MaxCapacity \in Nat /\ MaxCapacity >= InitCapacity
    BY AllocatorAssumption
  <1>1. r = NewAllocator  BY DEF NewAllocator
  <1>2. /\ F \in Seq(Node) /\ F # <<>> /\ Elems(F) = 0 .. InitCapacity - 1
        /\ \A j, k \in DOMAIN F : F[j] = F[k] => j = k
        /\ Head(F) = 0
    <2>1. F \in [1 .. InitCapacity -> Node]  BY <1>0 DEF Node
    <2>2. F \in Seq(Node) /\ DOMAIN F = 1 .. InitCapacity  BY <2>1, <1>0, SeqDef
    <2>3. \A k \in 1 .. InitCapacity : F[k] = k - 1  OBVIOUS
    <2> HIDE DEF F
    <2>4. F # <<>> /\ Head(F) = F[1]
      <3>1. 1 \in DOMAIN F  BY <2>2, <1>0
      <3>2. F # <<>>  BY <3>1
      <3> QED  BY <3>2, <2>2, HeadTailProperties
    <2>5. Head(F) = 0  BY <2>3, <2>4, <1>0
    <2>6. \A j, k \in DOMAIN F : F[j] = F[k] => j = k  BY <2>2, <2>3, <1>0
    <2>7. Elems(F) = 0 .. InitCapacity - 1
      <3>1. ASSUME NEW x \in Elems(F) PROVE x \in 0 .. InitCapacity - 1
        <4>1. PICK k \in 1 .. InitCapacity : x = F[k]  BY <2>2 DEF Elems
        <4> QED  BY <4>1, <2>3, <1>0
      <3>2. ASSUME NEW x \in 0 .. InitCapacity - 1 PROVE x \in Elems(F)
        <4>1. x + 1 \in 1 .. InitCapacity /\ (x + 1) - 1 = x  BY <1>0
        <4>2. F[x + 1] = x  BY <4>1, <2>3
        <4> QED  BY <4>1, <4>2, <2>2 DEF Elems
      <3> QED  BY <3>1, <3>2
    <2> QED  BY <2>2, <2>4, <2>5, <2>6, <2>7
  <1> HIDE DEF F
  <1>3. Mid(z, {}) /\ z.freeList = F /\ z.capacity = InitCapacity /\ z.freeStorage = 0
    <2>1. NoNode \in NodeRec  BY LinkFacts DEF NoNode, NewNode, NodeRec
    <2>2. [k \in Node |-> NoNode] \in [Node -> NodeRec] /\ [b \in Bin |-> None] \in [Bin -> Link]
      BY <2>1, LinkFacts
    <2>3. z \in AllocRec  BY <2>2, <1>0, <1>2 DEF AllocRec
    <2>4. /\ z.freeList = F /\ z.capacity = InitCapacity /\ z.freeStorage = 0
          /\ z.usedBins = {} /\ z.usedTops = {} /\ \A b \in Bin : z.bins[b] = None
      OBVIOUS
    <2> HIDE DEF z
    <2>5. Stack(z)  BY <2>4, <1>2 DEF Stack
    <2>6. BinLinks(z, {})  BY <2>4 DEF BinLinks
    <2> QED  BY <2>3, <2>4, <2>5, <2>6 DEF Mid
  <1> HIDE DEF z
  <1>4. Inserted(z, r, StorageSize, 0) /\ Mid(r, {0})
    <2>1. z \in AllocRec /\ z.freeList # <<>> /\ Head(z.freeList) = 0  BY <1>2, <1>3 DEF Mid
    <2>2. Inserted(z, r, StorageSize, 0)  BY <2>1, <1>0, InsertFields
    <2>3. Mid(r, {} \cup {Head(z.freeList)})  BY <2>1, <1>0, <1>3, InsertLinks
    <2>4. {} \cup {Head(z.freeList)} = {0}  BY <2>1
    <2> HIDE DEF r
    <2> QED  BY <2>2, <2>3, <2>4
  <1> HIDE DEF r
  <1>5. /\ K \in [Node -> NodeRec] /\ 0 \in Node
        /\ K[0].offset = 0 /\ K[0].size = StorageSize /\ ~K[0].used
        /\ K[0].next = None /\ K[0].prev = None
        /\ r.freeList = Tail(F) /\ r.capacity = InitCapacity /\ r.freeStorage = 0 + StorageSize
    <2>1. r \in AllocRec /\ Head(z.freeList) = 0  BY <1>2, <1>3, <1>4 DEF Mid
    <2> QED  BY <2>1, <1>3, <1>4 DEF Inserted, AllocRec
  <1>6. Live(r) = {0}
    <2>1. Elems(Tail(F)) = Elems(F) \ {0}  BY <1>2, PopStack
    <2>2. 0 \in 0 .. InitCapacity - 1  BY <1>0
    <2> QED  BY <2>1, <2>2, <1>2, <1>5 DEF Live
  <1>7. FreeNodes(r) = {0} /\ Used(r) = {}  BY <1>5, <1>6 DEF FreeNodes, Used
  <1>8. Cut(K, {0})
    <2>1. From(K, 0) = 0 /\ To(K, 0) = StorageSize  BY <1>0, <1>5 DEF From, To
    <2>2. Regions(K, {0})  BY <2>1, <1>0, <1>5 DEF Regions
    <2>3. Linked(K, {0})  BY <2>1, <1>5 DEF Linked
    <2>4. Covered(K, {0})  BY <2>1, <1>0 DEF Covered, Has
    <2>5. Merged(K, {0})  BY <1>5 DEF Merged
    <2> QED  BY <2>2, <2>3, <2>4, <2>5 DEF Cut
  <1>9. r.freeStorage = Cardinality(Part(K, {0}))
    <2>1. Part(K, {} \cup {0}) = Part(K, {}) \cup (From(K, 0) .. To(K, 0) - 1)  BY MorePart
    <2>2. Part(K, {}) = {} /\ {} \cup {0} = {0}  BY DEF Part
    <2>3. From(K, 0) = 0 /\ To(K, 0) = 0 + StorageSize  BY <1>5 DEF From, To
    <2>4. From(K, 0) .. To(K, 0) - 1 = 0 .. 0 + StorageSize - 1  BY <2>3, <1>0
    <2>5. Part(K, {0}) = {} \cup (0 .. 0 + StorageSize - 1)
      <3>1. Part(K, {0}) = {} \cup (From(K, 0) .. To(K, 0) - 1)  BY <2>1, <2>2
      <3> QED  BY <3>1, <2>4
    <2>6. IsFiniteSet({}) /\ Cardinality({}) = 0  BY FS_EmptySet
    <2>7. Cardinality({} \cup (0 .. 0 + StorageSize - 1)) = Cardinality({}) + StorageSize
      BY <2>6, <1>0, AddUnits
    <2> QED  BY <2>5, <2>6, <2>7, <1>0, <1>5
  <1>10. Whole(r)  BY <1>4, <1>6, <1>7, <1>8, <1>9 DEF Whole
  <1> QED  BY <1>1, <1>7, <1>10

-----------------------------------------------------------------------------
(* The buffers that the calls hold, and the allocators behind them.         *)

\* Node and region of a buffer.
Backed(a, b) ==
    /\ b.node \in Used(a) /\ a.nodes[b.node].offset = b.offset
    /\ b.size <= a.nodes[b.node].size

\* The buffers H are those of the used nodes.
Backing(al, H) ==
    /\ al \in [Segment -> AllocRec] /\ \A s \in Segment : Whole(al[s])
    /\ H \subseteq Buffer
    /\ \A b \in H : Backed(al[b.seg], b)
    /\ \A b, c \in H : b.seg = c.seg /\ b.node = c.node => b = c
    /\ \A s \in Segment : \A i \in Used(al[s]) : \E b \in H : b.seg = s /\ b.node = i

\* The units of the buffers in a segment.
Occupied(H, s) == UNION {b.offset .. b.offset + b.size - 1 : b \in {c \in H : c.seg = s}}

Counted(cu, H) ==
    cu \in [Segment -> Nat] /\ \A s \in Segment : cu[s] = Cardinality(Occupied(H, s))

AllHeld(f) == UNION {HeldBy(f[t]) : t \in Caller}

-----------------------------------------------------------------------------
(* The calls.                                                               *)

CallRec == [pc : {"idle", "pick", "try", "slice", "done", "failed"}, slices : Seq(Nat \ {0}),
            rn : Nat, pref : PrefNames \cup {"none"}, count : Nat, bufs : Seq(Seq(Buffer)),
            got : Seq(Buffer), tried : SUBSET Segment, eligible : SUBSET Segment, tries : Nat,
            drop : SUBSET Buffer]

\* The replicas of a call have the same slices, each of its size, and those of
\* one slice have different names.
Even(c) ==
    /\ Len(c.bufs) = c.count
    /\ \A j \in DOMAIN c.bufs : Len(c.bufs[j]) = Len(c.bufs[1])
    /\ \A j \in DOMAIN c.bufs : \A i \in DOMAIN c.bufs[j] : c.bufs[j][i].size = c.slices[i]
    /\ \A j, k \in DOMAIN c.bufs : j # k =>
         \A i \in DOMAIN c.bufs[j] : NameOf[c.bufs[j][i].seg] # NameOf[c.bufs[k][i].seg]

\* The buffers of the slice under way.
Getting(c) ==
    /\ Len(c.got) <= c.count
    /\ c.got # <<>> => c.pc \in {"pick", "try", "slice"} /\ c.drop = {}
    /\ \A k \in DOMAIN c.got : c.got[k].size = SliceSize(c)
    /\ \A j, k \in DOMAIN c.got : j # k => NameOf[c.got[j].seg] # NameOf[c.got[k].seg]

\* Where a call stands.
Stage(c) ==
    /\ c.pc \in {"idle", "failed"} => c.bufs = <<>> /\ c.count = 0
    /\ c.pc \in {"pick", "try", "slice", "done"} => c.count \in 1 .. c.rn
    /\ c.pc \in {"pick", "try", "slice"} => Len(c.bufs[1]) < Len(c.slices)
    /\ c.pc = "done" => Len(c.bufs[1]) = Len(c.slices)
    /\ c.pc \in {"try", "slice"} => c.drop = {}
    /\ c.pc = "try" => /\ Len(c.got) < c.count
                       /\ \A s \in c.eligible : NameOf[s] \notin UsedNames(c)

\* A call holds every buffer once.
Once(c) ==
    /\ c.drop \cap Elems(c.got) = {} /\ c.drop \cap BufsOf(c.bufs, DOMAIN c.bufs) = {}
    /\ Elems(c.got) \cap BufsOf(c.bufs, DOMAIN c.bufs) = {}
    /\ \A j, k \in DOMAIN c.bufs : j # k => Elems(c.bufs[j]) \cap Elems(c.bufs[k]) = {}

Good(c) == c \in CallRec /\ Even(c) /\ Getting(c) /\ Stage(c) /\ Once(c)

\* No two calls hold the same buffer.
Calls(f) ==
    /\ DOMAIN f = Caller /\ f = [t \in Caller |-> f[t]]
    /\ \A t \in Caller : Good(f[t])
    /\ \A t, u \in Caller : t # u => HeldBy(f[t]) \cap HeldBy(f[u]) = {}

AllocInv == Calls(call) /\ Backing(alloc, AllHeld(call)) /\ Counted(curSize, AllHeld(call))

-----------------------------------------------------------------------------
(* Buffers and allocators.                                                  *)

\* The numbers of a buffer.
LEMMA BufferType == ASSUME NEW b \in Buffer
                    PROVE  /\ b.seg \in Segment /\ b.node \in Node /\ b.offset \in Nat
                           /\ b.size \in Nat /\ b.size >= 1
  BY AllocatorAssumption DEF Buffer

\* A buffer lies in the region of its node.
LEMMA BackedIn ==
    ASSUME NEW a, Whole(a), NEW b \in Buffer, Backed(a, b)
    PROVE  /\ b.node \in Live(a) /\ b.offset = From(a.nodes, b.node)
           /\ b.offset + b.size <= To(a.nodes, b.node) /\ b.offset + b.size <= StorageSize
  <1>1. b.node \in Used(a) /\ From(a.nodes, b.node) = b.offset /\ b.size <= a.nodes[b.node].size
    BY DEF Backed, From
  <1>2. /\ b.node \in Live(a) /\ From(a.nodes, b.node) \in Nat /\ To(a.nodes, b.node) \in Nat
        /\ To(a.nodes, b.node) = From(a.nodes, b.node) + a.nodes[b.node].size
        /\ a.nodes[b.node].size \in Nat /\ To(a.nodes, b.node) <= StorageSize
    BY <1>1, WholeFacts
  <1>3. b.size \in Nat /\ StorageSize \in Nat  BY BufferType, AllocatorAssumption
  <1> QED  BY <1>1, <1>2, <1>3

\* Two buffers of a segment do not overlap.
LEMMA BackedApart ==
    ASSUME NEW al, NEW H, Backing(al, H), NEW b \in H, NEW c \in H, b.seg = c.seg, b # c
    PROVE  b.offset + b.size <= c.offset \/ c.offset + c.size <= b.offset
  <1> DEFINE a == al[b.seg]
  <1>1. /\ b \in Buffer /\ c \in Buffer /\ b.seg \in Segment /\ Whole(a)
        /\ Backed(a, b) /\ Backed(a, c) /\ b.node # c.node
    BY BufferType DEF Backing
  <1> HIDE DEF a
  <1>2. /\ b.node \in Live(a) /\ b.offset = From(a.nodes, b.node)
        /\ b.offset + b.size <= To(a.nodes, b.node)
        /\ c.node \in Live(a) /\ c.offset = From(a.nodes, c.node)
        /\ c.offset + c.size <= To(a.nodes, c.node)
    BY <1>1, BackedIn
  <1>3. To(a.nodes, b.node) <= From(a.nodes, c.node) \/ To(a.nodes, c.node) <= From(a.nodes, b.node)
    BY <1>1, <1>2, WholeFacts DEF Apart
  <1>4. To(a.nodes, b.node) \in Nat /\ To(a.nodes, c.node) \in Nat  BY <1>1, <1>2, WholeFacts
  <1>5. b.offset \in Nat /\ b.size \in Nat /\ c.offset \in Nat /\ c.size \in Nat  BY <1>1, BufferType
  <1> QED  BY <1>2, <1>3, <1>4, <1>5

\* The units of buffers.
LEMMA OccupiedHas ==
    ASSUME NEW H \in SUBSET Buffer, NEW s, NEW x
    PROVE  x \in Occupied(H, s)
             <=> x \in Nat /\ \E b \in H : b.seg = s /\ b.offset <= x /\ x < b.offset + b.size
  <1>1. ASSUME NEW b \in H
        PROVE  (x \in b.offset .. b.offset + b.size - 1)
                 <=> (x \in Nat /\ b.offset <= x /\ x < b.offset + b.size)
    <2>1. b.offset \in Nat /\ b.size \in Nat  BY BufferType
    <2> QED  BY <2>1
  <1>2. x \in Occupied(H, s) <=> \E b \in H : b.seg = s /\ x \in b.offset .. b.offset + b.size - 1
    BY DEF Occupied
  <1> QED  BY <1>1, <1>2

\* They are finitely many.
LEMMA OccupiedFinite ==
    ASSUME NEW al, NEW H, Backing(al, H), NEW s
    PROVE  IsFiniteSet(Occupied(H, s)) /\ Cardinality(Occupied(H, s)) \in Nat
  <1>0. StorageSize \in Nat  BY AllocatorAssumption
  <1>1. Occupied(H, s) \subseteq 0 .. StorageSize
    <2> SUFFICES ASSUME NEW x \in Occupied(H, s) PROVE x \in 0 .. StorageSize  OBVIOUS
    <2>1. H \in SUBSET Buffer  BY DEF Backing
    <2>2. x \in Nat  BY <2>1, OccupiedHas
    <2>3. PICK b \in H : b.offset <= x /\ x < b.offset + b.size  BY <2>1, OccupiedHas
    <2>4. b \in Buffer /\ Whole(al[b.seg]) /\ Backed(al[b.seg], b)  BY BufferType DEF Backing
    <2>5. b.offset + b.size <= StorageSize /\ b.offset \in Nat /\ b.size \in Nat
      BY <2>4, BackedIn, BufferType
    <2> QED  BY <2>2, <2>3, <2>5, <1>0
  <1>2. IsFiniteSet(0 .. StorageSize)  BY <1>0, FS_Interval
  <1>3. IsFiniteSet(Occupied(H, s))  BY <1>1, <1>2, FS_Subset
  <1> QED  BY <1>3, FS_CardinalityType

\* A buffer adds its size to what is occupied.
LEMMA OccupiedMore ==
    ASSUME NEW al, NEW H, NEW b, b \notin H, Backing(al, H \cup {b}), NEW s
    PROVE  /\ b.seg = s => Cardinality(Occupied(H \cup {b}, s)) = Cardinality(Occupied(H, s)) + b.size
           /\ b.seg # s => Cardinality(Occupied(H \cup {b}, s)) = Cardinality(Occupied(H, s))
  <1> DEFINE G == H \cup {b}
             O == Occupied(H, s)
             o == b.offset
             n == b.size
  <1>1. H \in SUBSET Buffer /\ b \in Buffer /\ G \in SUBSET Buffer  BY DEF Backing
  <1>2. o \in Nat /\ n \in Nat  BY <1>1, BufferType
  <1>3. IsFiniteSet(O) /\ Cardinality(O) \in Nat
    <2>1. O \subseteq Occupied(G, s)  BY DEF Occupied
    <2>2. IsFiniteSet(Occupied(G, s))  BY OccupiedFinite
    <2> QED  BY <2>1, <2>2, FS_Subset, FS_CardinalityType
  <1>4. CASE b.seg = s
    <2>1. Occupied(G, s) = O \cup (o .. o + n - 1)  BY <1>4 DEF Occupied
    <2>2. O \cap (o .. o + n - 1) = {}
      <3> SUFFICES ASSUME NEW x \in O, x \in o .. o + n - 1 PROVE FALSE  OBVIOUS
      <3>1. PICK c \in H : c.seg = s /\ c.offset <= x /\ x < c.offset + c.size
        BY <1>1, OccupiedHas
      <3>2. c \in G /\ b \in G /\ c # b  OBVIOUS
      <3>3. c.offset + c.size <= o \/ o + n <= c.offset  BY <3>1, <3>2, <1>4, BackedApart
      <3>4. c.offset \in Nat /\ c.size \in Nat  BY <1>1, BufferType
      <3> HIDE DEF o, n, O
      <3> QED  BY <3>1, <3>3, <3>4, <1>2
    <2> HIDE DEF O, o, n, G
    <2>3. Cardinality(O \cup (o .. o + n - 1)) = Cardinality(O) + n  BY <2>2, <1>2, <1>3, AddUnits
    <2>4. Cardinality(Occupied(G, s)) = Cardinality(O) + n  BY <2>1, <2>3
    <2> QED  BY <2>4, <1>4 DEF O, n, G
  <1>5. CASE b.seg # s
    <2>1. Occupied(G, s) = O  BY <1>5 DEF Occupied
    <2> HIDE DEF O, G
    <2>2. Cardinality(Occupied(G, s)) = Cardinality(O)  BY <2>1
    <2> QED  BY <2>2, <1>5 DEF O, G
  <1> QED  BY <1>4, <1>5

\* A buffer that allocate() returns.
NewBuffer(al, s, size) ==
    [seg |-> s, node |-> NodeFor(al[s], size),
     offset |-> al[s].nodes[NodeFor(al[s], size)].offset, size |-> size]

\* After OffsetBufferAllocator::allocate the new buffer is held too.
LEMMA TakeOk ==
    ASSUME NEW al, NEW cu, NEW H, Backing(al, H), Counted(cu, H), NEW s \in Segment,
           NEW size \in Nat \ {0}, CanAllocate(al[s], size)
    PROVE  LET b == NewBuffer(al, s, size)
           IN  /\ b \in Buffer /\ b \notin H
               /\ Backing([al EXCEPT ![s] = allocate(@, size)], H \cup {b})
               /\ Counted([cu EXCEPT ![s] = @ + size], H \cup {b})
  <1> DEFINE a == al[s]
             i == NodeFor(a, size)
             b == NewBuffer(al, s, size)
             r == allocate(a, size)
             bl == [al EXCEPT ![s] = r]
             bu == [cu EXCEPT ![s] = @ + size]
             G == H \cup {b}
  <1>0. /\ al \in [Segment -> AllocRec] /\ \A x \in Segment : Whole(al[x])
        /\ H \subseteq Buffer /\ \A c \in H : Backed(al[c.seg], c)
        /\ \A c, d \in H : c.seg = d.seg /\ c.node = d.node => c = d
        /\ \A x \in Segment : \A k \in Used(al[x]) : \E c \in H : c.seg = x /\ c.node = k
    BY DEF Backing
  <1>1. Allocated(a, r, i, size)  BY <1>0, AllocOk
  <1>2. bl = [al EXCEPT ![s] = allocate(@, size)]  OBVIOUS
  <1>3. b = [seg |-> s, node |-> i, offset |-> a.nodes[i].offset, size |-> size]
    BY DEF NewBuffer
  <1> HIDE DEF r, i, b, a
  <1>4. /\ Whole(r) /\ i \in FreeNodes(a) /\ Used(r) = Used(a) \cup {i}
        /\ r.nodes[i].offset = a.nodes[i].offset /\ r.nodes[i].size >= size
        /\ \A k \in Used(a) : /\ r.nodes[k].offset = a.nodes[k].offset
                              /\ r.nodes[k].size = a.nodes[k].size
    BY <1>1 DEF Allocated
  <1>5. /\ bl \in [Segment -> AllocRec] /\ bl[s] = r /\ \A x \in Segment \ {s} : bl[x] = al[x]
        /\ \A x \in Segment : Whole(bl[x])
    <2>1. r \in AllocRec  BY <1>4, WholeFacts
    <2> QED  BY <2>1, <1>0, <1>4
  <1> HIDE DEF bl
  <1>6. i \in Node /\ i \notin Used(a) /\ i \in Used(r)
    BY <1>0, <1>4, WholeFacts DEF FreeNodes, Used, a
  <1>7. b.seg = s /\ b.node = i /\ b.offset = a.nodes[i].offset /\ b.size = size  BY <1>3
  <1>8. b \in Buffer
    <2>1. /\ i \in Live(r) /\ r.nodes[i].size \in Nat /\ From(r.nodes, i) \in Nat
          /\ To(r.nodes, i) = From(r.nodes, i) + r.nodes[i].size /\ To(r.nodes, i) <= StorageSize
      BY <1>4, <1>6, WholeFacts
    <2>2. a.nodes[i].offset = From(r.nodes, i)  BY <1>4 DEF From
    <2>3. a.nodes[i].offset \in 0 .. StorageSize /\ size \in 1 .. StorageSize
      BY <2>1, <2>2, <1>4, AllocatorAssumption
    <2> QED  BY <2>3, <1>3, <1>6 DEF Buffer
  <1>9. b \notin H
    <2> SUFFICES ASSUME b \in H PROVE FALSE  OBVIOUS
    <2>1. Backed(al[s], b)  BY <1>0, <1>7
    <2> QED  BY <2>1, <1>6, <1>7 DEF Backed, a
  <1>10. Backed(r, b)  BY <1>4, <1>6, <1>7 DEF Backed
  <1>11. ASSUME NEW c \in H PROVE Backed(bl[c.seg], c) /\ ~(c.seg = b.seg /\ c.node = b.node)
    <2>0. c.seg \in Segment /\ Backed(al[c.seg], c)  BY <1>0, BufferType
    <2>1. CASE c.seg = s
      <3>1. Backed(a, c)  BY <2>0, <2>1 DEF a
      <3>2. Backed(r, c) /\ c.node # i  BY <3>1, <1>4, <1>6 DEF Backed
      <3> QED  BY <3>2, <2>1, <1>5, <1>7
    <2>2. CASE c.seg # s  BY <2>0, <2>2, <1>5, <1>7
    <2> QED  BY <2>1, <2>2
  <1>12. \A c \in G : Backed(bl[c.seg], c)  BY <1>5, <1>7, <1>10, <1>11
  <1>13. \A c, d \in G : c.seg = d.seg /\ c.node = d.node => c = d  BY <1>0, <1>11
  <1>14. ASSUME NEW x \in Segment, NEW k \in Used(bl[x])
         PROVE  \E c \in G : c.seg = x /\ c.node = k
    <2>1. CASE x = s /\ k = i  BY <2>1, <1>7
    <2>2. CASE ~(x = s /\ k = i)
      <3>1. k \in Used(al[x])  BY <2>2, <1>4, <1>5 DEF a
      <3> QED  BY <3>1, <1>0
    <2> QED  BY <2>1, <2>2
  <1>15. G \subseteq Buffer  BY <1>0, <1>8
  <1> HIDE DEF G
  <1>16. Backing(bl, G)  BY <1>5, <1>12, <1>13, <1>14, <1>15 DEF Backing
  <1>17. Counted(bu, G)
    <2>1. cu \in [Segment -> Nat] /\ \A x \in Segment : cu[x] = Cardinality(Occupied(H, x))
      BY DEF Counted
    <2>2. bu \in [Segment -> Nat]  BY <2>1
    <2>3. \A x \in Segment : bu[x] = cu[x] + (IF b.seg = x THEN b.size ELSE 0)  BY <2>1, <1>7
    <2>4. ASSUME NEW x \in Segment
          PROVE  Cardinality(Occupied(G, x))
                   = Cardinality(Occupied(H, x)) + (IF b.seg = x THEN b.size ELSE 0)
      <3>1. Backing(bl, H \cup {b})  BY <1>16 DEF G
      <3>2. /\ b.seg = x => Cardinality(Occupied(H \cup {b}, x)) = Cardinality(Occupied(H, x)) + b.size
            /\ b.seg # x => Cardinality(Occupied(H \cup {b}, x)) = Cardinality(Occupied(H, x))
        BY <3>1, <1>9, OccupiedMore
      <3>3. Cardinality(Occupied(H, x)) \in Nat  BY OccupiedFinite
      <3> QED  BY <3>2, <3>3 DEF G
    <2> HIDE DEF bu
    <2> QED  BY <2>1, <2>2, <2>3, <2>4 DEF Counted
  <1> QED  BY <1>2, <1>8, <1>9, <1>16, <1>17 DEF G, b

\* After OffsetBufferAllocator::deallocate a buffer is no longer held.
LEMMA DropOk ==
    ASSUME NEW al, NEW cu, NEW H, Backing(al, H), Counted(cu, H), NEW b \in H
    PROVE  /\ Backing([al EXCEPT ![b.seg] = free(@, b.node)], H \ {b})
           /\ Counted([cu EXCEPT ![b.seg] = @ - b.size], H \ {b})
  <1> DEFINE s == b.seg
             i == b.node
             a == al[s]
             r == free(a, i)
             bl == [al EXCEPT ![s] = r]
             bu == [cu EXCEPT ![s] = @ - b.size]
             G == H \ {b}
  <1>0. /\ al \in [Segment -> AllocRec] /\ \A x \in Segment : Whole(al[x])
        /\ H \subseteq Buffer /\ \A c \in H : Backed(al[c.seg], c)
        /\ \A c, d \in H : c.seg = d.seg /\ c.node = d.node => c = d
        /\ \A x \in Segment : \A k \in Used(al[x]) : \E c \in H : c.seg = x /\ c.node = k
        /\ s \in Segment /\ i \in Used(a) /\ b.size \in Nat
    BY BufferType DEF Backing, Backed
  <1>1. Freed(a, r, i)  BY <1>0, FreeOk
  <1>2. bl = [al EXCEPT ![b.seg] = free(@, b.node)]  OBVIOUS
  <1> HIDE DEF r, a
  <1>4. /\ Whole(r) /\ Used(r) = Used(a) \ {i}
        /\ \A k \in Used(r) : /\ r.nodes[k].offset = a.nodes[k].offset
                              /\ r.nodes[k].size = a.nodes[k].size
    BY <1>1 DEF Freed
  <1>5. /\ bl \in [Segment -> AllocRec] /\ bl[s] = r /\ \A x \in Segment \ {s} : bl[x] = al[x]
        /\ \A x \in Segment : Whole(bl[x])
    <2>1. r \in AllocRec  BY <1>4, WholeFacts
    <2> QED  BY <2>1, <1>0, <1>4
  <1> HIDE DEF bl
  <1>6. ASSUME NEW c \in G PROVE Backed(bl[c.seg], c)
    <2>0. c \in H /\ c # b /\ c.seg \in Segment /\ Backed(al[c.seg], c)  BY <1>0, BufferType
    <2>1. CASE c.seg = s
      <3>1. Backed(a, c) /\ c.node # i  BY <2>0, <2>1, <1>0 DEF a
      <3>2. Backed(r, c)  BY <3>1, <1>4 DEF Backed
      <3> QED  BY <3>2, <2>1, <1>5
    <2>2. CASE c.seg # s  BY <2>0, <2>2, <1>5
    <2> QED  BY <2>1, <2>2
  <1>7. ASSUME NEW x \in Segment, NEW k \in Used(bl[x])
        PROVE  \E c \in G : c.seg = x /\ c.node = k
    <2>1. k \in Used(al[x]) /\ ~(x = s /\ k = i)  BY <1>4, <1>5 DEF a
    <2>2. PICK c \in H : c.seg = x /\ c.node = k  BY <2>1, <1>0
    <2> QED  BY <2>1, <2>2
  <1>8. G \subseteq Buffer /\ \A c, d \in G : c.seg = d.seg /\ c.node = d.node => c = d  BY <1>0
  <1>9. H = G \cup {b} /\ b \notin G  OBVIOUS
  <1> HIDE DEF G
  <1>10. Backing(bl, G)  BY <1>5, <1>6, <1>7, <1>8 DEF Backing
  <1>11. Counted(bu, G)
    <2>1. cu \in [Segment -> Nat] /\ \A x \in Segment : cu[x] = Cardinality(Occupied(H, x))
      BY DEF Counted
    <2>2. \A x \in Segment : bu[x] = cu[x] - (IF b.seg = x THEN b.size ELSE 0)  BY <2>1
    <2>3. bu = [x \in Segment |-> bu[x]]  BY <2>1
    <2>4. ASSUME NEW x \in Segment
          PROVE  /\ Cardinality(Occupied(H, x))
                      = Cardinality(Occupied(G, x)) + (IF b.seg = x THEN b.size ELSE 0)
                 /\ Cardinality(Occupied(G, x)) \in Nat
      <3>1. Backing(al, G \cup {b})  BY <1>9
      <3>2. /\ b.seg = x => Cardinality(Occupied(G \cup {b}, x)) = Cardinality(Occupied(G, x)) + b.size
            /\ b.seg # x => Cardinality(Occupied(G \cup {b}, x)) = Cardinality(Occupied(G, x))
        BY <3>1, <1>9, OccupiedMore
      <3>3. Cardinality(Occupied(G, x)) \in Nat  BY <1>10, OccupiedFinite
      <3> QED  BY <3>2, <3>3, <1>9
    <2> HIDE DEF bu
    <2>5. \A x \in Segment : bu[x] = Cardinality(Occupied(G, x)) /\ bu[x] \in Nat
      BY <2>1, <2>2, <2>4, <1>0
    <2>6. bu \in [Segment -> Nat]  BY <2>3, <2>5
    <2> QED  BY <2>5, <2>6 DEF Counted
  <1> QED  BY <1>2, <1>10, <1>11 DEF G

\* A node more for the free list of an allocator.
LEMMA GrowOk ==
    ASSUME NEW al, NEW H, Backing(al, H), NEW s \in Segment
    PROVE  Backing([al EXCEPT ![s] = Grown(@)], H)
  <1> DEFINE a == al[s]
             r == Grown(a)
             bl == [al EXCEPT ![s] = r]
  <1>0. /\ al \in [Segment -> AllocRec] /\ \A x \in Segment : Whole(al[x])
        /\ H \subseteq Buffer /\ \A c \in H : Backed(al[c.seg], c)
        /\ \A c, d \in H : c.seg = d.seg /\ c.node = d.node => c = d
        /\ \A x \in Segment : \A k \in Used(al[x]) : \E c \in H : c.seg = x /\ c.node = k
    BY DEF Backing
  <1>1. Whole(r) /\ r.nodes = a.nodes /\ Live(r) = Live(a)  BY <1>0, GrownOk
  <1>2. bl = [al EXCEPT ![s] = Grown(@)]  OBVIOUS
  <1> HIDE DEF r, a
  <1>3. Used(r) = Used(a)  BY <1>1 DEF Used
  <1>4. /\ bl \in [Segment -> AllocRec] /\ bl[s] = r /\ \A x \in Segment \ {s} : bl[x] = al[x]
        /\ \A x \in Segment : Whole(bl[x])
    <2>1. r \in AllocRec  BY <1>1, WholeFacts
    <2> QED  BY <2>1, <1>0, <1>1
  <1> HIDE DEF bl
  <1>5. \A x \in Segment : Used(bl[x]) = Used(al[x]) /\ bl[x].nodes = al[x].nodes
    BY <1>1, <1>3, <1>4 DEF a
  <1>6. \A c \in H : Backed(bl[c.seg], c)  BY <1>0, <1>5, BufferType DEF Backed
  <1>7. Backing(bl, H)  BY <1>0, <1>4, <1>5, <1>6 DEF Backing
  <1> QED  BY <1>2, <1>7

-----------------------------------------------------------------------------
(* The calls, by what they hold.                                            *)

\* A call that holds the same buffers as before.
LEMMA SameHeld ==
    ASSUME NEW f, Calls(f), NEW t \in Caller, NEW c, Good(c), HeldBy(c) = HeldBy(f[t])
    PROVE  Calls([f EXCEPT ![t] = c]) /\ AllHeld([f EXCEPT ![t] = c]) = AllHeld(f)
  <1> DEFINE g == [f EXCEPT ![t] = c]
  <1>0. DOMAIN f = Caller /\ f = [u \in Caller |-> f[u]]  BY DEF Calls
  <1>1. g[t] = c /\ \A u \in Caller \ {t} : g[u] = f[u]  BY <1>0
  <1>2. DOMAIN g = Caller /\ g = [u \in Caller |-> g[u]]  BY <1>0
  <1> HIDE DEF g
  <1>3. \A u \in Caller : Good(g[u]) /\ HeldBy(g[u]) = HeldBy(f[u])  BY <1>1 DEF Calls
  <1>4. Calls(g)  BY <1>2, <1>3 DEF Calls
  <1>5. AllHeld(g) = AllHeld(f)  BY <1>3 DEF AllHeld
  <1> QED  BY <1>4, <1>5 DEF g

\* A call goes from o to c, with b more or without b.
Gains(o, c, b) == HeldBy(c) = HeldBy(o) \cup {b}
Loses(o, c, b) == b \in HeldBy(o) /\ HeldBy(c) = HeldBy(o) \ {b}

\* A call that holds a buffer more, which nobody held.
LEMMA MoreHeld ==
    ASSUME NEW f, Calls(f), NEW t \in Caller, NEW c, Good(c), NEW b, b \notin AllHeld(f),
           Gains(f[t], c, b)
    PROVE  Calls([f EXCEPT ![t] = c]) /\ AllHeld([f EXCEPT ![t] = c]) = AllHeld(f) \cup {b}
  <1> DEFINE g == [f EXCEPT ![t] = c]
  <1>0. DOMAIN f = Caller /\ f = [u \in Caller |-> f[u]]
        /\ \A u, v \in Caller : u # v => HeldBy(f[u]) \cap HeldBy(f[v]) = {}
    BY DEF Calls
  <1>1. g[t] = c /\ \A u \in Caller \ {t} : g[u] = f[u]  BY <1>0
  <1>2. DOMAIN g = Caller /\ g = [u \in Caller |-> g[u]]  BY <1>0
  <1> HIDE DEF g
  <1>3. \A u \in Caller : Good(g[u])  BY <1>1 DEF Calls
  <1>4. /\ \A u \in Caller \ {t} : HeldBy(g[u]) = HeldBy(f[u])
        /\ HeldBy(g[t]) = HeldBy(f[t]) \cup {b}
        /\ \A u \in Caller : b \notin HeldBy(f[u])
    BY <1>1 DEF AllHeld, Gains
  <1>5. \A u, v \in Caller : u # v => HeldBy(g[u]) \cap HeldBy(g[v]) = {}
    <2> SUFFICES ASSUME NEW u \in Caller, NEW v \in Caller, u # v
                 PROVE  HeldBy(g[u]) \cap HeldBy(g[v]) = {}
      OBVIOUS
    <2>1. HeldBy(f[u]) \cap HeldBy(f[v]) = {}  BY <1>0
    <2>2. CASE u = t  BY <2>1, <2>2, <1>4
    <2>3. CASE v = t  BY <2>1, <2>3, <1>4
    <2>4. CASE u # t /\ v # t  BY <2>1, <2>4, <1>4
    <2> QED  BY <2>2, <2>3, <2>4
  <1>6. Calls(g)  BY <1>2, <1>3, <1>5 DEF Calls
  <1>7. AllHeld(g) = AllHeld(f) \cup {b}
    <2>1. \A x : x \in AllHeld(g) <=> \E u \in Caller : x \in HeldBy(g[u])  BY DEF AllHeld
    <2>2. \A x : x \in AllHeld(f) <=> \E u \in Caller : x \in HeldBy(f[u])  BY DEF AllHeld
    <2>3. ASSUME NEW x \in AllHeld(g) PROVE x \in AllHeld(f) \cup {b}  BY <2>1, <2>2, <1>4
    <2>4. ASSUME NEW x \in AllHeld(f) \cup {b} PROVE x \in AllHeld(g)  BY <2>1, <2>2, <1>4
    <2> QED  BY <2>3, <2>4
  <1> QED  BY <1>6, <1>7 DEF g

\* A call that no longer holds a buffer.
LEMMA LessHeld ==
    ASSUME NEW f, Calls(f), NEW t \in Caller, NEW c, Good(c), NEW b, Loses(f[t], c, b)
    PROVE  Calls([f EXCEPT ![t] = c]) /\ AllHeld([f EXCEPT ![t] = c]) = AllHeld(f) \ {b}
  <1> DEFINE g == [f EXCEPT ![t] = c]
  <1>0. DOMAIN f = Caller /\ f = [u \in Caller |-> f[u]]
        /\ \A u, v \in Caller : u # v => HeldBy(f[u]) \cap HeldBy(f[v]) = {}
    BY DEF Calls
  <1>1. g[t] = c /\ \A u \in Caller \ {t} : g[u] = f[u]  BY <1>0
  <1>2. DOMAIN g = Caller /\ g = [u \in Caller |-> g[u]]  BY <1>0
  <1> HIDE DEF g
  <1>3. \A u \in Caller : Good(g[u])  BY <1>1 DEF Calls
  <1>4. /\ \A u \in Caller \ {t} : HeldBy(g[u]) = HeldBy(f[u]) /\ b \notin HeldBy(f[u])
        /\ HeldBy(g[t]) = HeldBy(f[t]) \ {b}
    BY <1>0, <1>1 DEF Loses
  <1>5. \A u, v \in Caller : u # v => HeldBy(g[u]) \cap HeldBy(g[v]) = {}
    <2>1. \A u \in Caller : HeldBy(g[u]) \subseteq HeldBy(f[u])  BY <1>4
    <2> QED  BY <2>1, <1>0
  <1>6. Calls(g)  BY <1>2, <1>3, <1>5 DEF Calls
  <1>7. AllHeld(g) = AllHeld(f) \ {b}
    <2>1. \A x : x \in AllHeld(g) <=> \E u \in Caller : x \in HeldBy(g[u])  BY DEF AllHeld
    <2>2. \A x : x \in AllHeld(f) <=> \E u \in Caller : x \in HeldBy(f[u])  BY DEF AllHeld
    <2>3. ASSUME NEW x \in AllHeld(g) PROVE x \in AllHeld(f) \ {b}  BY <2>1, <2>2, <1>4
    <2>4. ASSUME NEW x \in AllHeld(f) \ {b} PROVE x \in AllHeld(g)  BY <2>1, <2>2, <1>4
    <2> QED  BY <2>3, <2>4
  <1> QED  BY <1>6, <1>7 DEF g

\* An empty list has no elements.
LEMMA NoElems == Elems(<<>>) = {} /\ DOMAIN <<>> = {} /\ Len(<<>>) = 0 /\ \A S : <<>> \in Seq(S)
  BY DEF Elems

\* What Append adds.
LEMMA AppendElems ==
    ASSUME NEW S, NEW s \in Seq(S), NEW x \in S
    PROVE  /\ Append(s, x) \in Seq(S) /\ Len(Append(s, x)) = Len(s) + 1 /\ Len(s) \in Nat
           /\ DOMAIN s = 1 .. Len(s) /\ DOMAIN Append(s, x) = 1 .. Len(s) + 1
           /\ \A i \in 1 .. Len(s) : Append(s, x)[i] = s[i]
           /\ Append(s, x)[Len(s) + 1] = x
           /\ Elems(Append(s, x)) = Elems(s) \cup {x}
  <1> DEFINE r == Append(s, x)
  <1>1. /\ r \in Seq(S) /\ Len(r) = Len(s) + 1 /\ r[Len(s) + 1] = x
        /\ \A i \in 1 .. Len(s) : r[i] = s[i]
    BY AppendProperties
  <1>2. /\ Len(s) \in Nat /\ DOMAIN s = 1 .. Len(s) /\ DOMAIN r = 1 .. Len(s) + 1
    BY <1>1, LenProperties
  <1> HIDE DEF r
  <1>3. Elems(r) = Elems(s) \cup {x}
    <2>1. ASSUME NEW y \in Elems(r) PROVE y \in Elems(s) \cup {x}
      <3>1. PICK i \in 1 .. Len(s) + 1 : y = r[i]  BY <1>2 DEF Elems
      <3>2. CASE i = Len(s) + 1  BY <3>1, <3>2, <1>1
      <3>3. CASE i # Len(s) + 1
        <4>1. i \in 1 .. Len(s)  BY <3>3, <1>2
        <4> QED  BY <4>1, <3>1, <1>1, <1>2 DEF Elems
      <3> QED  BY <3>2, <3>3
    <2>2. ASSUME NEW y \in Elems(s) PROVE y \in Elems(r)
      <3>1. PICK i \in 1 .. Len(s) : y = s[i]  BY <1>2 DEF Elems
      <3>2. i \in 1 .. Len(s) + 1 /\ r[i] = y  BY <3>1, <1>1, <1>2
      <3> QED  BY <3>2, <1>2 DEF Elems
    <2>3. x \in Elems(r)
      <3>1. Len(s) + 1 \in 1 .. Len(s) + 1  BY <1>2
      <3> QED  BY <3>1, <1>1, <1>2 DEF Elems
    <2> QED  BY <2>1, <2>2, <2>3
  <1> QED  BY <1>1, <1>2, <1>3 DEF r

-----------------------------------------------------------------------------
(* The steps of a call.                                                     *)

\* The buffers that a call has under way and those of its replicas are lists.
LEMMA GoodLists ==
    ASSUME NEW c, Good(c)
    PROVE  /\ c.got \in Seq(Buffer) /\ c.bufs \in Seq(Seq(Buffer)) /\ c.drop \in SUBSET Buffer
           /\ c.count \in Nat /\ c.rn \in Nat /\ c.slices \in Seq(Nat \ {0})
           /\ Len(c.got) \in Nat /\ DOMAIN c.got = 1 .. Len(c.got)
           /\ DOMAIN c.bufs = 1 .. c.count /\ \A j \in 1 .. c.count : c.bufs[j] \in Seq(Buffer)
           /\ \A j \in 1 .. c.count : /\ Len(c.bufs[j]) \in Nat
                                      /\ DOMAIN c.bufs[j] = 1 .. Len(c.bufs[j])
                                      /\ Len(c.bufs[j]) = Len(c.bufs[1])
           /\ Len(c.slices) \in Nat /\ DOMAIN c.slices = 1 .. Len(c.slices)
           /\ HeldBy(c) \subseteq Buffer
  <1>1. /\ c.got \in Seq(Buffer) /\ c.bufs \in Seq(Seq(Buffer)) /\ c.drop \in SUBSET Buffer
        /\ c.count \in Nat /\ c.rn \in Nat /\ c.slices \in Seq(Nat \ {0})
    BY DEF Good, CallRec
  <1>2. Len(c.bufs) = c.count /\ \A j \in DOMAIN c.bufs : Len(c.bufs[j]) = Len(c.bufs[1])
    BY DEF Good, Even
  <1>3. DOMAIN c.bufs = 1 .. c.count /\ \A j \in 1 .. c.count : c.bufs[j] \in Seq(Buffer)
    BY <1>1, <1>2, LenProperties, ElementOfSeq
  <1>4. /\ Len(c.got) \in Nat /\ DOMAIN c.got = 1 .. Len(c.got)
        /\ Len(c.slices) \in Nat /\ DOMAIN c.slices = 1 .. Len(c.slices)
    BY <1>1, LenProperties
  <1>5. \A j \in 1 .. c.count : Len(c.bufs[j]) \in Nat /\ DOMAIN c.bufs[j] = 1 .. Len(c.bufs[j])
    BY <1>3, LenProperties
  <1>6. HeldBy(c) \subseteq Buffer
    <2>1. Elems(c.got) \subseteq Buffer
      <3>1. \A k \in 1 .. Len(c.got) : c.got[k] \in Buffer  BY <1>1, ElementOfSeq
      <3> QED  BY <3>1, <1>4 DEF Elems
    <2>2. \A j \in DOMAIN c.bufs : Elems(c.bufs[j]) \subseteq Buffer
      <3>1. ASSUME NEW j \in 1 .. c.count PROVE \A k \in 1 .. Len(c.bufs[j]) : c.bufs[j][k] \in Buffer
        BY <1>3, ElementOfSeq
      <3> QED  BY <3>1, <1>3, <1>5 DEF Elems
    <2>3. BufsOf(c.bufs, DOMAIN c.bufs) \subseteq Buffer  BY <2>2 DEF BufsOf
    <2> QED  BY <2>1, <2>3, <1>1 DEF HeldBy
  <1> QED  BY <1>1, <1>2, <1>3, <1>4, <1>5, <1>6

\* The slice that a call works on has a size.
LEMMA SliceSizeOk ==
    ASSUME NEW c, Good(c), c.pc \in {"pick", "try", "slice"}
    PROVE  SliceSize(c) \in Nat \ {0} /\ c.count >= 1
  <1>1. /\ c.count \in 1 .. c.rn /\ Len(c.bufs[1]) < Len(c.slices) /\ c.count \in Nat /\ c.rn \in Nat
        /\ c.slices \in Seq(Nat \ {0}) /\ Len(c.slices) \in Nat
    BY GoodLists DEF Good, Stage
  <1>2. Len(c.bufs[1]) \in Nat  BY <1>1, GoodLists
  <1>3. Len(c.bufs[1]) + 1 \in 1 .. Len(c.slices)  BY <1>1, <1>2
  <1>4. c.slices[Len(c.bufs[1]) + 1] \in Nat \ {0}  BY ONLY <1>1, <1>3, ElementOfSeq
  <1>5. c.count >= 1  BY ONLY <1>1
  <1> QED  BY ONLY <1>4, <1>5 DEF SliceSize

\* A call that gives everything back.
LEMMA GivenBack ==
    ASSUME NEW c, Good(c), c.drop = {}, c.got = <<>>, NEW pc \in {"idle", "failed"},
           NEW d, d = [Idle EXCEPT !.pc = pc, !.drop = BufsOf(c.bufs, DOMAIN c.bufs)]
    PROVE  Good(d) /\ HeldBy(d) = HeldBy(c)
  <1> DEFINE D == BufsOf(c.bufs, DOMAIN c.bufs)
  <1>1. /\ d.pc = pc /\ d.slices = <<>> /\ d.rn = 0 /\ d.pref = "none" /\ d.count = 0
        /\ d.bufs = <<>> /\ d.got = <<>> /\ d.tried = {} /\ d.eligible = {} /\ d.tries = 0
        /\ d.drop = D
        /\ d = [pc |-> pc, slices |-> <<>>, rn |-> 0, pref |-> "none", count |-> 0,
                bufs |-> <<>>, got |-> <<>>, tried |-> {}, eligible |-> {}, tries |-> 0, drop |-> D]
    <2> HIDE DEF D
    <2>1. d = [Idle EXCEPT !.pc = pc, !.drop = D]  BY DEF D
    <2> QED  BY <2>1 DEF Idle
  <1>2. D \in SUBSET Buffer  BY GoodLists DEF HeldBy
  <1> HIDE DEF D
  <1>3. d \in CallRec
    <2>1. d = [pc |-> pc, slices |-> <<>>, rn |-> 0, pref |-> "none", count |-> 0,
               bufs |-> <<>>, got |-> <<>>, tried |-> {}, eligible |-> {}, tries |-> 0, drop |-> D]
      BY <1>1
    <2>2. pc \in {"idle", "pick", "try", "slice", "done", "failed"}  OBVIOUS
    <2> QED  BY ONLY <2>1, <2>2, <1>2, NoElems DEF CallRec
  <1>4. Even(d)  BY <1>1, NoElems DEF Even
  <1>5. Getting(d)  BY <1>1, NoElems DEF Getting
  <1>6. Stage(d)  BY <1>1 DEF Stage
  <1>7. BufsOf(d.bufs, DOMAIN d.bufs) = {}  BY <1>1, NoElems DEF BufsOf
  <1>8. Once(d)  BY <1>1, <1>7, NoElems DEF Once
  <1>9. HeldBy(d) = D  BY <1>1, <1>7, NoElems DEF HeldBy
  <1>10. HeldBy(c) = D  BY NoElems DEF HeldBy, D
  <1> QED  BY <1>3, <1>4, <1>5, <1>6, <1>8, <1>9, <1>10 DEF Good

\* A thread without a call.
LEMMA IdleGood == Good(Idle) /\ HeldBy(Idle) = {}
  <1>1. /\ Idle.pc = "idle" /\ Idle.slices = <<>> /\ Idle.rn = 0 /\ Idle.count = 0
        /\ Idle.bufs = <<>> /\ Idle.got = <<>> /\ Idle.drop = {}
    BY DEF Idle
  <1>2. Idle \in CallRec  BY NoElems DEF Idle, CallRec
  <1>3. BufsOf(Idle.bufs, DOMAIN Idle.bufs) = {}  BY <1>1, NoElems DEF BufsOf
  <1>4. Even(Idle)  BY <1>1, NoElems DEF Even
  <1>5. Getting(Idle)  BY <1>1, NoElems DEF Getting
  <1>6. Stage(Idle)  BY <1>1 DEF Stage
  <1>7. Once(Idle)  BY <1>1, <1>3, NoElems DEF Once
  <1>8. HeldBy(Idle) = {}  BY <1>1, <1>3, NoElems DEF HeldBy
  <1> QED  BY <1>2, <1>4, <1>5, <1>6, <1>7, <1>8 DEF Good

\* A new call.
LEMMA StartGood ==
    ASSUME NEW sl \in Slices, NEW rn \in ReplicaNums, NEW pref \in PrefNames,
           NEW d, d = [pc |-> "pick", slices |-> sl, rn |-> rn, pref |-> pref,
                       count |-> rn, bufs |-> [j \in 1 .. rn |-> <<>>], got |-> <<>>,
                       tried |-> {}, eligible |-> {}, tries |-> 0, drop |-> {}]
    PROVE  Good(d) /\ HeldBy(d) = {}
  <1> DEFINE B == [j \in 1 .. rn |-> <<>>]
  <1>1. sl \in Seq(Nat \ {0}) /\ sl # <<>> /\ rn \in Nat /\ rn >= 1  BY InputAssumption
  <1>2. Len(sl) \in Nat /\ Len(sl) > 0
    BY <1>1, EmptySeq, LenProperties
  <1>3. /\ B \in Seq(Seq(Buffer)) /\ DOMAIN B = 1 .. rn /\ Len(B) = rn
        /\ \A j \in 1 .. rn : B[j] = <<>>
    <2>1. B \in [1 .. rn -> Seq(Buffer)]  BY NoElems
    <2>2. B \in Seq(Seq(Buffer))  BY <2>1, <1>1, SeqDef
    <2>3. DOMAIN B = 1 .. rn /\ \A j \in 1 .. rn : B[j] = <<>>  OBVIOUS
    <2> HIDE DEF B
    <2>4. Len(B) \in Nat /\ DOMAIN B = 1 .. Len(B)  BY <2>2, LenProperties
    <2>5. Len(B) = rn  BY <2>3, <2>4, <1>1
    <2> QED  BY <2>2, <2>3, <2>5
  <1>4. /\ d.pc = "pick" /\ d.slices = sl /\ d.rn = rn /\ d.count = rn
        /\ d.bufs = B /\ d.got = <<>> /\ d.drop = {}
    OBVIOUS
  <1> HIDE DEF B
  <1>5. d \in CallRec  BY <1>1, <1>3, NoElems DEF CallRec, B
  <1>6. BufsOf(d.bufs, DOMAIN d.bufs) = {} /\ \A j \in DOMAIN d.bufs : Elems(d.bufs[j]) = {}
    BY <1>3, <1>4, NoElems DEF BufsOf
  <1>7. Even(d)  BY <1>1, <1>3, <1>4, NoElems DEF Even
  <1>8. Getting(d)  BY <1>1, <1>4, NoElems DEF Getting
  <1>9. Stage(d)
    <2>1. B[1] = <<>>  BY <1>1, <1>3
    <2> QED  BY <2>1, <1>1, <1>2, <1>4, NoElems DEF Stage
  <1>10. Once(d)  BY <1>4, <1>6, NoElems DEF Once
  <1>11. HeldBy(d) = {}  BY <1>4, <1>6, NoElems DEF HeldBy
  <1> QED  BY <1>5, <1>7, <1>8, <1>9, <1>10, <1>11 DEF Good

\* The search for the next buffer goes on; the buffers stay.
LEMMA Turned ==
    ASSUME NEW c, Good(c), NEW d \in CallRec, d.slices = c.slices, d.rn = c.rn, d.count = c.count,
           d.bufs = c.bufs, d.got = c.got, d.drop = c.drop, c.drop = {},
           c.pc \in {"pick", "try", "slice"}, d.pc \in {"pick", "try", "slice"},
           d.pc = "try" => Len(c.got) < c.count /\ \A s \in d.eligible : NameOf[s] \notin UsedNames(c)
    PROVE  Good(d) /\ HeldBy(d) = HeldBy(c)
  <1>0. Even(c) /\ Getting(c) /\ Stage(c) /\ Once(c)  BY DEF Good
  <1>1. Even(d)  BY <1>0 DEF Even
  <1>2. Getting(d)  BY <1>0 DEF Getting, SliceSize
  <1>3. Stage(d)  BY <1>0 DEF Stage, UsedNames
  <1>4. Once(d)  BY <1>0 DEF Once
  <1> QED  BY <1>1, <1>2, <1>3, <1>4 DEF Good, HeldBy

\* A buffer for the next replica.
LEMMA GetGood ==
    ASSUME NEW c, Good(c), c.pc \in {"pick", "try"}, c.drop = {}, Len(c.got) < c.count,
           NEW b \in Buffer, b \notin HeldBy(c), b.size = SliceSize(c), NameOf[b.seg] \notin UsedNames(c),
           NEW d, d = [c EXCEPT !.got = Append(@, b), !.pc = "pick",
                                !.tried = {}, !.eligible = {}, !.tries = 0]
    PROVE  Good(d) /\ HeldBy(d) = HeldBy(c) \cup {b}
  <1> DEFINE g == Append(c.got, b)
             n == Len(c.got)
  <1>0. c \in CallRec /\ Even(c) /\ Getting(c) /\ Stage(c) /\ Once(c)  BY DEF Good
  <1>1. /\ c.got \in Seq(Buffer) /\ n \in Nat /\ DOMAIN c.got = 1 .. n /\ c.count \in Nat
    BY GoodLists
  <1>2. /\ g \in Seq(Buffer) /\ Len(g) = n + 1 /\ DOMAIN g = 1 .. n + 1
        /\ \A k \in 1 .. n : g[k] = c.got[k]
        /\ g[n + 1] = b /\ Elems(g) = Elems(c.got) \cup {b}
    BY <1>1, AppendElems
  <1> HIDE DEF g, n
  <1>3. d = [pc |-> "pick", slices |-> c.slices, rn |-> c.rn, pref |-> c.pref, count |-> c.count,
             bufs |-> c.bufs, got |-> g, tried |-> {}, eligible |-> {}, tries |-> 0, drop |-> c.drop]
    <2>1. c = [pc |-> c.pc, slices |-> c.slices, rn |-> c.rn, pref |-> c.pref, count |-> c.count,
               bufs |-> c.bufs, got |-> c.got, tried |-> c.tried, eligible |-> c.eligible,
               tries |-> c.tries, drop |-> c.drop]
      BY <1>0 DEF CallRec
    <2>2. d = [c EXCEPT !.got = g, !.pc = "pick", !.tried = {}, !.eligible = {}, !.tries = 0]
      BY DEF g
    <2> QED  BY ONLY <2>1, <2>2
  <1>4. /\ d.pc = "pick" /\ d.slices = c.slices /\ d.rn = c.rn /\ d.count = c.count
        /\ d.bufs = c.bufs /\ d.got = g /\ d.drop = c.drop
    BY ONLY <1>3
  <1>5. d \in CallRec
    <2>1. /\ c.slices \in Seq(Nat \ {0}) /\ c.rn \in Nat /\ c.pref \in PrefNames \cup {"none"}
          /\ c.count \in Nat /\ c.bufs \in Seq(Seq(Buffer)) /\ c.drop \in SUBSET Buffer
      BY <1>0 DEF CallRec
    <2> QED  BY ONLY <2>1, <1>2, <1>3 DEF CallRec
  <1>6. Even(d)  BY <1>0, <1>4 DEF Even
  <1>7. Getting(d)
    <2>1. Len(g) <= d.count  BY <1>1, <1>2, <1>4 DEF n
    <2>2. ASSUME NEW k \in 1 .. n + 1 PROVE g[k].size = SliceSize(d)
      <3>1. SliceSize(d) = SliceSize(c)  BY <1>4 DEF SliceSize
      <3>2. CASE k = n + 1  BY <3>1, <3>2, <1>2
      <3>3. CASE k # n + 1
        <4>1. k \in 1 .. n  BY <3>3, <1>1
        <4>2. c.got[k].size = SliceSize(c)  BY <4>1, <1>0, <1>1 DEF Getting
        <4> QED  BY <4>1, <4>2, <3>1, <1>2
      <3> QED  BY <3>2, <3>3
    <2>3. \A k \in 1 .. n : NameOf[g[k].seg] # NameOf[b.seg]
      <3>1. \A k \in 1 .. n : NameOf[c.got[k].seg] \in UsedNames(c)  BY <1>1 DEF UsedNames, Elems
      <3> QED  BY <3>1, <1>2
    <2>4. \A j, k \in 1 .. n : j # k => NameOf[g[j].seg] # NameOf[g[k].seg]
      <3>1. \A j, k \in 1 .. n : j # k => NameOf[c.got[j].seg] # NameOf[c.got[k].seg]
        BY <1>0, <1>1 DEF Getting
      <3>2. \A k \in 1 .. n : g[k] = c.got[k]  BY <1>2
      <3> QED  BY ONLY <3>1, <3>2
    <2>5. \A k \in 1 .. n + 1 : k = n + 1 \/ k \in 1 .. n  BY <1>1
    <2>6. \A j, k \in 1 .. n + 1 : j # k => NameOf[g[j].seg] # NameOf[g[k].seg]
      BY <2>3, <2>4, <2>5, <1>2
    <2> QED  BY <2>1, <2>2, <2>6, <1>2, <1>4 DEF Getting
  <1>8. Stage(d)  BY <1>0, <1>4 DEF Stage
  <1>9. Once(d)
    <2> DEFINE X == BufsOf(c.bufs, DOMAIN c.bufs)
    <2>1. Elems(c.got) \cap X = {} /\ b \notin X  BY <1>0 DEF Once, HeldBy
    <2>2. BufsOf(d.bufs, DOMAIN d.bufs) = X /\ d.drop = {} /\ Elems(d.got) = Elems(c.got) \cup {b}
      BY <1>2, <1>4
    <2> HIDE DEF X
    <2>3. \A j, k \in DOMAIN d.bufs : j # k => Elems(d.bufs[j]) \cap Elems(d.bufs[k]) = {}
      BY <1>0, <1>4 DEF Once
    <2>4. Elems(d.got) \cap X = {}  BY ONLY <2>1, <2>2
    <2> QED  BY ONLY <2>2, <2>3, <2>4 DEF Once
  <1>10. HeldBy(d) = HeldBy(c) \cup {b}  BY <1>2, <1>4 DEF HeldBy
  <1> QED  BY <1>5, <1>6, <1>7, <1>8, <1>9, <1>10 DEF Good

\* A dropped buffer is gone.
LEMMA DropGood ==
    ASSUME NEW c, Good(c), NEW b \in c.drop, NEW d, d = [c EXCEPT !.drop = @ \ {b}]
    PROVE  Good(d) /\ HeldBy(d) = HeldBy(c) \ {b} /\ b \in HeldBy(c)
  <1>0. c \in CallRec /\ Even(c) /\ Getting(c) /\ Stage(c) /\ Once(c)  BY DEF Good
  <1>1. /\ d \in CallRec /\ d.pc = c.pc /\ d.slices = c.slices /\ d.rn = c.rn /\ d.count = c.count
        /\ d.bufs = c.bufs /\ d.got = c.got /\ d.drop = c.drop \ {b} /\ d.eligible = c.eligible
    BY <1>0 DEF CallRec
  <1>2. Even(d)  BY <1>0, <1>1 DEF Even
  <1>3. Getting(d)  BY <1>0, <1>1 DEF Getting, SliceSize
  <1>4. Stage(d)  BY <1>0, <1>1 DEF Stage, UsedNames
  <1>5. Once(d)  BY <1>0, <1>1 DEF Once
  <1>6. HeldBy(d) = HeldBy(c) \ {b}  BY <1>0, <1>1 DEF HeldBy, Once
  <1> QED  BY <1>1, <1>2, <1>3, <1>4, <1>5, <1>6 DEF Good, HeldBy

\* The buffers of a slice go to the replicas nb of the call d.
Spread(c, nb, d) ==
    /\ nb = [j \in 1 .. Len(c.got) |-> Append(c.bufs[j], c.got[j])]
    /\ d = [c EXCEPT !.count = Len(c.got), !.bufs = nb, !.got = <<>>,
                     !.drop = BufsOf(c.bufs, Len(c.got) + 1 .. c.count),
                     !.pc = IF Len(nb[1]) = Len(c.slices) THEN "done" ELSE "pick"]

\* The replicas without a buffer for the slice are dropped.
LEMMA DoneGood ==
    ASSUME NEW c, Good(c), c.pc \in {"pick", "slice"}, c.drop = {}, c.got # <<>>,
           NEW nb, NEW d, Spread(c, nb, d)
    PROVE  Good(d) /\ HeldBy(d) = HeldBy(c)
  <1> DEFINE m == Len(c.got)
             n == Len(c.bufs[1])
             D == BufsOf(c.bufs, m + 1 .. c.count)
             pc == IF Len(nb[1]) = Len(c.slices) THEN "done" ELSE "pick"
  <1>0. c \in CallRec /\ Even(c) /\ Getting(c) /\ Stage(c) /\ Once(c)  BY DEF Good
  <1>1. /\ c.got \in Seq(Buffer) /\ c.bufs \in Seq(Seq(Buffer))
        /\ c.count \in Nat /\ c.rn \in Nat /\ c.slices \in Seq(Nat \ {0})
        /\ m \in Nat /\ DOMAIN c.got = 1 .. m
        /\ DOMAIN c.bufs = 1 .. c.count /\ \A j \in 1 .. c.count : c.bufs[j] \in Seq(Buffer)
        /\ \A j \in 1 .. c.count : DOMAIN c.bufs[j] = 1 .. n /\ Len(c.bufs[j]) = n
        /\ Len(c.slices) \in Nat
    BY GoodLists
  <1>2. /\ m >= 1 /\ m <= c.count /\ c.count \in 1 .. c.rn /\ n < Len(c.slices)
    <2>1. m # 0  BY <1>1, EmptySeq
    <2> QED  BY <2>1, <1>0, <1>1 DEF Getting, Stage
  <1>3. n \in Nat  BY <1>1, <1>2, GoodLists
  <1>4. d = [pc |-> pc, slices |-> c.slices, rn |-> c.rn, pref |-> c.pref, count |-> m,
             bufs |-> nb, got |-> <<>>, tried |-> c.tried, eligible |-> c.eligible,
             tries |-> c.tries, drop |-> D]
    <2>1. c = [pc |-> c.pc, slices |-> c.slices, rn |-> c.rn, pref |-> c.pref, count |-> c.count,
               bufs |-> c.bufs, got |-> c.got, tried |-> c.tried, eligible |-> c.eligible,
               tries |-> c.tries, drop |-> c.drop]
      BY <1>0 DEF CallRec
    <2>2. d = [c EXCEPT !.count = m, !.bufs = nb, !.got = <<>>, !.drop = D, !.pc = pc]
      BY DEF Spread
    <2> HIDE DEF m, D, pc
    <2> QED  BY ONLY <2>1, <2>2
  <1>5. ASSUME NEW j \in 1 .. m
        PROVE  /\ j \in 1 .. c.count /\ nb[j] \in Seq(Buffer) /\ Len(nb[j]) = n + 1
               /\ DOMAIN nb[j] = 1 .. n + 1 /\ nb[j][n + 1] = c.got[j]
               /\ \A i \in 1 .. n : nb[j][i] = c.bufs[j][i]
               /\ Elems(nb[j]) = Elems(c.bufs[j]) \cup {c.got[j]}
    <2>1. j \in 1 .. c.count /\ nb[j] = Append(c.bufs[j], c.got[j])
      <3>1. nb = [k \in 1 .. m |-> Append(c.bufs[k], c.got[k])]  BY DEF Spread
      <3> HIDE DEF m
      <3>2. nb[j] = Append(c.bufs[j], c.got[j])  BY <3>1
      <3> QED  BY <3>2, <1>1, <1>2
    <2>2. c.bufs[j] \in Seq(Buffer) /\ Len(c.bufs[j]) = n /\ c.got[j] \in Buffer
      BY <2>1, <1>1, ElementOfSeq
    <2> HIDE DEF n, m
    <2> QED  BY <2>1, <2>2, AppendElems
  <1>6. nb \in Seq(Seq(Buffer)) /\ DOMAIN nb = 1 .. m /\ Len(nb) = m
    <2>1. DOMAIN nb = 1 .. m /\ nb = [j \in 1 .. m |-> nb[j]]  BY DEF Spread
    <2> HIDE DEF m
    <2>2. nb \in [1 .. m -> Seq(Buffer)]  BY <2>1, <1>5
    <2>3. nb \in Seq(Seq(Buffer))  BY <2>2, <1>1, SeqDef
    <2>4. Len(nb) \in Nat /\ DOMAIN nb = 1 .. Len(nb)  BY <2>3, LenProperties
    <2>5. Len(nb) = m  BY <2>1, <2>4, <1>1, <1>2
    <2> QED  BY <2>1, <2>3, <2>5
  <1>7. D \in SUBSET Buffer
    <2>1. D \subseteq BufsOf(c.bufs, DOMAIN c.bufs)  BY <1>1, <1>2 DEF BufsOf
    <2> QED  BY <2>1, GoodLists DEF HeldBy
  <1>8. Len(nb[1]) = n + 1 /\ 1 \in 1 .. m  BY <1>1, <1>2, <1>5
  <1>9. /\ pc = "done" => n + 1 = Len(c.slices)
        /\ pc = "pick" => n + 1 < Len(c.slices)
        /\ pc \in {"done", "pick"}
    BY <1>1, <1>2, <1>3, <1>8
  <1> HIDE DEF m, n, D, pc
  <1>10. /\ d.pc = pc /\ d.slices = c.slices /\ d.rn = c.rn /\ d.count = m
         /\ d.bufs = nb /\ d.got = <<>> /\ d.drop = D
    BY ONLY <1>4
  <1>11. d \in CallRec
    <2>1. /\ c.pref \in PrefNames \cup {"none"} /\ c.tried \in SUBSET Segment
          /\ c.eligible \in SUBSET Segment /\ c.tries \in Nat
      BY <1>0 DEF CallRec
    <2>2. pc \in {"idle", "pick", "try", "slice", "done", "failed"}  BY <1>9
    <2> QED  BY ONLY <2>1, <2>2, <1>1, <1>4, <1>6, <1>7, NoElems DEF CallRec
  <1>12. \A i \in 1 .. n + 1 : i = n + 1 \/ i \in 1 .. n  BY <1>3
  <1>13. Even(d)
    <2>1. \A j \in 1 .. m : Len(nb[j]) = Len(nb[1])  BY <1>5, <1>8
    <2>2. ASSUME NEW j \in 1 .. m, NEW i \in 1 .. n + 1 PROVE nb[j][i].size = c.slices[i]
      <3>1. CASE i = n + 1
        <4>1. c.got[j].size = c.slices[n + 1]  BY <1>0, <1>1 DEF Getting, SliceSize, n
        <4> QED  BY <4>1, <3>1, <1>5
      <3>2. CASE i \in 1 .. n
        <4>1. j \in DOMAIN c.bufs /\ i \in DOMAIN c.bufs[j]  BY <3>2, <1>1, <1>5
        <4>2. c.bufs[j][i].size = c.slices[i]  BY <4>1, <1>0 DEF Even
        <4> QED  BY <4>2, <3>2, <1>5
      <3> QED  BY <3>1, <3>2, <1>12
    <2>3. ASSUME NEW j \in 1 .. m, NEW k \in 1 .. m, j # k, NEW i \in 1 .. n + 1
          PROVE  NameOf[nb[j][i].seg] # NameOf[nb[k][i].seg]
      <3>1. CASE i = n + 1
        <4>1. NameOf[c.got[j].seg] # NameOf[c.got[k].seg]  BY <2>3, <1>0, <1>1 DEF Getting
        <4>2. nb[j][i] = c.got[j] /\ nb[k][i] = c.got[k]  BY <3>1, <1>5
        <4> QED  BY <4>1, <4>2
      <3>2. CASE i \in 1 .. n
        <4>1. j \in DOMAIN c.bufs /\ k \in DOMAIN c.bufs /\ i \in DOMAIN c.bufs[j]
          BY <3>2, <1>1, <1>5
        <4>2. NameOf[c.bufs[j][i].seg] # NameOf[c.bufs[k][i].seg]  BY <4>1, <2>3, <1>0 DEF Even
        <4>3. nb[j][i] = c.bufs[j][i] /\ nb[k][i] = c.bufs[k][i]  BY <3>2, <1>5
        <4> QED  BY <4>2, <4>3
      <3> QED  BY <3>1, <3>2, <1>12
    <2>4. \A j \in 1 .. m : Len(nb[j]) = n + 1 /\ DOMAIN nb[j] = 1 .. n + 1  BY <1>5
    <2>5. \A j \in DOMAIN nb : \A i \in DOMAIN nb[j] : nb[j][i].size = c.slices[i]
      BY ONLY <2>2, <2>4, <1>6
    <2>6. \A j, k \in DOMAIN nb : j # k =>
            \A i \in DOMAIN nb[j] : NameOf[nb[j][i].seg] # NameOf[nb[k][i].seg]
      <3> SUFFICES ASSUME NEW j \in DOMAIN nb, NEW k \in DOMAIN nb, j # k, NEW i \in DOMAIN nb[j]
                   PROVE  NameOf[nb[j][i].seg] # NameOf[nb[k][i].seg]
        OBVIOUS
      <3>1. j \in 1 .. m /\ k \in 1 .. m  BY ONLY <1>6, j \in DOMAIN nb, k \in DOMAIN nb
      <3>2. i \in 1 .. n + 1  BY ONLY <2>4, <3>1, i \in DOMAIN nb[j]
      <3> QED  BY ONLY <2>3, <3>1, <3>2, j # k
    <2>7. \A j \in DOMAIN nb : Len(nb[j]) = Len(nb[1])  BY ONLY <2>1, <1>6
    <2> QED  BY ONLY <2>5, <2>6, <2>7, <1>6, <1>10 DEF Even
  <1>14. Getting(d)  BY <1>1, <1>10, NoElems DEF Getting
  <1>15. Stage(d)
    <2>1. m \in 1 .. c.rn  BY <1>1, <1>2
    <2> QED  BY <2>1, <1>8, <1>9, <1>10 DEF Stage
  <1>16. /\ \A j, k \in 1 .. c.count : j # k => Elems(c.bufs[j]) \cap Elems(c.bufs[k]) = {}
         /\ \A j \in 1 .. m : \A k \in 1 .. c.count : c.got[j] \notin Elems(c.bufs[k])
         /\ \A j, k \in 1 .. m : j # k => c.got[j] # c.got[k]
    <2>1. \A j, k \in 1 .. c.count : j # k => Elems(c.bufs[j]) \cap Elems(c.bufs[k]) = {}
      BY <1>0, <1>1 DEF Once
    <2>2. \A j \in 1 .. m : c.got[j] \in Elems(c.got)  BY <1>1 DEF Elems, m
    <2>3. \A j \in 1 .. m : c.got[j] \notin BufsOf(c.bufs, DOMAIN c.bufs)  BY <2>2, <1>0 DEF Once
    <2>4. \A j, k \in 1 .. m : j # k => c.got[j] # c.got[k]
      BY <1>0, <1>1 DEF Getting
    <2> QED  BY <2>1, <2>3, <2>4, <1>1 DEF BufsOf
  <1>17. \A k \in m + 1 .. c.count : k \in 1 .. c.count /\ k \notin 1 .. m  BY <1>1, <1>2
  <1>18. Once(d)
    <2>1. ASSUME NEW x \in D, x \in BufsOf(nb, 1 .. m) PROVE FALSE
      <3>1. PICK k \in m + 1 .. c.count : x \in Elems(c.bufs[k])  BY DEF BufsOf, D
      <3>2. PICK j \in 1 .. m : x \in Elems(nb[j])  BY <2>1 DEF BufsOf
      <3>3. x \in Elems(c.bufs[j]) \/ x = c.got[j]  BY <3>2, <1>5
      <3>4. j # k /\ j \in 1 .. c.count /\ k \in 1 .. c.count  BY <1>5, <1>17
      <3> QED  BY <3>1, <3>3, <3>4, <1>16
    <2>2. ASSUME NEW j \in 1 .. m, NEW k \in 1 .. m, j # k PROVE Elems(nb[j]) \cap Elems(nb[k]) = {}
      <3>1. Elems(nb[j]) = Elems(c.bufs[j]) \cup {c.got[j]} /\ j \in 1 .. c.count  BY <1>5
      <3>2. Elems(nb[k]) = Elems(c.bufs[k]) \cup {c.got[k]} /\ k \in 1 .. c.count  BY <1>5
      <3> QED  BY <3>1, <3>2, <2>2, <1>16
    <2>3. D \cap BufsOf(nb, 1 .. m) = {}  BY <2>1
    <2> QED  BY <2>2, <2>3, <1>6, <1>10, NoElems DEF Once
  <1>19. HeldBy(d) = HeldBy(c)
    <2>1. HeldBy(d) = D \cup BufsOf(nb, 1 .. m)  BY <1>6, <1>10, NoElems DEF HeldBy
    <2>2. HeldBy(c) = Elems(c.got) \cup BufsOf(c.bufs, 1 .. c.count)  BY <1>1 DEF HeldBy
    <2>3. ASSUME NEW x \in HeldBy(d) PROVE x \in HeldBy(c)
      <3>1. CASE x \in D
        <4>1. PICK k \in m + 1 .. c.count : x \in Elems(c.bufs[k])  BY <3>1 DEF BufsOf, D
        <4> QED  BY <4>1, <2>2, <1>17 DEF BufsOf
      <3>2. CASE x \in BufsOf(nb, 1 .. m)
        <4>1. PICK j \in 1 .. m : x \in Elems(nb[j])  BY <3>2 DEF BufsOf
        <4>2. x \in Elems(c.bufs[j]) \/ x = c.got[j]  BY <4>1, <1>5
        <4>3. j \in 1 .. c.count /\ c.got[j] \in Elems(c.got)  BY <1>1, <1>5 DEF Elems
        <4> QED  BY <4>2, <4>3, <2>2 DEF BufsOf
      <3> QED  BY <3>1, <3>2, <2>1
    <2>4. ASSUME NEW x \in HeldBy(c) PROVE x \in HeldBy(d)
      <3>1. CASE x \in Elems(c.got)
        <4>1. PICK j \in 1 .. m : x = c.got[j]  BY <3>1, <1>1 DEF Elems
        <4>2. x \in Elems(nb[j])  BY <4>1, <1>5
        <4> QED  BY <4>2, <2>1 DEF BufsOf
      <3>2. CASE x \in BufsOf(c.bufs, 1 .. c.count)
        <4>1. PICK k \in 1 .. c.count : x \in Elems(c.bufs[k])  BY <3>2 DEF BufsOf
        <4>2. k \in 1 .. m \/ k \in m + 1 .. c.count  BY <1>1, <1>2
        <4>3. k \in 1 .. m => x \in Elems(nb[k])  BY <4>1, <1>5
        <4> QED  BY <4>1, <4>2, <4>3, <2>1 DEF BufsOf, D
      <3> QED  BY <3>1, <3>2, <2>2
    <2> QED  BY <2>3, <2>4
  <1> QED  BY <1>11, <1>13, <1>14, <1>15, <1>18, <1>19 DEF Good

-----------------------------------------------------------------------------
(* The steps keep the invariant.                                            *)

\* A step that leaves the allocators and what is held.
LEMMA StayStep ==
    ASSUME AllocInv, NEW t \in Caller, NEW d, Good(d), HeldBy(d) = HeldBy(call[t]),
           Become(t, d), UNCHANGED <<alloc, curSize>>
    PROVE  AllocInv'
  <1>1. call' = [call EXCEPT ![t] = d]  BY DEF Become
  <1>2. Calls(call') /\ AllHeld(call') = AllHeld(call)  BY <1>1, SameHeld DEF AllocInv
  <1> QED  BY <1>2 DEF AllocInv

\* allocate() fails; it may have added a node.
LEMMA FailStep ==
    ASSUME AllocInv, NEW t \in Caller, NEW d, Good(d), HeldBy(d) = HeldBy(call[t]),
           Become(t, d), NEW s \in Segment, alloc' = [alloc EXCEPT ![s] = Grown(@)], curSize' = curSize
    PROVE  AllocInv'
  <1>1. call' = [call EXCEPT ![t] = d]  BY DEF Become
  <1>2. Calls(call') /\ AllHeld(call') = AllHeld(call)  BY <1>1, SameHeld DEF AllocInv
  <1>3. Backing([alloc EXCEPT ![s] = Grown(@)], AllHeld(call))  BY GrowOk DEF AllocInv
  <1>4. Backing(alloc', AllHeld(call'))  BY <1>2, <1>3
  <1> QED  BY <1>2, <1>4 DEF AllocInv

\* allocate() succeeds.
LEMMA TakeStep ==
    ASSUME AllocInv, NEW t \in Caller, NEW s \in Segment, TakeBuffer(t, s),
           call[t].pc \in {"pick", "try"}, call[t].drop = {}, Len(call[t].got) < call[t].count,
           NameOf[s] \notin UsedNames(call[t])
    PROVE  AllocInv'
  <1> DEFINE c == call[t]
             size == SliceSize(c)
             b == NewBuffer(alloc, s, size)
             d == [c EXCEPT !.got = Append(@, b), !.pc = "pick",
                            !.tried = {}, !.eligible = {}, !.tries = 0]
             H == AllHeld(call)
  <1>0. Good(c) /\ Calls(call) /\ Backing(alloc, H) /\ Counted(curSize, H)
    BY DEF AllocInv, Calls
  <1>1. size \in Nat \ {0}  BY <1>0, SliceSizeOk
  <1>2. /\ CanAllocate(alloc[s], size) /\ alloc' = [alloc EXCEPT ![s] = allocate(@, size)]
        /\ curSize' = [curSize EXCEPT ![s] = @ + size] /\ call' = [call EXCEPT ![t] = d]
    BY DEF TakeBuffer, Become, NewBuffer
  <1>3. b.seg = s /\ b.size = size  BY DEF NewBuffer
  <1> HIDE DEF size
  <1>4. /\ b \in Buffer /\ b \notin H
        /\ Backing([alloc EXCEPT ![s] = allocate(@, size)], H \cup {b})
        /\ Counted([curSize EXCEPT ![s] = @ + size], H \cup {b})
    BY <1>0, <1>1, <1>2, TakeOk
  <1> HIDE DEF b
  <1>5. b \notin HeldBy(c)  BY <1>4 DEF AllHeld
  <1>6. Good(d) /\ HeldBy(d) = HeldBy(c) \cup {b}
    <2>1. b.size = SliceSize(c) /\ NameOf[b.seg] \notin UsedNames(c)  BY <1>3 DEF size
    <2> HIDE DEF c
    <2> QED  BY <2>1, <1>0, <1>4, <1>5, GetGood DEF c
  <1> HIDE DEF d, H
  <1>7. Calls(call') /\ AllHeld(call') = H \cup {b}
    <2>1. b \notin AllHeld(call)  BY <1>4 DEF H
    <2>2. Good(d) /\ Gains(call[t], d, b)  BY <1>6 DEF Gains
    <2>3. Calls([call EXCEPT ![t] = d]) /\ AllHeld([call EXCEPT ![t] = d]) = AllHeld(call) \cup {b}
      BY <2>1, <2>2, <1>0, MoreHeld
    <2> QED  BY <2>3, <1>2 DEF H
  <1>8. Backing(alloc', AllHeld(call')) /\ Counted(curSize', AllHeld(call'))  BY <1>2, <1>4, <1>7
  <1> QED  BY <1>7, <1>8 DEF AllocInv

\* A new call.
LEMMA StartStep == ASSUME AllocInv, NEW t \in Caller, Start(t) PROVE AllocInv'
  <1>1. PICK sl \in Slices, rn \in ReplicaNums, pref \in PrefNames :
           Become(t, [pc |-> "pick", slices |-> sl, rn |-> rn, pref |-> pref,
                      count |-> rn, bufs |-> [j \in 1 .. rn |-> <<>>], got |-> <<>>,
                      tried |-> {}, eligible |-> {}, tries |-> 0, drop |-> {}])
    BY DEF Start
  <1> DEFINE d == [pc |-> "pick", slices |-> sl, rn |-> rn, pref |-> pref,
                   count |-> rn, bufs |-> [j \in 1 .. rn |-> <<>>], got |-> <<>>,
                   tried |-> {}, eligible |-> {}, tries |-> 0, drop |-> {}]
  <1>2. Good(d) /\ HeldBy(d) = {}  BY StartGood
  <1>3. HeldBy(call[t]) = {}  BY IdleGood DEF Start
  <1>4. UNCHANGED <<alloc, curSize>>  BY DEF Start
  <1>5. Become(t, d)  BY <1>1
  <1> HIDE DEF d
  <1> QED  BY <1>2, <1>3, <1>4, <1>5, StayStep

\* A segment with the preferred name.
LEMMA PreferredStep == ASSUME AllocInv, NEW t \in Caller, AllocatePreferred(t) PROVE AllocInv'
  <1> DEFINE c == call[t]
  <1>0. Good(c) /\ c.pc = "pick" /\ c.drop = {} /\ Len(c.got) < c.count
    BY DEF AllocInv, Calls, AllocatePreferred, WantsMore
  <1>1. PICK s \in Preferred(c) :
           \/ TakeBuffer(t, s)
           \/ /\ alloc' = [alloc EXCEPT ![s] = Grown(@)]
              /\ Become(t, [c EXCEPT !.tried = @ \cup {s}])
              /\ UNCHANGED <<curSize, calls>>
    BY DEF AllocatePreferred
  <1>2. s \in Segment /\ NameOf[s] \notin UsedNames(c)  BY DEF Preferred
  <1>3. CASE TakeBuffer(t, s)  BY <1>0, <1>2, <1>3, TakeStep
  <1>4. CASE /\ alloc' = [alloc EXCEPT ![s] = Grown(@)]
             /\ Become(t, [c EXCEPT !.tried = @ \cup {s}])
             /\ UNCHANGED <<curSize, calls>>
    <2> DEFINE d == [c EXCEPT !.tried = @ \cup {s}]
    <2>1. /\ d \in CallRec /\ d.slices = c.slices /\ d.rn = c.rn /\ d.count = c.count
          /\ d.bufs = c.bufs /\ d.got = c.got /\ d.drop = c.drop /\ d.pc = c.pc
      <3>1. c \in CallRec  BY <1>0 DEF Good
      <3> HIDE DEF c
      <3> QED  BY <3>1, <1>2 DEF CallRec
    <2>2. Become(t, d) /\ curSize' = curSize  BY <1>4
    <2> HIDE DEF d
    <2>3. Good(d) /\ HeldBy(d) = HeldBy(c)  BY <2>1, <1>0, Turned
    <2> QED  BY <2>2, <2>3, <1>2, <1>4, FailStep
  <1> QED  BY <1>1, <1>3, <1>4

\* The choice of eligible allocators.
LEMMA CollectStep == ASSUME AllocInv, NEW t \in Caller, CollectEligible(t) PROVE AllocInv'
  <1> DEFINE c == call[t]
             E == {s \in Segment : NameOf[s] \notin UsedNames(c)
                                   /\ LargestFreeRegion(alloc[s]) >= SliceSize(c)}
             pc == IF E = {} THEN "slice" ELSE "try"
             d == [c EXCEPT !.pc = pc, !.tried = {}, !.eligible = E]
  <1>0. Good(c) /\ c.pc = "pick" /\ c.drop = {} /\ Len(c.got) < c.count
    BY DEF AllocInv, Calls, CollectEligible, WantsMore
  <1>1. Become(t, d) /\ UNCHANGED <<alloc, curSize>>  BY DEF CollectEligible
  <1>2. E \in SUBSET Segment /\ \A s \in E : NameOf[s] \notin UsedNames(c)  OBVIOUS
  <1>3. pc \in {"slice", "try"}  OBVIOUS
  <1> HIDE DEF E, pc
  <1>4. /\ d \in CallRec /\ d.slices = c.slices /\ d.rn = c.rn /\ d.count = c.count
        /\ d.bufs = c.bufs /\ d.got = c.got /\ d.drop = c.drop /\ d.pc = pc /\ d.eligible = E
    <2>1. c \in CallRec  BY <1>0 DEF Good
    <2>2. pc \in {"idle", "pick", "try", "slice", "done", "failed"}  BY <1>3
    <2> HIDE DEF c
    <2> QED  BY <2>1, <2>2, <1>2 DEF CallRec
  <1> HIDE DEF d
  <1>5. Good(d) /\ HeldBy(d) = HeldBy(c)  BY <1>0, <1>2, <1>3, <1>4, Turned
  <1> QED  BY <1>1, <1>5, StayStep

\* A random allocator.
LEMMA RandomStep == ASSUME AllocInv, NEW t \in Caller, TryRandomAllocate(t) PROVE AllocInv'
  <1> DEFINE c == call[t]
  <1>0. /\ Good(c) /\ c.pc = "try" /\ c.drop = {} /\ Len(c.got) < c.count
        /\ \A s \in c.eligible : NameOf[s] \notin UsedNames(c)
        /\ c \in CallRec /\ c.eligible \subseteq Segment /\ c.tries \in Nat
    BY DEF AllocInv, Calls, TryRandomAllocate, Good, Stage, CallRec
  <1> DEFINE E(s) == c.eligible \ {s}
             over(s) == E(s) = {} \/ c.tries + 1 = RetryLimit
             d(s) == [c EXCEPT !.pc = IF over(s) THEN "slice" ELSE "try",
                               !.eligible = IF over(s) THEN {} ELSE E(s),
                               !.tries = IF over(s) THEN 0 ELSE @ + 1]
  <1>1. PICK s \in c.eligible :
           \/ TakeBuffer(t, s)
           \/ /\ Become(t, d(s)) /\ alloc' = [alloc EXCEPT ![s] = Grown(@)]
              /\ UNCHANGED <<curSize, calls>>
    BY DEF TryRandomAllocate
  <1>2. s \in Segment /\ NameOf[s] \notin UsedNames(c)  BY <1>0
  <1>3. CASE TakeBuffer(t, s)  BY <1>0, <1>2, <1>3, TakeStep
  <1>4. CASE /\ Become(t, d(s)) /\ alloc' = [alloc EXCEPT ![s] = Grown(@)]
             /\ UNCHANGED <<curSize, calls>>
    <2> DEFINE pc == IF over(s) THEN "slice" ELSE "try"
               F == IF over(s) THEN {} ELSE E(s)
               n == IF over(s) THEN 0 ELSE c.tries + 1
               x == [c EXCEPT !.pc = pc, !.eligible = F, !.tries = n]
    <2>1. Become(t, x) /\ curSize' = curSize  BY <1>4
    <2>2. /\ pc \in {"slice", "try"} /\ F \in SUBSET Segment /\ n \in Nat
          /\ \A y \in F : NameOf[y] \notin UsedNames(c)
      BY <1>0
    <2> HIDE DEF pc, F, n
    <2>3. /\ x \in CallRec /\ x.slices = c.slices /\ x.rn = c.rn /\ x.count = c.count
          /\ x.bufs = c.bufs /\ x.got = c.got /\ x.drop = c.drop /\ x.pc = pc /\ x.eligible = F
      <3>1. pc \in {"idle", "pick", "try", "slice", "done", "failed"}  BY <2>2
      <3>2. c \in CallRec  BY <1>0
      <3> HIDE DEF c
      <3> QED  BY <3>1, <3>2, <2>2 DEF CallRec
    <2> HIDE DEF x
    <2>4. Good(x) /\ HeldBy(x) = HeldBy(c)  BY <2>2, <2>3, <1>0, Turned
    <2> QED  BY <2>1, <2>4, <1>2, <1>4, FailStep
  <1> QED  BY <1>1, <1>3, <1>4

\* A slice without any buffer.
LEMMA FailedStep == ASSUME AllocInv, NEW t \in Caller, SliceFails(t) PROVE AllocInv'
  <1> DEFINE c == call[t]
             d == [Idle EXCEPT !.pc = "failed", !.drop = BufsOf(c.bufs, DOMAIN c.bufs)]
  <1>1. Good(c) /\ c.drop = {} /\ c.got = <<>>  BY DEF AllocInv, Calls, SliceFails, SliceEnds
  <1>2. Become(t, d) /\ UNCHANGED <<alloc, curSize>>  BY DEF SliceFails
  <1>3. Good(d) /\ HeldBy(d) = HeldBy(c)  BY <1>1, GivenBack
  <1> HIDE DEF d
  <1> QED  BY <1>2, <1>3, StayStep

\* The end of a call.
LEMMA FinishStep == ASSUME AllocInv, NEW t \in Caller, Finish(t) PROVE AllocInv'
  <1> DEFINE c == call[t]
             D == BufsOf(c.bufs, DOMAIN c.bufs)
             d == [Idle EXCEPT !.drop = D]
             x == [Idle EXCEPT !.pc = "idle", !.drop = D]
  <1>1. Good(c) /\ c.drop = {} /\ c.got = <<>>
    BY DEF AllocInv, Calls, Finish, Good, Getting
  <1>2. Become(t, d) /\ UNCHANGED <<alloc, curSize>>  BY DEF Finish
  <1>3. d = x
    <2>1. Idle = [pc |-> "idle", slices |-> <<>>, rn |-> 0, pref |-> "none", count |-> 0, bufs |-> <<>>,
                  got |-> <<>>, tried |-> {}, eligible |-> {}, tries |-> 0, drop |-> {}]
      BY DEF Idle
    <2> HIDE DEF D
    <2>2. d = [Idle EXCEPT !.drop = D] /\ x = [Idle EXCEPT !.pc = "idle", !.drop = D]  OBVIOUS
    <2> HIDE DEF d, x
    <2>3. /\ d = [pc |-> "idle", slices |-> <<>>, rn |-> 0, pref |-> "none", count |-> 0, bufs |-> <<>>,
                  got |-> <<>>, tried |-> {}, eligible |-> {}, tries |-> 0, drop |-> D]
          /\ x = [pc |-> "idle", slices |-> <<>>, rn |-> 0, pref |-> "none", count |-> 0, bufs |-> <<>>,
                  got |-> <<>>, tried |-> {}, eligible |-> {}, tries |-> 0, drop |-> D]
      BY ONLY <2>1, <2>2
    <2> QED  BY <2>3
  <1>4. Good(x) /\ HeldBy(x) = HeldBy(c)  BY <1>1, GivenBack
  <1> HIDE DEF d, x
  <1> QED  BY <1>2, <1>3, <1>4, StayStep

\* The end of a slice.
LEMMA DoneStep == ASSUME AllocInv, NEW t \in Caller, SliceDone(t) PROVE AllocInv'
  <1> DEFINE c == call[t]
             m == Len(c.got)
             nb == [j \in 1 .. m |-> Append(c.bufs[j], c.got[j])]
             d == [c EXCEPT !.count = m, !.bufs = nb, !.got = <<>>,
                            !.drop = BufsOf(c.bufs, m + 1 .. c.count),
                            !.pc = IF Len(nb[1]) = Len(c.slices) THEN "done" ELSE "pick"]
  <1>1. Good(c) /\ c.pc \in {"pick", "slice"} /\ c.drop = {} /\ c.got # <<>>
    BY DEF AllocInv, Calls, SliceDone, SliceEnds
  <1>2. Become(t, d) /\ UNCHANGED <<alloc, curSize>>  BY DEF SliceDone
  <1>3. Spread(c, nb, d)  BY DEF Spread
  <1> HIDE DEF d, nb
  <1>4. Good(d) /\ HeldBy(d) = HeldBy(c)  BY <1>1, <1>3, DoneGood
  <1> QED  BY <1>2, <1>4, StayStep

\* The destructor of a buffer.
LEMMA DropStep == ASSUME AllocInv, NEW t \in Caller, Deallocate(t) PROVE AllocInv'
  <1> DEFINE c == call[t]
             H == AllHeld(call)
  <1>0. Good(c) /\ Calls(call) /\ Backing(alloc, H) /\ Counted(curSize, H)
    BY DEF AllocInv, Calls
  <1>1. PICK b \in c.drop :
           /\ alloc' = [alloc EXCEPT ![b.seg] = free(@, b.node)]
           /\ curSize' = [curSize EXCEPT ![b.seg] = @ - b.size]
           /\ Become(t, [c EXCEPT !.drop = @ \ {b}])
    BY DEF Deallocate
  <1> DEFINE d == [c EXCEPT !.drop = @ \ {b}]
  <1>2. Good(d) /\ HeldBy(d) = HeldBy(c) \ {b} /\ b \in HeldBy(c)  BY <1>0, DropGood
  <1>3. call' = [call EXCEPT ![t] = d]  BY <1>1 DEF Become
  <1> HIDE DEF d
  <1>4. Calls(call') /\ AllHeld(call') = H \ {b}
    <2>1. Good(d) /\ Loses(call[t], d, b)  BY <1>2 DEF Loses
    <2>2. Calls([call EXCEPT ![t] = d]) /\ AllHeld([call EXCEPT ![t] = d]) = AllHeld(call) \ {b}
      BY <2>1, <1>0, LessHeld
    <2> QED  BY <2>2, <1>3
  <1>5. b \in H  BY <1>2 DEF AllHeld
  <1> HIDE DEF H
  <1>6. /\ Backing([alloc EXCEPT ![b.seg] = free(@, b.node)], H \ {b})
        /\ Counted([curSize EXCEPT ![b.seg] = @ - b.size], H \ {b})
    BY <1>0, <1>5, DropOk
  <1>7. Backing(alloc', AllHeld(call')) /\ Counted(curSize', AllHeld(call'))  BY <1>1, <1>4, <1>6
  <1> QED  BY <1>4, <1>7 DEF AllocInv

\* The invariant holds at first.
LEMMA AllocInit == Init => AllocInv
  <1> SUFFICES ASSUME Init PROVE AllocInv  OBVIOUS
  <1>0. /\ alloc = [s \in Segment |-> NewAllocator] /\ curSize = [s \in Segment |-> 0]
        /\ call = [t \in Caller |-> Idle]
    BY DEF Init
  <1>1. \A t \in Caller : Good(call[t]) /\ HeldBy(call[t]) = {}  BY <1>0, IdleGood
  <1>2. DOMAIN call = Caller /\ call = [t \in Caller |-> call[t]]  BY <1>0
  <1>3. Calls(call)  BY <1>1, <1>2 DEF Calls
  <1>4. AllHeld(call) = {}  BY <1>1 DEF AllHeld
  <1>5. Whole(NewAllocator) /\ Used(NewAllocator) = {} /\ NewAllocator \in AllocRec
    BY NewOk, WholeFacts
  <1>6. Backing(alloc, {})
    <2>1. alloc \in [Segment -> AllocRec] /\ \A s \in Segment : Whole(alloc[s]) /\ Used(alloc[s]) = {}
      BY <1>0, <1>5
    <2> QED  BY <2>1 DEF Backing
  <1>7. Counted(curSize, {})
    <2>1. \A s : Occupied({}, s) = {}  BY DEF Occupied
    <2>2. Cardinality({}) = 0  BY FS_EmptySet
    <2>3. curSize \in [Segment -> Nat] /\ \A s \in Segment : curSize[s] = 0  BY <1>0
    <2> QED  BY <2>1, <2>2, <2>3 DEF Counted
  <1> QED  BY <1>3, <1>4, <1>6, <1>7 DEF AllocInv

\* Every step of Allocate, in any thread, keeps the invariant.
LEMMA AllocNext == AllocInv /\ [Next]_vars => AllocInv'
  <1> SUFFICES ASSUME AllocInv, [Next]_vars PROVE AllocInv'  OBVIOUS
  <1>1. ASSUME NEW t \in Caller, Start(t) PROVE AllocInv'  BY <1>1, StartStep
  <1>2. ASSUME NEW t \in Caller, AllocatePreferred(t) PROVE AllocInv'  BY <1>2, PreferredStep
  <1>3. ASSUME NEW t \in Caller, CollectEligible(t) PROVE AllocInv'  BY <1>3, CollectStep
  <1>4. ASSUME NEW t \in Caller, TryRandomAllocate(t) PROVE AllocInv'  BY <1>4, RandomStep
  <1>5. ASSUME NEW t \in Caller, SliceFails(t) PROVE AllocInv'  BY <1>5, FailedStep
  <1>6. ASSUME NEW t \in Caller, SliceDone(t) PROVE AllocInv'  BY <1>6, DoneStep
  <1>7. ASSUME NEW t \in Caller, Deallocate(t) PROVE AllocInv'  BY <1>7, DropStep
  <1>8. ASSUME NEW t \in Caller, Finish(t) PROVE AllocInv'  BY <1>8, FinishStep
  <1>9. CASE UNCHANGED vars
    <2>1. alloc' = alloc /\ curSize' = curSize /\ call' = call  BY <1>9 DEF vars
    <2> QED  BY <2>1 DEF AllocInv
  <1> QED  BY <1>1, <1>2, <1>3, <1>4, <1>5, <1>6, <1>7, <1>8, <1>9 DEF Next

-----------------------------------------------------------------------------
(* What the invariant says of the properties.                               *)

\* What the properties call held.
LEMMA HeldIs == \A s : Held(s) = {b \in AllHeld(call) : b.seg = s}
  BY DEF Held, AllHeld

\* The state of an allocator has its types.
LEMMA AllocTypes ==
    ASSUME NEW a, Whole(a)
    PROVE  /\ a.usedBins \subseteq Bin /\ a.freeStorage \in 0 .. StorageSize
           /\ a.capacity \in InitCapacity .. MaxCapacity
  <1>1. a \in AllocRec /\ a.freeStorage \in 0 .. StorageSize  BY WholeFacts
  <1>2. a.usedBins \in SUBSET Bin /\ a.capacity \in InitCapacity .. MaxCapacity
    BY <1>1 DEF AllocRec
  <1> QED  BY <1>1, <1>2

\* Buffers are in the regions of the used nodes, one each.
LEMMA InvExclusive == AllocInv => BuffersExclusive
  <1> SUFFICES ASSUME AllocInv, NEW s \in Segment
               PROVE  /\ \A b \in Held(s) : b.offset + b.size <= StorageSize
                      /\ \A b, c \in Held(s) :
                            b # c => b.offset + b.size <= c.offset \/ c.offset + c.size <= b.offset
                      /\ {i \in Live(alloc[s]) : alloc[s].nodes[i].used} = {b.node : b \in Held(s)}
    BY DEF BuffersExclusive
  <1> DEFINE H == AllHeld(call)
  <1>1. /\ Backing(alloc, H) /\ H \subseteq Buffer /\ Whole(alloc[s])
        /\ \A b \in H : Backed(alloc[b.seg], b)
        /\ \A i \in Used(alloc[s]) : \E b \in H : b.seg = s /\ b.node = i
    BY DEF AllocInv, Backing
  <1>2. Held(s) = {b \in H : b.seg = s}  BY HeldIs
  <1> HIDE DEF H
  <1>3. \A b \in Held(s) : b.offset + b.size <= StorageSize
    <2> SUFFICES ASSUME NEW b \in Held(s) PROVE b.offset + b.size <= StorageSize  OBVIOUS
    <2>1. b \in Buffer /\ Backed(alloc[s], b)  BY <1>1, <1>2
    <2> QED  BY <2>1, <1>1, BackedIn
  <1>4. ASSUME NEW b \in Held(s), NEW c \in Held(s), b # c
        PROVE  b.offset + b.size <= c.offset \/ c.offset + c.size <= b.offset
    <2>1. b \in H /\ c \in H /\ b.seg = c.seg  BY <1>2
    <2> QED  BY <2>1, <1>1, <1>4, BackedApart
  <1>5. Used(alloc[s]) = {b.node : b \in Held(s)}
    <2>1. ASSUME NEW i \in Used(alloc[s]) PROVE i \in {b.node : b \in Held(s)}
      BY <1>1, <1>2
    <2>2. ASSUME NEW b \in Held(s) PROVE b.node \in Used(alloc[s])
      BY <1>1, <1>2 DEF Backed
    <2> QED  BY <2>1, <2>2
  <1>6. {i \in Live(alloc[s]) : alloc[s].nodes[i].used} = {b.node : b \in Held(s)}
    BY <1>5 DEF Used
  <1> QED  BY <1>3, <1>4, <1>6

\* Whole allocators are sound, and cur_size_ counts what is occupied.
LEMMA InvSound == AllocInv => AllocatorSound
  <1> SUFFICES ASSUME AllocInv, NEW s \in Segment
               PROVE  /\ Sound(alloc[s])
                      /\ curSize[s] = Cardinality(UNION {b.offset .. b.offset + b.size - 1 : b \in Held(s)})
    BY DEF AllocatorSound
  <1>1. Sound(alloc[s])  BY WholeSound DEF AllocInv, Backing
  <1>2. curSize[s] = Cardinality(Occupied(AllHeld(call), s))  BY DEF AllocInv, Counted
  <1>3. Held(s) = {b \in AllHeld(call) : b.seg = s}  BY HeldIs
  <1>4. Occupied(AllHeld(call), s) = UNION {b.offset .. b.offset + b.size - 1 : b \in Held(s)}
    BY <1>3 DEF Occupied
  <1> QED  BY <1>1, <1>2, <1>4

\* The report of a whole allocator is exact.
LEMMA InvReport == AllocInv => ReportExact
  <1> SUFFICES ASSUME AllocInv, NEW s \in Segment, NEW n \in 1 .. StorageSize
               PROVE  CanAllocate(alloc[s], n) <=> LargestFreeRegion(alloc[s]) >= n
    BY DEF ReportExact
  <1>1. Mid(alloc[s], FreeNodes(alloc[s]))  BY DEF AllocInv, Backing, Whole
  <1>2. n \in Nat \ {0}  BY AllocatorAssumption
  <1> QED  BY <1>1, <1>2, ReportOk

\* The replicas have all slices, in segments of different names.
Complete(c) ==
    /\ c.count \in 1 .. c.rn /\ DOMAIN c.bufs = 1 .. c.count
    /\ \A j \in 1 .. c.count :
         /\ Len(c.bufs[j]) = Len(c.slices)
         /\ \A i \in DOMAIN c.slices : c.bufs[j][i].size = c.slices[i]
    /\ \A i \in DOMAIN c.slices : \A j, k \in 1 .. c.count :
         j # k => NameOf[c.bufs[j][i].seg] # NameOf[c.bufs[k][i].seg]

\* A call that is done has complete replicas.
LEMMA DoneSound == ASSUME NEW c, Good(c), c.pc = "done" PROVE Complete(c)
  <1>1. /\ c.count \in 1 .. c.rn /\ Len(c.bufs[1]) = Len(c.slices)  BY DEF Good, Stage
  <1>2. /\ DOMAIN c.bufs = 1 .. c.count /\ c.slices \in Seq(Nat \ {0})
        /\ \A j \in 1 .. c.count : /\ DOMAIN c.bufs[j] = 1 .. Len(c.bufs[j])
                                   /\ Len(c.bufs[j]) = Len(c.bufs[1])
    BY GoodLists
  <1>3. DOMAIN c.slices = 1 .. Len(c.slices)  BY <1>2
  <1>4. \A j \in 1 .. c.count : Len(c.bufs[j]) = Len(c.slices) /\ DOMAIN c.bufs[j] = DOMAIN c.slices
    BY <1>1, <1>2, <1>3
  <1>5. /\ \A j \in DOMAIN c.bufs : \A i \in DOMAIN c.bufs[j] : c.bufs[j][i].size = c.slices[i]
        /\ \A j, k \in DOMAIN c.bufs : j # k =>
             \A i \in DOMAIN c.bufs[j] : NameOf[c.bufs[j][i].seg] # NameOf[c.bufs[k][i].seg]
    BY DEF Good, Even
  <1>6. \A j \in 1 .. c.count : \A i \in DOMAIN c.slices : c.bufs[j][i].size = c.slices[i]
    BY <1>2, <1>4, <1>5
  <1>7. ASSUME NEW i \in DOMAIN c.slices, NEW j \in 1 .. c.count, NEW k \in 1 .. c.count, j # k
        PROVE  NameOf[c.bufs[j][i].seg] # NameOf[c.bufs[k][i].seg]
    <2>1. j \in DOMAIN c.bufs /\ k \in DOMAIN c.bufs /\ i \in DOMAIN c.bufs[j]  BY <1>2, <1>4
    <2>2. \A x \in DOMAIN c.bufs[j] : NameOf[c.bufs[j][x].seg] # NameOf[c.bufs[k][x].seg]
      BY ONLY <2>1, <1>5, <1>7
    <2> QED  BY ONLY <2>1, <2>2
  <1>8. \A j \in 1 .. c.count : Len(c.bufs[j]) = Len(c.slices)  BY <1>4
  <1>9. DOMAIN c.bufs = 1 .. c.count  BY <1>2
  <1> QED  BY ONLY <1>1, <1>6, <1>7, <1>8, <1>9 DEF Complete

\* The types follow, and what a call that is done hands out.
LEMMA InvReplicas == AllocInv => ReplicasSound
  <1> SUFFICES ASSUME AllocInv PROVE ReplicasSound  OBVIOUS
  <1>1. \A t \in Caller : Good(call[t])  BY DEF AllocInv, Calls
  <1>2. curSize \in [Segment -> Nat]  BY DEF AllocInv, Counted
  <1>3. ASSUME NEW s \in Segment
        PROVE  /\ alloc[s].usedBins \subseteq Bin /\ alloc[s].freeStorage \in 0 .. StorageSize
               /\ alloc[s].capacity \in InitCapacity .. MaxCapacity
    BY AllocTypes DEF AllocInv, Backing
  <1>4. ASSUME NEW t \in Caller
        PROVE  /\ call[t].pc \in {"idle", "pick", "try", "slice", "done", "failed"}
               /\ HeldBy(call[t]) \subseteq Buffer
               /\ Active(t) => call[t].count \in 1 .. call[t].rn
    <2>1. call[t] \in CallRec /\ Stage(call[t])  BY <1>1 DEF Good
    <2>2. call[t].pc \in {"idle", "pick", "try", "slice", "done", "failed"}  BY <2>1 DEF CallRec
    <2>3. HeldBy(call[t]) \subseteq Buffer  BY DEF AllocInv, Backing, AllHeld
    <2>4. Active(t) => call[t].count \in 1 .. call[t].rn  BY <2>1 DEF Active, Stage
    <2> QED  BY <2>2, <2>3, <2>4
  <1>5. AllocTypeOK  BY <1>2, <1>3, <1>4 DEF AllocTypeOK
  <1>6. \A t \in Caller : call[t].pc = "done" => Complete(call[t])  BY ONLY <1>1, DoneSound
  <1> QED  BY ONLY <1>5, <1>6 DEF ReplicasSound, Complete

-----------------------------------------------------------------------------
(* The theorems.                                                            *)

\* The inductive invariant: calls that run at the same time hold disjoint buffers,
\* and these are exactly the used regions of sound allocators.
THEOREM AllocInductive == Spec => []AllocInv
  BY AllocInit, AllocNext, PTL DEF Spec

\* RandomAllocationStrategy::Allocate never hands out memory twice and loses none,
\* however the calls of different threads interleave and fail: the buffers of a
\* segment do not overlap and are those of the used nodes of its allocator.
THEOREM BuffersStayExclusive == Spec => []BuffersExclusive
  BY AllocInductive, InvExclusive, PTL

\* __Allocator::allocate and free keep the regions, the bins, the masks and
\* m_freeStorage right for every storage size, mantissa width and limit of nodes,
\* and cur_size_ is what the buffers occupy.
THEOREM AllocatorsStaySound == Spec => []AllocatorSound
  BY AllocInductive, InvSound, PTL

\* tryRandomAllocate can rely on getLargestFreeRegion(): allocate() of a size
\* succeeds if and only if the report says that it fits.
THEOREM ReportsAreExact == Spec => []ReportExact
  BY AllocInductive, InvReport, PTL

\* What Allocate returns is complete: each replica has a buffer of the right size
\* for every slice, and the replicas of a slice are in segments of different names.
THEOREM ReplicasStaySound == Spec => []ReplicasSound
  BY AllocInductive, InvReplicas, PTL
=============================================================================
